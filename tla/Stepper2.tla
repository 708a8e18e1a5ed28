------------------------------- MODULE Stepper2 -------------------------------
(***************************************************************************)
(* A motor outside of the coordinated motion (stepper2.c), a spindle or a  *)
(* plugin's axis: steps along a speed ramp computed in integers, by a      *)
(* timer interrupt or by polling, while the foreground starts moves,       *)
(* changes the speed, stops and resets.  The ramp is that of the code with *)
(* Scale instead of 2^16 as its fixed point; steps are counted with        *)
(* unbounded integers where the code wraps around at 2^32.                 *)
(***************************************************************************)
EXTENDS Integers

CONSTANTS Acceleration,  \* motor->acceleration, in steps/s^2
          FirstDelay,    \* 0.676 sqrt(2 / Acceleration) seconds, in microseconds
          Speeds,        \* steps/s
          Moves,         \* numbers of steps, with their sign
          Scale,         \* one, in fixed point
          MotorWindows,  \* calls in moments the code does not survive: subset of AllMotorWindows
          MaxCruise,     \* bound of the steps at constant speed
          MaxCalls       \* bound of moves and changes of speed

\* A stop in the last step of the acceleration, a second stop while the first
\* one is at work, a speed before the ramp to the last one is done, a new speed
\* in a move of a given length, a new speed whose ramp is as long as that made,
\* or a lower one whose ramp is longer.
AllMotorWindows == {"stop_last", "again", "early", "finite", "near"}

ASSUME MotorAssumption == Acceleration \in Nat \ {0} /\ Speeds \subseteq Nat \ {0} /\ Moves \subseteq Int

VARIABLES motor,   \* the motor
          motion   \* history: calls, and the position the move began at

motorVars == <<motor, motion>>

MotorInit ==
    /\ motor = [state |-> "idle", infinite |-> FALSE, move |-> 0, no |-> 0, run |-> 0, down |-> 0,
                c |-> 0, delay |-> 0, first |-> FirstDelay, min |-> 0, denom |-> 1, n |-> 0,
                prev |-> 0, back |-> FALSE, position |-> 0, lost |-> FALSE,
                timer |-> FALSE]     \* step_inject_timer runs
    /\ motion = [calls |-> 0, from |-> 0, asIs |-> FALSE, stop |-> FALSE]

Moving == motor.state # "idle"
Cruising(x) == IF x.infinite THEN "infinite" ELSE "run"
Ramp(x) == (x.denom - 1) \div 4

\* A negative divisor is a large unsigned number.
Change(c, divisor) == IF divisor > 0 THEN (2 * c) \div divisor ELSE 0
Rounded(c) == (c + Scale \div 2) \div Scale

-----------------------------------------------------------------------------
(* _motor_run: one step *)

Faster(x) == LET d == x.denom + 4
                 c == x.c - Change(x.c, d)
             IN [x EXCEPT !.denom = d, !.c = c, !.delay = Rounded(c)]

Slower(x) == LET d == x.denom - 4
                 c == x.c + Change(x.c, d)
             IN [x EXCEPT !.denom = d, !.c = c, !.delay = Rounded(c)]

Cruise(x) == [x EXCEPT !.state = Cruising(x), !.delay = x.min, !.down = x.move - x.no]

Accelerate(x) ==
    IF x.no # x.run THEN IF Faster(x).delay < x.min THEN Cruise(Faster(x)) ELSE Faster(x)
    ELSE IF x.run = x.down THEN [x EXCEPT !.state = "decel"]
    ELSE [x EXCEPT !.state = Cruising(x), !.delay = x.min]

Decelerate(x) ==
    IF x.denom < 2 THEN [x EXCEPT !.state = "idle", !.prev = 0, !.n = 0]
    ELSE LET c == x.c + Change(x.c, x.denom)
         IN [x EXCEPT !.c = c, !.delay = (c - Scale \div 2) \div Scale, !.denom = @ - 4]

DecelerateTo(x) == IF x.no # x.run THEN Slower(x) ELSE [x EXCEPT !.delay = x.min, !.state = Cruising(x)]

Stepped(x) == [x EXCEPT !.position = IF x.back THEN @ - 1 ELSE @ + 1, !.no = @ + 1]

MotorRun(x) ==
    Stepped(CASE x.state = "accel"   -> Accelerate(x)
              [] x.state = "run"     -> IF x.no = x.down THEN [x EXCEPT !.state = "decel"] ELSE x
              [] x.state = "decel"   -> Decelerate(x)
              [] x.state = "decelTo" -> DecelerateTo(x)
              [] OTHER -> x)

\* motor_irq: after a reset the timer makes one more step.
Irq ==
    /\ motor.timer /\ (motor.state = "infinite" => motor.no < MaxCruise)
    /\ motor' = LET x == MotorRun(motor) IN [x EXCEPT !.timer = x.state # "idle"]
    /\ UNCHANGED motion

-----------------------------------------------------------------------------
(* Calls of the foreground *)

\* Mutant: the steps to the lower speed are taken for a positive number.
DownSigned(x, pn) == [x EXCEPT !.state = "decelTo", !.run = x.no + pn]
Down(x, pn) == [x EXCEPT !.state = "decelTo", !.run = x.no - pn]

Up(x, pn) == IF x.state = "accel" THEN [x EXCEPT !.run = @ + pn]
             ELSE [x EXCEPT !.run = x.no + pn, !.state = "accel"]

\* st2_motor_set_speed, for a speed other than zero
Sped(x, speed) ==
    LET steps == (speed * speed) \div (2 * Acceleration)
        y == [x EXCEPT !.min = 1000000 \div speed, !.n = IF steps = 0 THEN 1 ELSE steps]
        pn == y.n - Ramp(x)
        z == IF x.state = "idle" THEN y
             ELSE IF speed > x.prev THEN Up(y, pn)
             ELSE IF x.state = "decel" THEN y ELSE Down(y, pn)
    IN IF speed = x.prev THEN x
       ELSE IF x.state # "idle" /\ pn = 0 THEN y
       ELSE [z EXCEPT !.prev = speed, !.first = IF @ < y.min THEN y.min ELSE @]

\* The steps of the ramp to the speed x was told to run at are not those it made.
TooNear(x, speed) ==
    LET more == Sped(x, speed).n - Ramp(x)
    IN speed # x.prev /\ (more = 0 \/ (speed < x.prev /\ more > 0))

\* st2_motor_move, for a motor at rest
Started(x, steps, infinite) ==
    LET length == IF steps < 0 THEN -steps ELSE steps
        half == IF length \div 2 > x.n THEN x.n ELSE length \div 2
        y == [x EXCEPT !.infinite = infinite, !.move = length, !.back = steps < 0]
    IN IF length = 0 /\ ~infinite THEN y
       ELSE IF length = 1 /\ ~infinite THEN Stepped(y)
       ELSE [y EXCEPT !.run = IF infinite THEN x.n ELSE half,
                      !.down = IF infinite THEN x.n + 1 ELSE length - half,
                      !.state = "accel", !.delay = x.first, !.c = x.first * Scale,
                      !.denom = 1, !.no = 0, !.timer = TRUE]

Move ==
    /\ ~Moving /\ motion.calls < MaxCalls
    /\ \E steps \in Moves, speed \in Speeds, infinite \in BOOLEAN :
        /\ motor' = Started(Sped(motor, speed), steps, infinite)
        /\ motion' = [calls |-> motion.calls + 1, from |-> motor.position, asIs |-> TRUE, stop |-> FALSE]

SetSpeed ==
    /\ motion.calls < MaxCalls /\ ~motion.stop
    /\ "finite" \in MotorWindows \/ motor.infinite \/ ~Moving
    /\ \E speed \in Speeds :
        /\ "early" \in MotorWindows \/ motor.state \in {"idle", "infinite"}
        /\ "near" \in MotorWindows \/ ~Moving \/ ~TooNear(motor, speed)
        /\ motor' = Sped(motor, speed)
    /\ motion' = [motion EXCEPT !.calls = @ + 1, !.asIs = FALSE]

\* st2_motor_stop
Stopping(x) ==
    CASE x.state = "accel" -> [x EXCEPT !.no = x.down - 1, !.run = x.down]
      [] x.state = "run"   -> [x EXCEPT !.no = x.down - 1]
      [] x.state \in {"infinite", "decelTo"} -> [x EXCEPT !.state = "decel"]
      [] OTHER -> x

Stop ==
    /\ Moving /\ ("again" \in MotorWindows \/ ~motion.stop)
    /\ "stop_last" \in MotorWindows \/ motor.state # "accel" \/ Faster(motor).delay >= motor.min
    /\ motor' = Stopping(motor)
    /\ motion' = [motion EXCEPT !.stop = TRUE, !.asIs = FALSE]

\* st2_reset: at once, and the timer goes off once more.
MotorReset ==
    /\ motor' = [motor EXCEPT !.lost = Moving, !.state = "idle"]
    /\ motion' = [motion EXCEPT !.stop = TRUE, !.asIs = FALSE]

SetPosition ==
    /\ ~Moving /\ motor.position # 0
    /\ motor' = [motor EXCEPT !.position = 0, !.lost = FALSE]
    /\ motion' = [motion EXCEPT !.from = @ - motor.position]

MotorNext == Irq \/ Move \/ SetSpeed \/ Stop \/ MotorReset \/ SetPosition

MotorSpec == MotorInit /\ [][MotorNext]_motorVars

\* The timer runs.
MotorLiveSpec == MotorSpec /\ WF_motorVars(Irq)

-----------------------------------------------------------------------------
(* Properties *)

Made == IF motor.back THEN motion.from - motor.position ELSE motor.position - motion.from

\* A move nobody interferes with makes the steps it was told to, and those two
\* or three that the code adds on the way down: none are missing, and the
\* ramp down is as long as the one up, however early it reached its speed.
MoveMade ==
    motion.asIs /\ ~motor.infinite /\ ~Moving /\ motor.move > 1 => Made - motor.move \in 2..3

\* A motor at constant speed runs at the speed that was asked for, and its ramp
\* is never decelerated below its beginning.
SpeedKept ==
    /\ motor.state \in {"run", "infinite"} => motor.delay = motor.min
    /\ Ramp(motor) >= 0

MotorSound == MoveMade /\ SpeedKept

\* What is stopped comes to rest, and the speed asked for is reached.
MotorStops == motion.stop ~> ~Moving
SpeedReached == motor.state \in {"accel", "decelTo"} ~> motor.state \notin {"accel", "decelTo"}

MotorEnds == MotorStops /\ SpeedReached
=============================================================================
