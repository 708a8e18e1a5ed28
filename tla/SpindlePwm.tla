------------------------------ MODULE SpindlePwm ------------------------------
(***************************************************************************)
(* Spindle speeds as PWM values (spindle_control.c): what is computed once *)
(* from the settings, and the value for a speed.  Numbers are exact here,  *)
(* percentages are whole; the first PWM value is 0 (no offset).  A         *)
(* behaviour asks for one speed after another under the same settings.     *)
(***************************************************************************)
EXTENDS Integers

CONSTANTS Period,     \* of the timer, clock_hz / pwm_freq
          RpmMins, RpmMaxs, MinPercents, MaxPercents, OffPercents, Overdrives,  \* settings
          Speeds      \* asked for

VARIABLE w

Percent(p) == (Period * p) \div 100
Within(x, low, high) == IF x < low THEN low ELSE IF x > high THEN high ELSE x

\* The settings, of which no check demands more than that percentages are percentages; here
\* they are in order: off, least, most.
Settings ==
    {c \in [rpmMin : RpmMins, rpmMax : RpmMaxs, min : MinPercents, max : MaxPercents, off : OffPercents,
            overdrive : Overdrives, invert : BOOLEAN, disable : BOOLEAN] : c.off <= c.min /\ c.min < c.max}

Variable(c) == ~c.disable /\ c.rpmMax > c.rpmMin
Inverted(c, value) == IF c.invert THEN Period - value ELSE value

\* spindle_precompute_pwm_values: a spindle that must turn has a value that is not 0.
MaxValue(c) == Percent(c.max)
MinValue(c) ==
    IF Percent(c.min) = 0 /\ c.rpmMin > 0 THEN (MaxValue(c) * 4) \div 1000 ELSE Percent(c.min)
OffValue(c) == IF Variable(c) THEN Inverted(c, Percent(c.off)) ELSE 0

\* From rpm_min to rpm_max the value goes linearly from the least to the most.
Linear(c, rpm) ==
    ((rpm - c.rpmMin) * (MaxValue(c) - MinValue(c))) \div (c.rpmMax - c.rpmMin) + MinValue(c)

\* spindle_compute_pwm_value; with a PID loop the limit is the period.
Limited(c, value, pid) ==
    IF value >= (IF pid THEN Period ELSE MaxValue(c)) THEN (IF pid THEN Period - 1 ELSE MaxValue(c))
    ELSE IF value < MinValue(c) THEN MinValue(c) ELSE value

ComputeValue(c, rpm, pid) ==
    IF ~Variable(c) \/ rpm = 0 THEN OffValue(c)
    ELSE Inverted(c, IF rpm > c.rpmMin THEN Limited(c, Linear(c, rpm), pid) ELSE MinValue(c))

\* The value while a laser is switched off by its enable signal
Overdrive(c, rpm, pid) ==
    LET value == Limited(c, Linear(c, rpm), pid)
    IN Inverted(c, Within(value + (value * c.overdrive) \div 100, MinValue(c), MaxValue(c)))

Asked(c, rpm, pid) ==
    [settings |-> c, rpm |-> rpm, pid |-> pid, value |-> ComputeValue(c, rpm, pid),
     overdrive |-> IF Variable(c) /\ rpm > c.rpmMin /\ c.overdrive > 0 THEN Overdrive(c, rpm, pid) ELSE 0,
     before |-> 0, last |-> 0]

Init == \E c \in Settings, pid \in BOOLEAN : w = [Asked(c, 0, pid) EXCEPT !.last = ComputeValue(c, 0, pid)]

\* get_pwm, with the speed limited by spindle_set_rpm
Next ==
    \E rpm \in Speeds :
        /\ rpm <= w.settings.rpmMax
        /\ w' = [Asked(w.settings, rpm, w.pid) EXCEPT !.before = w.rpm, !.last = w.value]

-----------------------------------------------------------------------------
(* What the spindle gets *)

Duty(value) == Inverted(w.settings, value)

\* A spindle that is on is driven between the limits, and that of the speed it should have
\* at the ends of the range; to be off is less than any speed, and without a lower limit of
\* its own is not the slowest speed.
DutyInRange ==
    LET c == w.settings
    IN Variable(c) =>
        /\ w.rpm > 0 => /\ Duty(w.value) >= MinValue(c)
                        /\ Duty(w.value) <= IF w.pid THEN Period - 1 ELSE Percent(c.max)
                        /\ Percent(c.min) <= Duty(w.value)
                        /\ Duty(OffValue(c)) <= Duty(w.value)
                        /\ c.rpmMin > 0 /\ c.off = 0 => Duty(w.value) > 0
        /\ w.rpm = c.rpmMax => Duty(w.value) = IF w.pid /\ c.max = 100 THEN Period - 1 ELSE Percent(c.max)
        /\ w.overdrive > 0 => Duty(w.overdrive) \in MinValue(c) .. Percent(c.max)

\* A higher speed never gets a lower value, and the off value is the only one for speed 0.
Rising ==
    /\ Variable(w.settings) /\ w.before <= w.rpm => Duty(w.last) <= Duty(w.value)
    /\ w.before = w.rpm /\ w.before > 0 => w.last = w.value

PwmSound == DutyInRange /\ Rising
=============================================================================
