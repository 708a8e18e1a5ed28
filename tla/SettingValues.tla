--------------------------- MODULE SettingValues ---------------------------
(***************************************************************************)
(* What a client asks of the settings (settings.c): the table of settings, *)
(* which of them a machine has, the values it accepts, the functions that  *)
(* store a value, often as flags in several places, and those that put it  *)
(* together again to be read; and the listing a client keeps as a backup.  *)
(*                                                                         *)
(* A setting is known by its number.  The value of one that is a bool, a   *)
(* mask or a set of options is the set of its bits; delays are in ms.      *)
(* A flag or number of settings_t is called by the setting that holds it.  *)
(* Plain numbers, which are stored and read as they are, are represented   *)
(* by some of each kind.  Storage, limits and the homed state, which       *)
(* follow the settings, are modelled in Settings.                          *)
(***************************************************************************)
EXTENDS Integers, FiniteSets, Sequences
LOCAL INSTANCE SequencesExt

CONSTANTS Able,         \* capabilities of driver and spindles
          NAxis,
          Ganged,       \* axes with two motors
          Signals,      \* the control signals of the driver, by bit
          SpindleRefs,  \* the ids of the spindles in their order
          StepUsMin,    \* hal.step_us_min
          Unreadable,   \* a value that is not a number, and what comes of it
          Menus         \* what is written: sets of pairs of a setting and a value

VARIABLES values, menu

valueVars == <<values, menu>>

AxisNumbers == 0..NAxis - 1
LimitsOverride == 10
Tolerance == 1340           \* the second copy of the number of setting 340
OwnSignals == Signals \ {LimitsOverride}

-----------------------------------------------------------------------------
(* The table of settings *)

Bools == {7, 13, 20, 39, 40, 60, 62, 64, 384, 484, 485, 534}
AxisMasks == {2, 3, 4, 5, 18, 23, 37, 44, 45, 46, 671}
Options == {6, 8, 9, 10, 14, 15, 16, 17, 19, 21, 22, 41, 61, 63, 65, 346, 486, 676}
Radios == {32, 42, 341, 395, 519}
Ints == {1, 26, 38, 43, 398, 481, 680}
AxisBases == {100, 110, 120, 130, 170, 180, 190}
Decimals == {0, 11, 24, 25, 27, 29, 30, 36, 58, 90, 340, 342, 347, 392, 394, 539, 673} \cup AxisBases
Core == Bools \cup AxisMasks \cup Options \cup Radios \cup Ints \cup Decimals

\* The homing rates of single axes are no core settings, by their type.
NonCore == {180, 190}

\* setting_remove_elements takes options off the end of the text of a setting
\* which the machine does not have.
Trimmed(mask) == 1 + Max(mask \cup {0})

\* The number of bits
Entries(id) ==
    CASE id \in Bools         -> 1
      [] id \in AxisMasks     -> NAxis
      [] id = 8               -> Trimmed(Ganged)
      [] id \in {14, 17}      -> Trimmed(OwnSignals)
      [] id = 16              -> IF "pwm_invert" \in Able THEN 3 ELSE 2
      [] id = 10              -> 14
      [] id = 22              -> 11
      [] id = 65              -> 5
      [] id = 676             -> 4
      [] id \in {15, 21, 61, 63}       -> 2
      [] OTHER                -> 3
Bits(id) == 0..Entries(id) - 1

\* The number of choices
Alternatives(id) ==
    CASE id = 341 -> 5 [] id \in {395, 519} -> Len(SpindleRefs) [] OTHER -> 3

\* The least value, the greatest, and whether nought is allowed besides
Low(id) ==
    CASE id = 0 -> StepUsMin [] id = 43 -> 1 [] id = 58 -> -100000 [] id = 170 -> -10 [] id = 398 -> 30
      [] id = 481 -> 100 [] id \in {392, 394, 539, 673} -> 500 [] OTHER -> 0
High(id) ==
    CASE id = 1 -> 65535 [] id = 29 -> 20 [] id \in {36, 347} -> 100 [] id = 43 -> 128 [] id = 170 -> 10
      [] id \in {398, 481} -> 1000 [] id = 680 -> 250 [] id \in {392, 394, 539, 673} -> 20000
      [] OTHER -> 2147483647
AllowNull(id) == id \in {392, 394, 481, 539, 673}

\* Settings of an axis are numbered from their base.
NormalizeId(id) ==
    IF \E base \in {100, 200, 800} : id > base /\ id <= base + 90 + NAxis THEN id - (id % 10) ELSE id
AxisOf(id) == id - NormalizeId(id)

Flag(id, bit) ==
    CASE id = 676 /\ bit = 0 -> <<22, 7>>     \* homing.flags.keep_on_reset
      [] id = 7              -> <<9, 1>>      \* enable_rpm_controlled
      [] OTHER               -> <<id, bit>>
\* Flags that are set when the bit is not: keep_..., no_..., pwm_disable
Inverted(id, bit) == id \in {484, 676} \/ <<id, bit>> \in {<<346, 0>>, <<9, 0>>}

HomingEnabled == <<22, 0>>
TwoSwitches == <<22, 4>>     \* of limits.flags
UseLimitSwitches == <<22, 8>>
PerAxis == <<22, 9>>
FlagsOf(id) == {Flag(id, bit) : bit \in Bits(id)}

-----------------------------------------------------------------------------
(* The settings a machine has *)

\* is_setting_available
SettingAvailable(c, id) ==
    CASE id = 8                       -> Ganged # {}
      [] id \in {6, 19, 65}           -> "probe" \in Able
      [] id = 7                       -> FALSE
      [] id = 9                       -> {"pwm", "laser"} \subseteq Able
      [] id \in {14, 17}              -> Signals \ {7} # {}
      [] id = 16                      -> "gpio_spindle" \in Able
      [] id = 36                      -> "pwm" \in Able
      [] id = 38                      -> "encoder" \in Able
      [] id = 30                      -> "variable" \in Able
      [] id \in {341, 342, 346}       -> "atc" \notin Able
      [] id \in {170, 347}            -> "squared" \in Able
      [] id \in {180, 190}            -> PerAxis \in c.on
      [] id = 61                      -> 3 \in Signals
      [] id = 340                     -> "at_speed" \in Able \/ "encoder" \in Able
      [] id \in {394, 539}            -> SpindleRefs # << >>
      [] id = 395                     -> Len(SpindleRefs) > 1
      [] id = 519                     -> "encoder" \in Able /\ Len(SpindleRefs) > 1
      [] id = 481                     -> "ticks" \in Able
      [] id = 484                     -> 6 \in Signals
      [] id = 671                     -> "home_inputs" \in Able
      [] id = 673                     -> "coolant" \in Able
      [] id = 90                      -> "spindle_sync" \in Able   \* its group
      [] OTHER                        -> TRUE

\* setting_get_details: the number of an axis may be one too many.
HasSetting(c, id) ==
    /\ NormalizeId(id) \in Core /\ SettingAvailable(c, NormalizeId(id))
    /\ AxisOf(id) < NAxis

\* settings_iterator: the settings that are listed, in the order of numbers
Numbers == SelectSeq([i \in 1..700 |-> i - 1], LAMBDA id :
    id \in Core \/ \E base \in AxisBases : id \in base..base + NAxis - 1)
Hidden(c) == IF PerAxis \in c.on THEN {24, 25} ELSE {}
Listed(c) == SelectSeq(Numbers, LAMBDA id : HasSetting(c, id) /\ id \notin Hidden(c))

\* setting_validate_me
Valid(id, v) ==
    CASE id \in Bools \cup AxisMasks \cup Options -> v # Unreadable /\ v \subseteq Bits(id)
      [] id \in Radios                           -> v \in 0..Alternatives(id) - 1
      [] v = Unreadable                           -> id \in Decimals /\ Low(id) = 0
      [] OTHER -> (v >= Low(id) \/ (AllowNull(id) /\ v = 0)) /\ v <= High(id)

-----------------------------------------------------------------------------
(* The functions that store a value; c.ok is FALSE when it is refused *)

Refuse(c) == [c EXCEPT !.ok = FALSE]

\* The bits in able are stored as flags.
PackOnly(c, id, v, able) ==
    [c EXCEPT !.on = (@ \ {Flag(id, bit) : bit \in able})
                     \cup {Flag(id, bit) : bit \in {b \in able : (b \in v) # Inverted(id, b)}}]
Pack(c, id, v) == PackOnly(c, id, v, Bits(id))
Unpack(c, id) == {bit \in Bits(id) : (Flag(id, bit) \in c.on) # Inverted(id, bit)}

\* What sleep, hold, reset and the start of the machine do
SetActions(c, id, v) == Pack(c, id, v)

PutNumber(c, id, v) == [c EXCEPT !.num[id] = v]

\* Inputs besides the probe
ProbeInputs == {0} \cup (IF "toolsetter" \in Able THEN {1} ELSE {}) \cup (IF "probe2" \in Able THEN {2} ELSE {})
SetProbeInvert(c, v) ==
    IF "configure" \notin Able THEN Refuse(c) ELSE PackOnly(c, 6, v, ProbeInputs)
SetProbeDisablePullup(c, v) ==
    IF "configure" \notin Able THEN Refuse(c) ELSE PackOnly(c, 19, v, ProbeInputs \ {2})
SetGangedDirInvert(c, v) == IF Ganged = {} THEN Refuse(c) ELSE Pack(c, 8, v \cap Ganged)

\* Nought ends automatic reports.
SetReportInterval(c, v) == [PutNumber(c, 481, v) EXCEPT !.auto = @ /\ v # 0]

\* The input that overrides limits is always inverted.
SetControlInvert(c, v) == Pack(c, 14, v \cap Signals)
SetControlDisablePullup(c, v) == Pack(c, 17, v \cap OwnSignals)

SetPwmOptions(c, v) == Pack(c, 9, IF 0 \in v THEN v ELSE {})
SetDefaultSpindle(c, v) == PutNumber(c, 395, SpindleRefs[v + 1])
SetEncoderSpindle(c, v) == PutNumber(c, 519, SpindleRefs[v + 1])
\* The setting is changed though it is refused.
SetSpindleInvert(c, v) ==
    IF 2 \in v /\ "pwm_invert" \notin Able THEN Refuse(Pack(c, 16, v \ {2})) ELSE Pack(c, 16, v)

\* Limits need homing.
SetLimitsEnable(c, id, v) ==
    IF v # {} /\ HomingEnabled \notin c.on THEN Refuse(c) ELSE Pack(c, id, v)
SetHardLimits(c, v) == Pack(c, 21, IF 0 \in v THEN v ELSE {})
SetEstopUnlock(c, v) == IF 6 \notin Signals THEN Refuse(c) ELSE Pack(c, 484, v)
SetMode(c, v) == IF v = 1 /\ "laser" \notin Able THEN Refuse(c) ELSE PutNumber(c, 32, v)
SetParking(c, v) ==
    Pack(c, 41, IF 0 \notin v THEN {} ELSE v \cup (IF 1 \in v THEN {2} ELSE {}))

\* Without rates of their own, all axes home with the same.
SetHomingFeedrates(c, id, v) ==
    LET base == IF id = 24 THEN 180 ELSE 190
    IN IF PerAxis \in c.on THEN Refuse(c)
       ELSE [c EXCEPT !.num = [n \in DOMAIN @ |-> IF n \in {base + a : a \in AxisNumbers} THEN v ELSE @[n]]]

\* Without homing all flags are off but that of shared switches, and limits too.
HomingOff(c) == [c EXCEPT !.on = @ \ ((FlagsOf(22) \ {TwoSwitches}) \cup FlagsOf(20) \cup FlagsOf(40))]
HomingOn(c, v) ==
    LET fresh == HomingEnabled \notin c.on \/ PerAxis \in c.on
        d == Pack(c, 22, v)
    IN IF fresh /\ PerAxis \notin d.on
       THEN SetHomingFeedrates(SetHomingFeedrates(d, 24, d.num[180]), 25, d.num[190])
       ELSE d
SetHomingEnable(c, v) ==
    LET d == IF 0 \in v THEN HomingOn(c, v) ELSE HomingOff(c)
    IN IF "homing_state" \in Able THEN d ELSE [d EXCEPT !.on = @ \ {UseLimitSwitches}]

\* Automatic selection needs the input and a probe that can be selected.
SetProbeFlags(c, v) ==
    Pack(c, 65, {b \in v : /\ b = 3 => {"toolsetter", "select"} \subseteq Able
                           /\ b = 4 => {"probe2", "select"} \subseteq Able})

SetToolChangeMode(c, v) ==
    IF "atc" \in Able \/ "suspend_read" \notin Able THEN Refuse(c) ELSE PutNumber(c, 341, v)
SetToolChangeDistance(c, v) == IF "atc" \in Able THEN Refuse(c) ELSE PutNumber(c, 342, v)
SetToolChangeFlags(c, v) == IF "atc" \in Able THEN Refuse(c) ELSE Pack(c, 346, v)

\* set_float: the tolerance has two copies, delays are 16 bits wide.
SetFloat(c, id, v) ==
    IF id = 340 THEN [c EXCEPT !.num[340] = v, !.num[Tolerance] = v] ELSE PutNumber(c, id, v % 2 ^ 16)

\* Positions are rescaled with the steps of a mm, and cut to whole steps.
SetSteps(c, id, v) ==
    LET old == c.num[id]
        scaled == c.pos[AxisOf(id)] * v
        cut == IF scaled >= 0 THEN scaled \div old ELSE -((-scaled) \div old)
    IN [PutNumber(c, id, v) EXCEPT !.pos[AxisOf(id)] = IF old > 0 /\ old # v THEN cut ELSE @]

\* Accelerations are kept in minutes, travels are negative.
SetAxisSetting(c, id, v) ==
    LET base == NormalizeId(id)
    IN CASE base = 100 -> SetSteps(c, id, v)
         [] base = 110 -> PutNumber(c, id, v)
         [] base = 120 -> PutNumber(c, id, v * 3600)
         [] base = 130 -> PutNumber(c, id, -v)
         [] base = 170 -> IF "squared" \in Able /\ AxisOf(id) \in Ganged THEN PutNumber(c, id, v) ELSE Refuse(c)
         [] OTHER      -> IF PerAxis \in c.on THEN PutNumber(c, id, v) ELSE Refuse(c)

\* The width of a number that is stored where it is
Stored(id, v) == CASE id = 43 -> v % 2 ^ 8 [] id \in Ints -> v % 2 ^ 16 [] OTHER -> v

SetValue(c, id, v) ==
    CASE id = 6   -> SetProbeInvert(c, v)
      [] id = 8   -> SetGangedDirInvert(c, v)
      [] id = 9   -> SetPwmOptions(c, v)
      [] id = 14  -> SetControlInvert(c, v)
      [] id = 16  -> SetSpindleInvert(c, v)
      [] id = 17  -> SetControlDisablePullup(c, v)
      [] id = 19  -> SetProbeDisablePullup(c, v)
      [] id = 21  -> SetHardLimits(c, v)
      [] id = 22  -> SetHomingEnable(c, v)
      [] id = 32  -> SetMode(c, v)
      [] id = 41  -> SetParking(c, v)
      [] id = 65  -> SetProbeFlags(c, v)
      [] id \in {62, 63, 64, 384, 676}  -> SetActions(c, id, v)
      [] id = 341 -> SetToolChangeMode(c, v)
      [] id = 342 -> SetToolChangeDistance(c, v)
      [] id = 346 -> SetToolChangeFlags(c, v)
      [] id = 395 -> SetDefaultSpindle(c, v)
      [] id = 481 -> SetReportInterval(c, v)
      [] id = 484 -> SetEstopUnlock(c, v)
      [] id = 519 -> SetEncoderSpindle(c, v)
      [] id \in {20, 40}                -> SetLimitsEnable(c, id, v)
      [] id \in {24, 25}                -> SetHomingFeedrates(c, id, v)
      [] id \in {340, 394, 539, 673}    -> SetFloat(c, id, v)
      [] NormalizeId(id) \in AxisBases  -> SetAxisSetting(c, id, v)
      [] id \in Bools \cup AxisMasks \cup Options -> Pack(c, id, v)
      [] OTHER                          -> PutNumber(c, id, Stored(id, v))

\* settings_store_setting.  Setting 7 is not there, but may be written.
Store(c, id, v) ==
    LET d == [c EXCEPT !.ok = TRUE]
    IN IF \/ ~HasSetting(c, id) /\ id # 7
          \/ v = Unreadable /\ NormalizeId(id) \notin NonCore
          \/ ~Valid(NormalizeId(id), v)
       THEN Refuse(d) ELSE SetValue(d, id, v)

-----------------------------------------------------------------------------
(* The functions that read a value *)

GetFloat(c, id) ==
    LET base == NormalizeId(id)
    IN CASE id = 24    -> c.num[180]
         [] id = 25    -> c.num[190]
         [] base = 120 -> c.num[id] \div 3600
         [] base = 130 -> -c.num[id]
         [] OTHER      -> c.num[id]

\* spindle_get_id
SpindleOf(ref) == CHOOSE i \in 0..Len(SpindleRefs) - 1 : SpindleRefs[i + 1] = ref

GetInt(c, id) ==
    CASE id = 9               -> IF <<9, 0>> \in c.on THEN {} ELSE Unpack(c, 9)
      [] id = 14              -> Unpack(c, 14) \cap OwnSignals
      [] id \in {6, 19}       -> Unpack(c, id) \cap ProbeInputs
      [] id = 21              -> IF <<21, 0>> \in c.on THEN Unpack(c, 21) ELSE {}
      [] id \in {395, 519}    -> SpindleOf(c.num[id])
      [] id \in Radios \cup Ints -> c.num[id]
      [] OTHER                -> Unpack(c, id)

\* setting_get_value
ValueOf(c, id) == IF NormalizeId(id) \in Decimals THEN GetFloat(c, id) ELSE GetInt(c, id)

-----------------------------------------------------------------------------
(* Actions *)

\* Every flag off, but those for which this is a bit that is set
Defaults ==
    [on |-> {<<9, 0>>}, ok |-> TRUE, auto |-> TRUE, pos |-> [a \in AxisNumbers |-> 7 - 14 * a],
     num |-> [n \in Range(Numbers) \cup {Tolerance} |->
                IF n \in {395, 519} THEN SpindleRefs[1] ELSE IF n \in Radios THEN 0
                ELSE CASE NormalizeId(n) = 120 -> 3600 [] NormalizeId(n) = 130 -> -1
                       [] NormalizeId(n) = 100 -> 2 [] OTHER -> Low(n)]]

ValuesInit == menu \in Menus /\ values = Defaults

\* $n=value
Write == \E pair \in menu : values' = Store(values, pair[1], pair[2]) /\ UNCHANGED menu

ValuesNext == Write

-----------------------------------------------------------------------------
(* Properties *)

\* What an accepted value reads as: itself, without what the machine does not
\* have and what means nothing without the option it belongs to.
Kept(c, id, v) ==
    CASE id = 6             -> v \cap ProbeInputs
      [] id = 19            -> v \cap (ProbeInputs \ {2})
      [] id = 8             -> v \cap Ganged
      [] id \in {14, 17}    -> v \cap OwnSignals
      [] id \in {9, 21}     -> IF 0 \in v THEN v ELSE {}
      [] id = 41            -> IF 0 \notin v THEN {} ELSE IF 1 \in v THEN v \cup {2} ELSE v
      [] id = 22            -> IF 0 \notin v THEN ValueOf(c, 22) \cap {4}
                               ELSE IF "homing_state" \in Able THEN v ELSE v \ {8}
      [] id = 65            -> {b \in v : b < 3 \/ SetProbeFlags(c, {b}) # SetProbeFlags(c, {})}
      [] id = 26            -> v % 65536
      [] OTHER              -> v

\* The settings that a setting changes besides itself
Follows(id) ==
    CASE id = 22           -> {20, 24, 25, 40, 676} \cup {b + a : b \in {180, 190}, a \in AxisNumbers}
      [] id = 676          -> {22}
      [] id = 7            -> {9}
      [] id \in {24, 25}   -> {b + a : b \in {180, 190}, a \in AxisNumbers}
      [] NormalizeId(id) \in {180, 190}   -> {24, 25}
      [] OTHER             -> {}

\* A setting that is accepted reads as it was written, whichever flags hold it,
\* no other changes but those it is linked to, and one that is refused changes
\* nothing, apart from the inversion of spindle signals (set_spindle_invert).
WrittenIsRead ==
    \A pair \in menu :
        LET id == pair[1]
            d == Store(values, id, pair[2])
            same(others) == \A n \in others : HasSetting(values, n) /\ HasSetting(d, n) => ValueOf(values, n) = ValueOf(d, n)
        IN IF ~d.ok THEN id # 16 => d = [values EXCEPT !.ok = FALSE]
           ELSE /\ HasSetting(d, id) => ValueOf(d, id) = Kept(values, id, pair[2])
                /\ same(Range(Numbers) \ ({id} \cup Follows(id)))

\* The machines in ds after a listing of c is written to them
Written(c, ds) ==
    LET list == Listed(c)
        after[i \in 0..Len(list)] ==
            IF i = 0 THEN ds ELSE {Store(d, list[i], ValueOf(c, list[i])) : d \in after[i - 1]}
    IN after[Len(list)]
SameListing(c, d) ==
    /\ Listed(c) = Listed(d)
    /\ \A n \in Range(Listed(c)) :
          IF n = 22 THEN ValueOf(c, n) \ {4} = ValueOf(d, n) \ {4} ELSE ValueOf(c, n) = ValueOf(d, n)

\* A listing that is written back, as clients do to restore a backup, changes
\* nothing; written to a machine with other settings, twice as limits need
\* homing that is enabled after them, it makes both the same, but for the
\* option of shared switches without homing.
ListingRestores ==
    \A d \in Written(values, {values}) \cup Written(values, Written(values, {Defaults})) : SameListing(values, d)

\* Other steps of a mm leave the machine where it is, within a step.
SamePlace ==
    \A pair \in menu :
        LET id == pair[1]
            d == Store(values, id, pair[2])
        IN NormalizeId(id) = 100 /\ AxisOf(id) < NAxis /\ d.ok =>
              LET off == d.pos[AxisOf(id)] * values.num[id] - values.pos[AxisOf(id)] * d.num[id]
              IN off < values.num[id] /\ -off < values.num[id]

ValuesSound == WrittenIsRead /\ ListingRestores /\ SamePlace
=============================================================================
