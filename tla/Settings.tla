------------------------------ MODULE Settings ------------------------------
(***************************************************************************)
(* The settings (settings.c) and what they are stored in: $-commands,      *)
(* restores, coordinate systems, startup lines, tool data and a plugin's   *)
(* settings, written to the RAM copy of the storage; restarts after power  *)
(* failures, which may come in the middle of a physical write.             *)
(*                                                                         *)
(* The machine is one record m: the buffer n, the settings in use (live),  *)
(* the backup that acceleration overrides restore from, and what is        *)
(* derived from the settings.  A setting is modelled when it depends on    *)
(* another one or when something is derived from it; one axis stands for   *)
(* all in max_travel, two have homing feed rates.                          *)
(***************************************************************************)
EXTENDS NvsBuffer

CONSTANTS Menus,       \* what is changed: records of settings, pairs of a
                       \* setting and a value, of blocks, and of restores,
                       \* sets of the parts of a $RST; a run uses one
          Caps,        \* what driver and spindle are capable of
          MaxRate,     \* hal.max_step_rate, in the unit of max_rate
          Values,      \* contents of the other blocks
          Clear,       \* no offset, an empty line, a plugin's defaults
          Foreign      \* contents of the storage before the first start

ASSUME CoordsAssumption == {540, 920} \subseteq Coords
ASSUME ForeignAssumption == \A phys \in Foreign : DOMAIN phys = Blocks

VARIABLES m, menu, on, busy

vars == <<m, menu, on, busy>>

Feeds == {"X", "Y"}

\* The defaults, of a machine without homing and limit switches
Defaults ==
    [acceleration |-> 1, max_travel |-> 1, max_rate |-> 1, homing |-> {}, two_switches |-> FALSE,
     feed_rate |-> [a \in Feeds |-> 1], keep_offsets |-> FALSE,
     soft |-> FALSE, jog_soft |-> FALSE, hard |-> {}, mode |-> "standard", invert |-> {},
     parking |-> {}, tool_change |-> 0, fast_pulloff |-> FALSE, build |-> "this"]

-----------------------------------------------------------------------------
(* What is derived from the settings *)

\* tmp_set_soft_limits, tmp_set_hard_limits
SoftLimits(s) == s.soft /\ s.max_travel # 0
WithSoftLimits(c) == [c EXCEPT !.soft = SoftLimits(c.live)]
WithHardLimits(c) == [c EXCEPT !.hard = "enabled" \in c.live.hard]

\* sanity_check: settings that do not fit the machine are changed.
Sane(s) ==
    [s EXCEPT !.mode = IF @ = "laser" /\ "laser" \notin Caps THEN "standard" ELSE @,
              !.max_rate = IF @ > MaxRate THEN MaxRate ELSE @,
              !.tool_change = IF @ > 4 THEN 3 ELSE @,
              !.fast_pulloff = @ \/ s.tool_change > 4]

\* settings_write_global ends acceleration overrides first.
Persistent(s, backup) ==
    [s EXCEPT !.acceleration = IF backup.valid THEN backup.acceleration ELSE @]
WriteGlobalAsIs(c) == [c EXCEPT !.n = Write(@, One(Global, c.live))]
WriteGlobal(c) ==
    LET live == Persistent(c.live, c.backup)
    IN [c EXCEPT !.live = live, !.n = Write(@, One(Global, live))]

-----------------------------------------------------------------------------
(* Setting a value; ok is FALSE when it is refused *)

Refuse(c) == [c EXCEPT !.ok = FALSE]

\* Soft limits need homing.
SetSoftLimits(c, v) ==
    IF v /\ "enabled" \notin c.live.homing THEN Refuse(c)
    ELSE WithSoftLimits([c EXCEPT !.live.soft = v])

SetJogSoftLimited(c, v) ==
    IF v /\ "enabled" \notin c.live.homing THEN Refuse(c) ELSE [c EXCEPT !.live.jog_soft = v]

SetHomingFeedRate(c, v) ==
    IF "per_axis" \in c.live.homing THEN Refuse(c)
    ELSE [c EXCEPT !.live.feed_rate = [a \in Feeds |-> v]]

HomingOffOnly(c) == [c EXCEPT !.live.homing = {}]
\* Disabling homing disables what needs it, and all its flags.
HomingOff(c) ==
    [SetSoftLimits([c EXCEPT !.live.homing = {"enabled"}], FALSE)
        EXCEPT !.live.homing = {}, !.live.jog_soft = FALSE]
HomingOn(c, flags) ==
    LET fresh == "enabled" \notin c.live.homing \/ "per_axis" \in c.live.homing
        d == [c EXCEPT !.live.two_switches = "two_switches" \in flags,
                       !.live.homing = flags \ {"two_switches"}]
    IN IF fresh /\ "per_axis" \notin flags THEN SetHomingFeedRate(d, d.live.feed_rate["X"]) ELSE d
SetHomingEnable(c, flags) ==
    LET d == IF "enabled" \in flags THEN HomingOn(c, flags) ELSE HomingOff(c)
    IN [d EXCEPT !.live.homing = IF "homing_state" \in Caps THEN @ ELSE @ \ {"use_limit_switches"}]

SetHardLimits(c, flags) ==
    WithHardLimits([c EXCEPT !.live.hard = IF "enabled" \in flags THEN flags ELSE {}])

\* A new travel makes the homed position worthless.
SetMaxTravel(c, v) ==
    WithSoftLimits([c EXCEPT !.live.max_travel = v,
                             !.travelChanged = @ \/ c.live.max_travel # v,
                             !.homed = @ /\ c.live.max_travel = v])

SetMode(c, v) ==
    IF v = "laser" /\ "laser" \notin Caps THEN Refuse(c) ELSE [c EXCEPT !.live.mode = v]

\* The setting is changed though it is refused.
SetSpindleInvert(c, v) ==
    IF "pwm" \in v /\ "pwm_invert" \notin Caps
    THEN Refuse([c EXCEPT !.live.invert = v \ {"pwm"}])
    ELSE [c EXCEPT !.live.invert = v]

SetParking(c, flags) ==
    [c EXCEPT !.live.parking =
        IF "enabled" \notin flags THEN {}
        ELSE flags \cup (IF "deactivate_upon_init" \in flags THEN {"override"} ELSE {})]

SetToolChange(c, v) ==
    IF "atc" \in Caps \/ "suspend_read" \notin Caps \/ v > 4 THEN Refuse(c)
    ELSE [c EXCEPT !.live.tool_change = v]

SetAcceleration(c, v) == [c EXCEPT !.live.acceleration = v, !.backup.acceleration = v]

\* Values that validate_value does not refuse.
Legal(id, v) ==
    CASE id \in {"acceleration", "max_travel", "max_rate", "homing_feed"} -> v >= 0
      [] OTHER -> TRUE

SetValue(c, id, v) ==
    IF ~Legal(id, v) THEN Refuse(c) ELSE
    CASE id = "acceleration"   -> SetAcceleration(c, v)
      [] id = "max_travel"     -> SetMaxTravel(c, v)
      [] id = "max_rate"       -> [c EXCEPT !.live.max_rate = v]
      [] id = "homing"         -> SetHomingEnable(c, v)
      [] id = "homing_feed"    -> SetHomingFeedRate(c, v)
      [] id = "axis_feed"      -> IF "per_axis" \in c.live.homing
                                  THEN [c EXCEPT !.live.feed_rate["Y"] = v] ELSE Refuse(c)
      [] id = "soft_limits"    -> SetSoftLimits(c, v)
      [] id = "jog_soft"       -> SetJogSoftLimited(c, v)
      [] id = "hard_limits"    -> SetHardLimits(c, v)
      [] id = "mode"           -> SetMode(c, v)
      [] id = "spindle_invert" -> SetSpindleInvert(c, v)
      [] id = "parking"        -> SetParking(c, v)
      [] id = "tool_change"    -> SetToolChange(c, v)
      [] id = "reset_actions"  -> [c EXCEPT !.live.homing = IF "homing" \in v THEN @ \ {"keep"}
                                                            ELSE @ \cup {"keep"},
                                            !.live.keep_offsets = "offsets" \notin v]
      [] OTHER -> Refuse(c)

\* settings_store_setting
Stored(c, id, v) ==
    LET d == SetValue([c EXCEPT !.ok = TRUE], id, v)
    IN IF d.ok THEN WriteGlobal(d) ELSE d

-----------------------------------------------------------------------------
(* Restoring defaults: what is a set of the parts that are restored *)

Everything == {"defaults", "parameters", "startup_lines", "build_info", "driver_parameters"}

\* G30, number 300, is left alone.
Cleared(what) ==
    [b \in (IF "parameters" \in what THEN {Coord(i) : i \in Coords \ {300}}
                                           \cup {Tool(i) : i \in ToolData} ELSE {})
            \cup (IF "startup_lines" \in what THEN {Startup(i) : i \in StartupLines} ELSE {})
            \cup (IF "build_info" \in what THEN {Build} ELSE {})
        |-> Clear]

RestorePlugin(c) == [c EXCEPT !.plugin = Clear, !.n = Write(@, One(Driver, Clear))]

\* settings_restore up to its nvs_buffer_sync_physical.  What is derived from
\* the settings stays as it is.
Restored(c, what) ==
    LET forced == [c EXCEPT !.n = PutVersion(@)]
        global == IF "defaults" \in what THEN WriteGlobal([forced EXCEPT !.live = Defaults])
                  ELSE forced
        cleared == [global EXCEPT !.n = Write(@, Cleared(what))]
    IN IF "driver_parameters" \in what THEN RestorePlugin(cleared) ELSE cleared

Synced(c, failed) == [c EXCEPT !.n = SyncPhysical(@, failed)]

-----------------------------------------------------------------------------
(* Power on *)

\* The blocks are written twice: failed are those neither write reaches.
NvsBufferInitRestores(c, failed) ==
    [Synced(Restored([c EXCEPT !.n = Loaded(@)], Everything), failed)
        EXCEPT !.n = WriteImage(@, failed)]
NvsBufferInit(c, failed) ==
    LET d == [c EXCEPT !.n = Loaded(@)]
    IN IF Usable(d.n) THEN d
       ELSE [Synced(Restored(d, Everything), failed) EXCEPT !.n = WriteImage(@, failed)]

\* A checksum error of the global settings restores everything.
ReadGlobal(c, failed) ==
    IF ReadOk(c.n, Version) /\ ReadOk(c.n, Global)
    THEN [c EXCEPT !.live = Sane(c.n.ram[Global])]
    ELSE Synced(Restored(c, Everything), failed)

LoadPlugin(c) ==
    IF ReadOk(c.n, Driver) THEN [c EXCEPT !.plugin = c.n.ram[Driver]] ELSE RestorePlugin(c)

SetBuild(c) ==
    IF c.live.build = "this" THEN c ELSE WriteGlobal([c EXCEPT !.live.build = "this"])

\* A block that cannot be read is replaced by an empty one, tool data in
\* memory only.
ReadBlock(c, b, failed) ==
    CASE ReadOk(c.n, b) \/ b[1] = "tool"     -> c
      [] ~ReadOk(c.n, b) /\ b[1] = "build"   -> Synced(Restored(c, {"build_info"}), failed)
      [] OTHER -> [c EXCEPT !.n = Write(@, One(b, Clear))]

\* limits_homing_required, without override_locks
HomingRequired(c) == {"enabled", "init_lock"} \subseteq c.live.homing /\ ~c.homed

\* gc_init reads G54, and never writes a block; the main loop starts with the alarm if the
\* machine must be homed.
Reset(c) ==
    LET d == ReadBlock(c, Coord(540), {})
    IN [d EXCEPT !.alarm = @ \/ HomingRequired(d)]

\* Before anything is read
Fresh(n) ==
    [n |-> n, ok |-> TRUE, live |-> Defaults, plugin |-> Clear,
     backup |-> [valid |-> FALSE, acceleration |-> 0],
     soft |-> FALSE, hard |-> FALSE, homed |-> FALSE, travelChanged |-> FALSE, alarm |-> FALSE]

\* settings_init, then a reset, which reads also G92
Started(n, failed) ==
    LET read == WithHardLimits(WithSoftLimits(ReadGlobal(NvsBufferInit(Fresh(n), failed), failed)))
    IN ReadBlock(Reset(SetBuild(LoadPlugin(read))), Coord(920), {})

-----------------------------------------------------------------------------
(* Actions *)

Init ==
    /\ menu \in Menus
    /\ on = FALSE
    /\ busy = FALSE
    /\ \E phys \in Foreign : m = Fresh(Buffer(phys))

Step(c) == m' = c /\ UNCHANGED <<menu, on, busy>>

Set == on /\ ~busy /\ \E s \in menu.settings : Step(Stored(m, s[1], s[2]))

SetPlugin ==
    /\ on /\ ~busy /\ Driver \in menu.blocks
    /\ \E v \in Values : Step([m EXCEPT !.plugin = v, !.n = Write(@, One(Driver, v))])

\* settings_override_acceleration; nought ends the override.
Override ==
    /\ on /\ ~busy
    /\ \E v \in {0, 2} :
          Step(IF v = 0
               THEN [m EXCEPT !.live = Persistent(@, m.backup)]
               ELSE [m EXCEPT !.backup = IF @.valid THEN @ ELSE
                                [valid |-> TRUE, acceleration |-> m.live.acceleration],
                              !.live.acceleration = v])

\* G10, G28.1, G92 also while the machine moves; tool data, build info and
\* startup lines
WriteBlock ==
    /\ on
    /\ \E b \in menu.blocks \ {Driver}, v \in Values :
          /\ busy => b[1] \in {"coord", "tool"}
          /\ Step([m EXCEPT !.n = Write(@, One(b, v))])

Read ==
    /\ on
    /\ \E b \in menu.blocks \ {Driver}, failed \in SUBSET Unreliable : Step(ReadBlock(m, b, failed))

\* $RST, then a reset
Restore ==
    /\ on /\ ~busy
    /\ \E what \in menu.restores, failed \in SUBSET Unreliable :
          Step(Reset(Synced(Restored(m, what), failed)))

\* protocol_execute_realtime, when idle and not in a file
Sync == on /\ ~busy /\ m.n.isDirty /\ \E failed \in SUBSET Unreliable : Step(Synced(m, failed))

Home ==
    /\ on /\ ~busy /\ "enabled" \in m.live.homing
    /\ Step([m EXCEPT !.homed = TRUE, !.alarm = FALSE])

Start == on /\ ~busy /\ ~m.alarm /\ busy' = TRUE /\ UNCHANGED <<m, menu, on>>

\* The end of a file (onFileDemarcate)
End ==
    /\ on /\ busy
    /\ busy' = FALSE
    /\ LET alarm == m.travelChanged /\ HomingRequired(m)
       IN m' = [m EXCEPT !.live = Sane(@), !.travelChanged = @ /\ ~alarm, !.alarm = @ \/ alarm]
    /\ UNCHANGED <<menu, on>>

Off(phys) ==
    /\ on' = FALSE
    /\ busy' = FALSE
    /\ m' = [m EXCEPT !.n = Buffer(phys)]
    /\ UNCHANGED menu

PowerOff == on /\ Off(m.n.phys)

\* The power fails in the middle of writing a block.
PowerFail ==
    /\ on /\ ~busy
    /\ \/ m.n.isDirty /\ \E b \in m.n.dirty : Off(Interrupted(m.n, b))
       \/ \E what \in menu.restores :
             LET n == Restored(m, what).n IN \E b \in n.dirty : Off(Interrupted(n, b))

PowerOn ==
    /\ ~on
    /\ \E failed \in SUBSET Unreliable : m' = Started(m.n, failed)
    /\ on' = TRUE
    /\ UNCHANGED <<menu, busy>>

Next ==
    \/ Set \/ SetPlugin \/ Override \/ WriteBlock \/ Read \/ Restore \/ Sync
    \/ Home \/ Start \/ End \/ PowerOff \/ PowerFail \/ PowerOn

Spec == Init /\ [][Next]_vars

-----------------------------------------------------------------------------
(* Properties *)

TypeOK ==
    /\ on \in BOOLEAN /\ busy \in BOOLEAN
    /\ DOMAIN m.n.ram = Blocks /\ DOMAIN m.n.phys = Blocks
    /\ m.n.dirty \subseteq Blocks /\ m.n.isDirty \in BOOLEAN
    /\ DOMAIN m.live = DOMAIN Defaults
    /\ m.live.max_rate \in Nat /\ m.live.max_travel \in Nat /\ m.live.acceleration \in Nat

\* What was written to the RAM copy and not yet to the physical storage is
\* marked (nvs_buffer.c), through writes that fail, restores and restarts,
\* unless the write itself failed where the code looks at no result: of a
\* startup line, of a flash, or of the image restored at a start.
Tracked == TrackedBy(m.n)

\* The stored settings are those in use, apart from acceleration overrides,
\* which are never stored, and corrections at the end of a file.
SavedIsLive == on => Sane(m.n.ram[Global]) = Sane(Persistent(m.live, m.backup))

\* Soft limits, of programs and of jogs, need homing, in whichever order the
\* settings are changed.
SoftNeedsHoming == m.live.soft \/ m.live.jog_soft => "enabled" \in m.live.homing

\* Without its own feed rates, every axis homes with the same.
OneHomingRate ==
    "per_axis" \notin m.live.homing /\ "enabled" \in m.live.homing =>
        \A a, b \in Feeds : m.live.feed_rate[a] = m.live.feed_rate[b]

\* The soft limits the planner and jogs are checked against are those of the
\* settings.
LimitsFollow == on => m.soft = SoftLimits(m.live) /\ m.hard = ("enabled" \in m.live.hard)

\* What is checked in one place and depends on another stays in agreement,
\* in whichever order settings are written, refused, restored or overridden.
SettingsAgree == SoftNeedsHoming /\ OneHomingRate /\ LimitsFollow

\* A restart loses no block but those whose write was interrupted, unless
\* that was the version or the global settings.
OnlyTornIsLost ==
    [][on' /\ ~on /\ m.n.phys[Version] = "now" /\ m.n.phys[Global] # Torn =>
          /\ \A b \in Blocks \ {Global} : m.n.phys[b] # Torn => m'.n.ram[b] = m.n.phys[b]
          /\ m'.live = [Sane(m.n.phys[Global]) EXCEPT !.build = "this"]]_vars
=============================================================================
