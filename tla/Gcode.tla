------------------------------- MODULE Gcode -------------------------------
(***************************************************************************)
(* The g-code parser (gcode.c): a block that passed the checks is executed *)
(* in the order of RS274, and updates the parser state g.  Execution waits *)
(* for the motions in the planner buffer at several points; a stop command *)
(* may come in every such wait, re-initializes the parser, and the rest of *)
(* the block is executed nevertheless.                                     *)
(*                                                                         *)
(* The machine is not a lathe, has no spindle encoder, no laser, one       *)
(* spindle and no automatic tool changer; the check mode, macros (G65,     *)
(* M99), user M codes, M66 and M73 are not modelled.                       *)
(***************************************************************************)
EXTENDS GcodeBlock

CONSTANTS Vocabularies,  \* sets of blocks; a program uses one of them
          Waits,         \* the waits in which a stop may come
          Places,        \* where a stop or a probe may find the machine
          KeepOffsets,   \* settings.flags.keep_offsets_on_reset
          Limit          \* bound of the coordinates, a guard of every block

VARIABLES g,       \* gc_state, the tool table and the stored coordinates
          planned, \* where the planner's last motion ends
          words,   \* the vocabulary of this program
          last     \* history: the last block, and what became of it

vars == <<g, planned, words, last>>

Stored == Systems \cup {280, 300, 920}
Ones == [a \in Axes |-> 1]
NoSnapshot == [saved |-> FALSE]

DefaultModes ==
    [x \in ModeGroups |->
        CASE x = "G1" -> 0    [] x = "G2" -> 170 [] x = "G3" -> 900
          [] x = "G5" -> 940  [] x = "G6" -> 210 [] x = "G8" -> 490
          [] x = "G10" -> 980 [] x = "G12" -> 540 [] x = "M7" -> 5]

\* gc_init followed by sync_position: a warm restart clears the first part of
\* gc_state, all zeros in the code.  fed is history, the mode in which the feed
\* rate was given.
Restarted(s, keep, at) ==
    LET modes == IF keep THEN [DefaultModes EXCEPT !["G12"] = s.modes["G12"],
                                                   !["G8"] = s.modes["G8"]]
                 ELSE DefaultModes
    IN [modes |-> modes, cycle |-> FALSE, scaling |-> FALSE, scale |-> Ones,
        coolant |-> {}, off |-> {}, feed |-> 0, fed |-> 0, rpm |-> 0,
        toolChange |-> FALSE,
        canned |-> [xyz |-> Origin, retract |-> 0, delta |-> 0, dwell |-> 0],
        snapshot |-> NoSnapshot,
        position |-> at, pending |-> s.tool, wcs |-> s.stored[modes["G12"]],
        g92 |-> s.g92, tlo |-> s.tlo, tool |-> s.tool, table |-> s.table,
        stored |-> s.stored]

-----------------------------------------------------------------------------
(* Step 4: execution.  A stop in a wait sets sys.cancel for the block. *)

Wait(c, point) ==
    IF c.cut = point
    THEN [c EXCEPT !.g = Restarted(c.g, TRUE, c.at), !.planned = c.at, !.cancel = TRUE]
    ELSE c

Unless(c, new, old) == IF c.cancel THEN old ELSE new

ExecFeed(c) ==
    [c EXCEPT !.g.modes["G5"] = c.m["G5"], !.g.feed = c.v["F"],
              !.g.fed = IF c.v["F"] = 0 THEN 0 ELSE IF Given(c, "F") THEN c.m["G5"] ELSE @]

ExecSpindleSpeed(c) ==
    IF c.g.rpm = c.v["S"] THEN c
    ELSE LET d == IF c.g.modes["M7"] # 5 THEN Wait(c, "rpm") ELSE c
         IN [d EXCEPT !.g.rpm = c.v["S"]]

ExecSelectTool(c) ==
    IF c.g.pending = c.v["T"] THEN c
    ELSE [c EXCEPT !.g.pending = c.v["T"], !.g.tool = IF c.setTool THEN c.v["T"] ELSE @]

\* Manual tool change: the machine waits for a cycle start with the new tool.
ExecToolChange(c) ==
    IF "M6" \notin c.named \/ c.setTool THEN c
    ELSE LET pending == c.g.pending
             d == Wait(c, "tool")
         IN IF pending = d.g.tool THEN d
            ELSE [d EXCEPT !.g.tool = pending, !.g.toolChange = TRUE]

ExecSpindle(c) ==
    IF "M7" \notin c.named \/ c.g.modes["M7"] = c.m["M7"] THEN c
    ELSE LET d == Wait(c, "spindle")
         IN [d EXCEPT !.g.modes["M7"] = Unless(d, c.m["M7"], @)]

\* gc_modal_state_restore keeps the motion mode.
ExecSnapshot(c) ==
    LET s == c.g.snapshot
    IN CASE c.state = 70 ->
              [c EXCEPT !.g.snapshot =
                  [saved |-> TRUE, modes |-> c.g.modes, cycle |-> c.g.cycle, feed |-> c.g.feed,
                   fed |-> c.g.fed, rpm |-> c.g.rpm, coolant |-> c.g.coolant, off |-> c.g.off,
                   scaling |-> c.g.scaling, wcs |-> c.g.wcs]]
         [] c.state = 71 -> [c EXCEPT !.g.snapshot = NoSnapshot]
         [] c.state = 72 /\ s.saved /\ ~c.cancel ->
              [c EXCEPT !.g = [c.g EXCEPT
                  !.modes = [s.modes EXCEPT !["G1"] = c.g.modes["G1"]], !.cycle = s.cycle,
                  !.feed = s.feed, !.fed = s.fed, !.rpm = s.rpm, !.coolant = s.coolant,
                  !.off = s.off, !.scaling = s.scaling, !.wcs = s.wcs]]
         [] OTHER -> c

ExecCoolant(c) ==
    IF "M8" \notin c.named \/ c.g.coolant = c.coolant THEN c
    ELSE LET d == Wait(c, "coolant") IN [d EXCEPT !.g.coolant = Unless(d, c.coolant, @)]

ExecOverrides(c) ==
    IF "M9" \notin c.named \/ c.g.off = c.off THEN c
    ELSE Wait([c EXCEPT !.g.off = c.off], "override")

ExecDwell(c) == IF c.nm = 40 THEN Wait(c, "dwell") ELSE c

ExecToolLength(c) ==
    LET tool == c.g.table[c.v["H"]]
        tlo(a) == CASE c.m["G8"] = 490 -> 0
                    [] c.m["G8"] = 430 -> tool[a]
                    [] c.m["G8"] = 432 -> c.g.tlo[a] + tool[a]
                    [] c.m["G8"] = 431 -> IF a \in c.axes THEN c.xyz[a] ELSE c.g.tlo[a]
    IN IF "G8" \notin c.named THEN c
       ELSE [c EXCEPT !.g.modes["G8"] = c.m["G8"], !.g.tlo = [a \in Axes |-> tlo(a)]]

\* Plane, units, coordinate system, distance and retract mode
ExecModes(c) ==
    LET d == [c EXCEPT !.g.modes["G2"] = c.m["G2"], !.g.modes["G6"] = c.m["G6"]]
        e == ExecToolLength(d)
        f == IF e.g.modes["G12"] = c.m["G12"] THEN e
             ELSE [e EXCEPT !.g.modes["G12"] = c.m["G12"], !.g.wcs = c.wcs]
    IN [f EXCEPT !.g.modes["G3"] = c.m["G3"], !.g.modes["G10"] = c.m["G10"]]

\* G10 L2 and L20: the active coordinate system is read again.
SetStoredOnly(c) == [c EXCEPT !.g.stored[c.id] = c.data]
SetStored(c) ==
    [c EXCEPT !.g.stored[c.id] = c.data,
              !.g.wcs = IF c.g.modes["G12"] = c.id THEN c.data ELSE @]

Offset(c, offset, save) ==
    [c EXCEPT !.g.g92 = offset, !.g.stored[920] = IF save THEN offset ELSE @]

\* G28 and G30 set the position whether or not their motion was planned.
ExecGoHome(c) ==
    LET d == Wait(c, "home")
    IN [d EXCEPT !.g.position = c.data, !.planned = Unless(d, c.data, @),
                 !.g.scale = Ones, !.g.scaling = FALSE]

ExecNonModal(c) ==
    CASE c.nm = 100 /\ c.v["L"] \in {2, 20} -> SetStored(c)
      [] c.nm \in GoHome -> ExecGoHome(c)
      [] c.nm = 281 -> [c EXCEPT !.g.stored[280] = c.g.position]
      [] c.nm = 301 -> [c EXCEPT !.g.stored[300] = c.g.position]
      [] c.nm = 920 -> Offset(c, c.xyz, TRUE)
      [] c.nm = 921 -> Offset(c, Origin, TRUE)
      [] c.nm = 922 -> Offset(c, Origin, FALSE)
      [] c.nm = 923 -> Offset(c, c.g.stored[920], FALSE)
      [] OTHER -> c

\* Where a drilling cycle leaves the tool (mc_canned_drill); the cycles
\* G85, G86 and G89 are accepted, and no motion is planned for them.
Drills == {730, 810, 820, 830, 840}
RetractTo(c) ==
    LET z == Plane(c).linear
        r == c.g.canned.retract
        start == IF c.g.position[z] < r THEN r ELSE c.g.position[z]
    IN IF c.m["G10"] = 990 \/ r = c.g.canned.xyz[z] THEN r ELSE start
Drilled(c) ==
    LET p == Plane(c)
        repeat(a) == IF Incremental(c) THEN (c.v["L"] - 1) * c.g.canned.xyz[a] ELSE 0
    IN [a \in Axes |-> IF a = p.linear THEN RetractTo(c) ELSE c.xyz[a] + repeat(a)]

\* An interrupted cycle goes on to set the retracted position in the parser
\* state, which it uses for its own, before it sees that it was interrupted.
ExecDrill(c) ==
    LET d == IF c.g.canned.dwell > 0 THEN Wait(c, "drill") ELSE c
        e == IF d.cancel THEN d ELSE Wait(d, "motion")
    IN IF d.cancel THEN [d EXCEPT !.g.position[Plane(c).linear] = RetractTo(c)]
       ELSE [e EXCEPT !.xyz = Drilled(c)]

\* A probe moves the axes of its block, up to the contact.
Contact(c) == [a \in Axes |-> IF c.xyz[a] = c.g.position[a] THEN c.xyz[a] ELSE c.at[a]]

\* The motion is planned; one that was cancelled leaves the position alone.
Planned(c) == IF Motion(c) \in Cycles \ Drills THEN c.planned ELSE c.xyz
ArriveAnyway(c) ==
    [c EXCEPT !.g.position = c.xyz, !.planned = Unless(c, Planned(c), @)]
Arrive(c) ==
    IF c.cancel THEN c ELSE [c EXCEPT !.g.position = c.xyz, !.planned = Planned(c)]

ExecMotion(c) ==
    LET d == [c EXCEPT !.g.modes["G1"] = Motion(c), !.g.cycle = c.cycle]
        e == CASE Motion(c) \in Drills -> ExecDrill(d)
               [] Motion(c) \in Probes /\ c.cut = "none" -> [d EXCEPT !.xyz = Contact(c)]
               [] Motion(c) \in Cycles \ Drills -> d
               [] OTHER -> Wait(d, "motion")
    IN IF Motion(c) = 800 \/ c.cmd # "motion" THEN d
       ELSE Arrive(e)

\* M2, M30: the modes named in the code return to their defaults.
ProgramEnd(c) ==
    LET s == c.g
        modes == [s.modes EXCEPT !["G1"] = 10, !["G2"] = 170, !["G3"] = 900, !["G5"] = 940,
                                 !["G12"] = 540, !["M7"] = 5]
    IN [c EXCEPT !.g.modes = modes, !.g.coolant = {}, !.g.off = @ \ {"feed", "speed", "parking"},
                 !.g.wcs = s.stored[540], !.g.stored[920] = s.g92, !.g.snapshot = NoSnapshot]

ExecFlow(c) ==
    CASE c.flow = -1 -> c
      [] c.flow \in {2, 30} -> ProgramEnd(Wait(c, "flow"))
      [] OTHER -> Wait(c, "flow")

Executed(c) ==
    LET tool    == ExecToolChange(ExecSelectTool(ExecSpindleSpeed(ExecFeed(c))))
        states  == ExecCoolant(ExecSnapshot(ExecSpindle(tool)))
        modes   == ExecModes(ExecDwell(ExecOverrides(states)))
    IN ExecFlow(ExecMotion(ExecNonModal(modes)))

\* A jog only changes the position (mc_jog_execute).
Jogged(c) == [c EXCEPT !.g.position = c.xyz, !.planned = c.xyz]

-----------------------------------------------------------------------------
(* Actions *)

Blocks == [line \in UNION Vocabularies |-> Sorted(line)]

NoBlock == [line |-> <<>>, jog |-> FALSE, ok |-> FALSE, cancel |-> FALSE]

Init ==
    /\ words \in Vocabularies
    /\ g = Restarted([tool |-> 0, g92 |-> Origin, tlo |-> Origin,
                      table |-> [t \in Tools |-> Origin],
                      stored |-> [s \in Stored |-> Origin]], FALSE, Origin)
    /\ planned = Origin
    /\ last = NoBlock

Inside(position) == \A a \in Axes : position[a] \in -Limit .. Limit

Outcome(line, c, d) ==
    /\ Inside(d.g.position)
    /\ g' = d.g
    /\ planned' = d.planned
    /\ last' = [line |-> line, jog |-> c.jog, ok |-> c.ok, cancel |-> d.cancel]
    /\ UNCHANGED words

\* gc_execute_block: cut is the wait in which a stop comes, at is where it
\* or a probe finds the machine.
Block ==
    \E line \in words :
        LET c == [Checked(g, Blocks[line], FALSE) EXCEPT !.planned = planned]
            d(cut, at) == Executed([c EXCEPT !.cut = cut, !.at = at])
        IN \/ ~c.ok /\ Outcome(line, c, c)
           \/ c.ok /\ Motion(c) \notin Probes /\ Outcome(line, c, d("none", Origin))
           \/ c.ok /\ Motion(c) \in Probes /\ \E at \in Places : Outcome(line, c, d("none", at))
           \/ /\ c.ok
              /\ \E cut \in Waits : /\ d(cut, Origin).cancel
                                    /\ \E at \in Places : Outcome(line, c, d(cut, at))

Jog ==
    \E line \in words :
        LET c == [Checked(g, Blocks[line], TRUE) EXCEPT !.planned = planned]
        IN Outcome(line, c, IF c.ok THEN Jogged(c) ELSE c)

\* Cycle start after the tool was changed by hand, perhaps jogged elsewhere
ToolChanged ==
    /\ g.toolChange
    /\ g' = [g EXCEPT !.toolChange = FALSE]
    /\ UNCHANGED <<planned, words, last>>

Restart(keep) ==
    \E at \in Places :
        /\ g' = Restarted(g, keep, at)
        /\ planned' = at
        /\ last' = NoBlock
        /\ UNCHANGED words

Stop == Restart(TRUE)
Reset == Restart(KeepOffsets)

Next == Block \/ Jog \/ ToolChanged \/ Stop \/ Reset

Spec == Init /\ [][Next]_vars

-----------------------------------------------------------------------------
(* Properties *)

Point == [Axes -> Int]

\* The parser state keeps its shape (parser_state_t).
TypeOK ==
    /\ DOMAIN g.modes = ModeGroups
    /\ g.modes["G1"] \in Motions \cup {800}
    /\ g.modes["G12"] \in Systems
    /\ g.position \in Point /\ g.wcs \in Point /\ g.g92 \in Point /\ g.tlo \in Point
    /\ g.stored \in [Stored -> Point] /\ g.table \in [Tools -> Point]
    /\ g.feed \in Nat /\ g.off \subseteq {"feed", "speed", "hold", "parking"}

\* The data of the work coordinate system in use are those in storage, however
\* it was selected, written, restored or re-initialized.
CoordsFresh == g.wcs = g.stored[g.modes["G12"]]

\* The parser's position is where the planner's last motion ends: an
\* incremental block starts there, also after a stop in the middle of a block.
PositionTracks == g.position = planned

\* A feed rate is used only in the feed rate mode it was given in.
FeedInMode == g.feed # 0 => g.fed = g.modes["G5"]

\* Programs outside the following keep less: the README lists what becomes of them.
\* A block that writes coordinates (G10) is in no program that restores modes (M72).
WritesNone(lines) == \A line \in lines : Blocks[line].number["G0"] # 100
RestoresCurrent ==
    \A lines \in Vocabularies :
        WritesNone(lines) \/ \A line \in lines : Blocks[line].number["State"] # 72

\* A block that ends the program gives no feed rate.
EndsWithoutFeed ==
    \A line \in UNION Vocabularies :
        Blocks[line].number["M4"] \in {2, 30} =>
            "F" \notin Blocks[line].letters /\ Blocks[line].number["State"] # 72

\* A block that may wait before its motion does not go home and does not drill; no
\* stop comes in the wait of a G28 or in the dwell of a cycle; no G85, G86 and G89.
NoCycles(lines) == \A line \in lines : Blocks[line].number["G1"] \notin Cycles
WaitsFirst(b) ==
    b.named \cap {"M6", "M7", "M8", "M9"} # {} \/ "S" \in b.letters \/ b.number["G0"] = 40
MovesAlone ==
    /\ Waits \cap {"home", "drill"} = {}
    /\ \A lines \in Vocabularies : \A line \in lines :
          /\ Blocks[line].number["G1"] \notin Cycles \ Drills
          /\ WaitsFirst(Blocks[line]) =>
                /\ Blocks[line].number["G0"] \notin GoHome
                /\ \/ NoCycles(lines)
                   \/ Blocks[line].cmd # "motion" /\ Blocks[line].letters \cap Axes = {}

\* The code of a group in the last block.
LastCode(group) == Blocks[last.line].number[group]

\* A block changes only the modes it names; the retract mode returns to G98
\* with a motion that is no cycle, and a program end and M72 change many.
\* Jogs and refused blocks change none.
ChangesItsModes ==
    \A x \in ModeGroups :
        /\ g'.modes[x] # g.modes[x]
        /\ last' # NoBlock /\ ~last'.cancel
        /\ LastCode("M4")' \notin {2, 30} /\ LastCode("State")' # 72
        => /\ last'.ok /\ ~last'.jog
           /\ x \in Blocks[last'.line].named \cup {"G10"}
ModesNamed == [][ChangesItsModes]_vars

\* A motion moves only the axes that its block names, and the drilling axis
\* of a cycle; G28 and G30 without axes move all.
MovesNamedAxes ==
    [][\A a \in Axes :
          /\ planned'[a] # planned[a] /\ last'.ok /\ ~last'.cancel
          => \/ a \in Blocks[last'.line].letters
             \/ LastCode("G0")' \in GoHome
             \/ g'.cycle /\ a = Plane([m |-> g'.modes]).linear]_vars

\* Both: what a block does not name stays as it is.
ChangesNamed == ModesNamed /\ MovesNamedAxes
=============================================================================
