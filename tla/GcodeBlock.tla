----------------------------- MODULE GcodeBlock -----------------------------
(***************************************************************************)
(* The first three steps of gc_execute_block (gcode.c): the words of a     *)
(* block are sorted into modal groups and values, and the block is checked *)
(* against the parser state, some parts of which the checks already write. *)
(*                                                                         *)
(* A word is <<letter, number>>.  The number of a G word is ten times the  *)
(* number that is written, so that G38.2 is <<"G", 382>>; a mode is the    *)
(* number of the word that selects it.  A check is a function of a         *)
(* context, the block as far as it is understood and the parser state;     *)
(* once ok is FALSE the block is rejected and nothing more is written.     *)
(***************************************************************************)
EXTENDS Integers, Sequences, FiniteSets

CONSTANTS Tools,        \* numbers in the tool table; {} without a table
          Ports,        \* auxiliary output ports of each kind
          Systems,      \* work coordinate systems, 540 for G54
          Inch          \* stands for MM_PER_INCH

ASSUME SystemsAssumption == 540 \in Systems /\ Systems \cap {280, 300, 920} = {}

Axes == {"X", "Y", "Z"}
Origin == [a \in Axes |-> 0]

-----------------------------------------------------------------------------
(* Step 2: words and modal groups *)

Cycles == {730, 810, 820, 830, 840, 850, 860, 890}
Arcs == {20, 30}
Probes == {382, 383, 384, 385}
Motions == {0, 10, 50, 51, 330, 760} \cup Arcs \cup Probes \cup Cycles
GoHome == {280, 300}
Offsetting == {920, 921, 922, 923}

GGroup ==
    [G0  |-> {40, 100, 281, 301, 530} \cup GoHome \cup Offsetting,
     G1  |-> Motions \cup {800},
     G2  |-> {170, 180, 190},
     G3  |-> {900, 910},
     G4  |-> {911},
     G5  |-> {930, 940, 950},
     G6  |-> {200, 210},
     G7  |-> {400},
     G8  |-> {431, 490} \cup (IF Tools # {} THEN {430, 432} ELSE {}),
     G10 |-> {980, 990},
     G11 |-> {500, 510},
     G12 |-> Systems,
     G13 |-> {610},
     \* A machine that is not a lathe refuses these.
     G14 |-> {}, G15 |-> {}]

MGroup ==
    [M4 |-> {0, 1, 2, 30, 60},
     M5 |-> IF Ports > 0 THEN {62, 63, 64, 65, 67, 68} ELSE {},
     M6 |-> {6, 61},
     M7 |-> {3, 4, 5},
     M8 |-> {7, 8, 9},
     M9 |-> {48, 49, 50, 51, 53, 56},
     State |-> {70, 71, 72}]      \* not a modal group in the code

Codes(l) == {i \in DOMAIN l : l[i][1] \in {"G", "M"}}

\* The group of the i-th word, "" for a word that is not supported.
Group(l, i) ==
    LET table  == IF l[i][1] = "G" THEN GGroup ELSE MGroup
        groups == {x \in DOMAIN table : l[i][2] \in table[x]}
    IN IF groups = {} THEN "" ELSE CHOOSE x \in groups : TRUE

Named(l) == {Group(l, i) : i \in Codes(l)}

\* The use the i-th word makes of the axis words.  G28.1 and its kind,
\* G43 and G49 leave them to the motion mode.
AxisCommand(l, i) ==
    LET n == l[i][2]
    IN CASE i \notin Codes(l) \/ l[i][1] = "M"  -> "none"
         [] n \in {100, 920} \cup GoHome        -> "nonmodal"
         [] n \in Motions                       -> "motion"
         [] n = 431                             -> "tlo"
         [] n \in {500, 510}                    -> "scaling"
         [] OTHER                               -> "none"

Commanding(l) == {i \in DOMAIN l : AxisCommand(l, i) # "none"}

\* The last one wins: all but G50 and G51 are refused when there is one.
AxisCommandOf(l) ==
    IF Commanding(l) = {} THEN "none"
    ELSE AxisCommand(l, CHOOSE i \in Commanding(l) : \A j \in Commanding(l) : j <= i)

WellFormed(l) ==
    /\ "" \notin Named(l)
    /\ \A i, j \in Codes(l) :
          Group(l, i) = Group(l, j) /\ Group(l, i) # "State" => i = j
    /\ \A i, j \in Commanding(l) :
          i < j => AxisCommand(l, j) = "scaling"
    /\ \A i, j \in DOMAIN l \ Codes(l) : l[i][1] = l[j][1] => i = j
    /\ \A i \in DOMAIN l \ Codes(l) :
          /\ l[i][1] \in {"D", "F", "H", "N", "O", "T", "S"} => l[i][2] >= 0
          /\ l[i][1] = "T" /\ Tools # {} => l[i][2] \in Tools

Groups == DOMAIN GGroup \cup DOMAIN MGroup
Values == {"E", "F", "H", "I", "J", "K", "L", "P", "Q", "R", "S", "T"}

\* A block as step 2 leaves it: the number of the code of each group, -1 for
\* a group that is not named, and the values, 0 for those that are missing.
Sorted(l) ==
    LET letters == {l[i][1] : i \in DOMAIN l \ Codes(l)}
        value(x) == IF x \in letters
                    THEN l[CHOOSE i \in DOMAIN l \ Codes(l) : l[i][1] = x][2] ELSE 0
    IN [ok      |-> WellFormed(l),
        named   |-> Named(l),
        number  |-> [x \in Groups |->
                        IF x \in Named(l) THEN l[CHOOSE i \in Codes(l) : Group(l, i) = x][2]
                        ELSE -1],
        cmd     |-> AxisCommandOf(l),
        letters |-> letters,
        v       |-> [x \in Values |-> value(x)],
        xyz     |-> [a \in Axes |-> value(a)]]

Pick(b, group, default) == IF b.number[group] = -1 THEN default ELSE b.number[group]

-----------------------------------------------------------------------------
(* Step 1: the context of the checks *)

ModeGroups == {"G1", "G2", "G3", "G5", "G6", "G8", "G10", "G12", "M7"}

\* jog: the block b came with $J=, which enforces G1 and G94.
Context(g, b, jog) ==
    LET before == IF jog THEN [g.modes EXCEPT !["G1"] = 10, !["G5"] = 940] ELSE g.modes
        m == [x \in ModeGroups |-> Pick(b, x, before[x])]
    IN [ok     |-> b.ok,
        g      |-> g,
        m      |-> m,
        jog    |-> jog,
        cycle  |-> IF "G1" \in b.named THEN m["G1"] \in Cycles ELSE g.cycle,
        change |-> "G1" \in b.named /\ m["G1"] \in Cycles /\ m["G1"] # g.modes["G1"],
        named  |-> b.named,
        cmd    |-> b.cmd,
        nm     |-> Pick(b, "G0", 0),
        flow   |-> Pick(b, "M4", -1),
        state  |-> Pick(b, "State", 0),
        port   |-> Pick(b, "M5", 0),
        setTool |-> Pick(b, "M6", 0) = 61,
        coolant |-> CASE Pick(b, "M8", 0) = 7 -> g.coolant \cup {"mist"}
                      [] Pick(b, "M8", 0) = 8 -> g.coolant \cup {"flood"}
                      [] Pick(b, "M8", 0) = 9 -> {}
                      [] OTHER                -> g.coolant,
        override |-> Pick(b, "M9", 0),
        off    |-> g.off,
        scale  |-> Pick(b, "G11", 0),
        axes   |-> Axes \cap b.letters,
        ijk    |-> {"I", "J", "K"} \cap b.letters,
        left   |-> b.letters,
        v      |-> b.v,
        xyz    |-> b.xyz,
        wcs    |-> g.wcs,
        id     |-> 0,
        data   |-> Origin,
        planned |-> Origin,        \* from here on: of the execution
        cut    |-> "none",
        at     |-> Origin,
        cancel |-> FALSE]

Require(c, p) == [c EXCEPT !.ok = @ /\ p]
Use(c, letters) == [c EXCEPT !.left = @ \ letters]
Given(c, letter) == letter \in c.left
Motion(c) == c.m["G1"]
Incremental(c) == c.m["G3"] = 910
InMm(c, n) == IF c.m["G6"] = 200 THEN Inch * n ELSE n

\* gc_get_plane_data
Plane(c) ==
    CASE c.m["G2"] = 170 -> [axis_0 |-> "X", axis_1 |-> "Y", linear |-> "Z"]
      [] c.m["G2"] = 180 -> [axis_0 |-> "Z", axis_1 |-> "X", linear |-> "Y"]
      [] c.m["G2"] = 190 -> [axis_0 |-> "Y", axis_1 |-> "Z", linear |-> "X"]

\* gc_get_block_offset
BlockOffset(c, a) == c.wcs[a] + c.g.g92[a] + c.g.tlo[a]

-----------------------------------------------------------------------------
(* Step 3: the checks, in the order of execution *)

Common(c) ==
    LET cmd == IF c.axes # {} /\ c.cmd = "none" THEN "motion" ELSE c.cmd
    IN Require([c EXCEPT !.cmd = cmd], c.g.toolChange /\ cmd = "motion" => c.jog)

\* The last feed rate is used only in the mode it was given in.
LastFeedAnyMode(c) == c.g.feed
LastFeed(c) == IF c.m["G5"] = 940 /\ c.g.modes["G5"] = 940 THEN c.g.feed ELSE 0

FeedRate(c) ==
    LET f == CASE Given(c, "F") /\ c.m["G5"] = 930 -> c.v["F"]
               [] Given(c, "F") -> InMm(c, c.v["F"])
               [] OTHER -> LastFeed(c)
    IN Require([c EXCEPT !.v["F"] = f],
               /\ c.m["G5"] # 950               \* needs a spindle encoder
               /\ c.jog => Given(c, "F")
               /\ c.m["G5"] = 930 /\ c.cmd = "motion" /\ Motion(c) \notin {0, 800}
                     => Given(c, "F"))

SpindleSpeed(c) ==
    IF Given(c, "S") THEN c ELSE [c EXCEPT !.v["S"] = c.g.rpm]

SelectTool(c) ==
    IF c.setTool
    THEN Use(Require([c EXCEPT !.v["T"] = c.v["Q"]],
                     Given(c, "Q") /\ (Tools # {} => c.v["Q"] \in Tools)), {"Q"})
    ELSE IF Given(c, "T") THEN c ELSE [c EXCEPT !.v["T"] = c.g.pending]

OutputPort(c) ==
    CASE c.port \in 62..65 -> Use(Require(c, Given(c, "P") /\ c.v["P"] \in 0 .. Ports-1), {"P"})
      [] c.port \in {67, 68} -> Use(Require(c, /\ Given(c, "E") \/ Given(c, "Q")
                                              /\ c.v["E"] \in 0 .. Ports-1), {"E", "Q"})
      [] OTHER -> c

\* M48 to M56; P0 disables, no P or another one enables.
OverrideControl(c) ==
    LET zero == Given(c, "P") /\ c.v["P"] = 0
        set(x) == IF zero THEN c.off \cup x ELSE c.off \ x
        off == CASE c.override = 48 -> c.off \ {"feed", "speed"}
                 [] c.override = 49 -> c.off \cup {"feed", "speed"}
                 [] c.override = 50 -> set({"feed"})
                 [] c.override = 51 -> set({"speed"})
                 [] c.override = 53 -> set({"hold"})
                 [] c.override = 56 -> set({"parking"})
    IN IF "M9" \notin c.named THEN c
       ELSE Use(Require([c EXCEPT !.off = off, !.v["P"] = IF Given(c, "P") THEN @ ELSE 1],
                        Given(c, "P") => c.v["P"] >= 0), {"P"})

Dwell(c) ==
    IF c.nm # 40 THEN c ELSE Use(Require(c, Given(c, "P") /\ c.v["P"] >= 0), {"P"})

Units(c) == [c EXCEPT !.xyz = [a \in Axes |-> IF a \in c.axes THEN InMm(c, @[a]) ELSE @[a]]]

\* G51 takes the axis words as factors (MACH3_SCALING).  Both write the
\* parser state though a later check may refuse the block.
Scaling(c) ==
    LET d == CASE c.cmd # "scaling" -> c
               [] c.cmd = "scaling" /\ c.scale = 500 ->
                    [c EXCEPT !.g.scale = [a \in Axes |-> 1], !.g.scaling = FALSE]
               [] OTHER ->
                    Use(Require([c EXCEPT !.g.scale = [a \in Axes |-> IF a \in c.axes THEN c.xyz[a] ELSE @[a]],
                                          !.g.scaling = @ \/ c.axes # {},
                                          !.axes = {}],
                                c.axes # {}), Axes)
    IN [d EXCEPT !.xyz = [a \in Axes |-> IF a \in d.axes /\ d.g.scaling
                                         THEN @[a] * d.g.scale[a] ELSE @[a]]]

ToolLength(c) ==
    LET h == IF Given(c, "H") /\ c.v["H"] # 0 THEN c.v["H"] ELSE c.v["T"]
    IN CASE "G8" \notin c.named -> c
         [] c.m["G8"] = 431 -> Require(c, c.axes # {})
         [] c.m["G8"] = 430 -> Use(Require([c EXCEPT !.v["H"] = h],
                                           Given(c, "H") => h \in Tools), {"H"})
         [] c.m["G8"] = 432 -> Use(Require(c, Given(c, "H") /\ c.v["H"] \in Tools \ {0}), {"H"})
         [] OTHER -> c                             \* G49

CoordSystem(c) ==
    IF c.m["G12"] = c.g.modes["G12"] THEN c
    ELSE [c EXCEPT !.wcs = c.g.stored[c.m["G12"]]]

\* G10 L2 and L20 set a coordinate system, L1 and L10 a tool in the table.
\* (L11, which measures a tool at G59.3, is left out.)
System(c) == IF c.v["P"] = 0 THEN c.m["G12"] ELSE 530 + 10 * c.v["P"]
SetCoordinateData(c) ==
    LET p == c.v["P"]
        l == c.v["L"]
        here(a) == c.g.position[a] - c.g.g92[a] - c.xyz[a]
        d == Require(c, /\ c.axes # {} \/ (l # 20 /\ Given(c, "R"))
                        /\ Given(c, "P") \/ Given(c, "L")
                        /\ p >= 0
                        /\ l \in {2, 20} => System(c) \in Systems
                        /\ l = 2 => ~Given(c, "R")
                        /\ l \in {1, 10} => p \in Tools
                        /\ l \in {1, 2, 10, 20})
    IN IF ~d.ok THEN d
       ELSE IF l \in {2, 20}
       THEN Use([d EXCEPT !.id = System(c),
                          !.data = [a \in Axes |->
                              IF a \notin c.axes THEN c.g.stored[System(c)][a]
                              ELSE IF l = 2 THEN c.xyz[a] ELSE here(a) - c.g.tlo[a]]],
                {"L", "P"})
       ELSE Use([d EXCEPT !.g.table[p] = [a \in Axes |->
                              IF a \notin c.axes THEN (IF l = 10 THEN c.g.tlo[a] ELSE @[a])
                              ELSE IF l = 1 THEN c.xyz[a] ELSE here(a) - c.g.wcs[a]]],
                {"L", "P", "R"})

\* The offset that makes the present position the given one.
SetCoordinateOffset(c) ==
    Require([c EXCEPT !.xyz = [a \in Axes |->
                IF a \in c.axes THEN c.g.position[a] - c.wcs[a] - @[a] - c.g.tlo[a]
                ELSE c.g.g92[a]]],
            c.axes # {})

TargetUnnamed(c) ==
    [c EXCEPT !.xyz = [a \in Axes |->
        @[a] + (IF Incremental(c) THEN c.g.position[a] ELSE BlockOffset(c, a))]]
Target(c) ==
    IF (c.axes # {} \/ Motion(c) \in Arcs) /\ c.cmd # "tlo"
    THEN [c EXCEPT !.xyz = [a \in Axes |->
             IF a \notin c.axes THEN c.g.position[a]
             ELSE IF c.nm = 530 THEN @[a]
             ELSE @[a] + (IF Incremental(c) THEN c.g.position[a] ELSE BlockOffset(c, a))]]
    ELSE c

GoHomeTarget(c) ==
    LET home == c.g.stored[c.nm]
    IN IF c.axes = {} THEN [c EXCEPT !.data = home, !.cmd = "none"]
       ELSE [c EXCEPT !.data = [a \in Axes |-> IF a \in c.axes THEN home[a] ELSE c.g.position[a]]]

NonModal(c) ==
    CASE c.nm = 100 -> SetCoordinateData(c)
      [] c.nm = 920 -> SetCoordinateOffset(c)
      [] c.nm \in GoHome -> GoHomeTarget(Target(c))
      [] c.nm = 530 -> Require(Target(c), Motion(c) \in {0, 10})
      [] OTHER -> Target(c)

\* A cycle is entered with R and a depth; later blocks may leave them out.
\* The data is the parser state's own, also when the block is refused.
EnterCycle(c) ==
    LET p == Plane(c)
        d == Require(c, c.change => /\ c.g.modes["G5"] # 930
                                    /\ Given(c, "R")
                                    /\ p.linear \in c.axes)
    IN IF d.ok /\ c.change
       THEN [d EXCEPT !.g.canned.xyz[p.axis_0] = 0, !.g.canned.xyz[p.axis_1] = 0,
                      !.g.canned.dwell = 0]
       ELSE d

CycleHole(c) ==
    LET z == Plane(c).linear
        retract == IF Given(c, "R")
                   THEN InMm(c, c.v["R"]) + (IF Incremental(c) THEN c.g.position[z]
                                             ELSE BlockOffset(c, z))
                   ELSE c.g.canned.retract
        xyz == [a \in Axes |->
                   IF a \notin c.axes THEN c.g.canned.xyz[a]
                   ELSE IF a # z THEN c.xyz[a] - c.g.position[a]
                   ELSE IF Incremental(c) THEN retract + c.xyz[a] - c.g.position[a]
                   ELSE c.xyz[a]]
        d == Require([c EXCEPT !.v["L"] = IF Given(c, "L") THEN @ ELSE 1],
                     Given(c, "L") => c.v["L"] > 0)
    IN IF ~d.ok THEN d
       ELSE Use(Require([d EXCEPT !.g.canned.retract = retract, !.g.canned.xyz = xyz],
                        retract >= xyz[z]),
                {"R", "L"})

CycleKind(c) ==
    LET peck  == Motion(c) \in {730, 830}
        dwell == Motion(c) \in {820, 840, 860, 890}
        depth == c.g.canned.retract - c.g.canned.xyz[Plane(c).linear]
        d == Require(c, /\ peck => IF Given(c, "Q") THEN c.v["Q"] > 0 ELSE ~c.change
                        /\ dwell => IF Given(c, "P") THEN c.v["P"] >= 0 ELSE ~c.change)
    IN CASE ~d.ok \/ Motion(c) \notin Cycles -> d
         [] d.ok /\ peck ->
              Use([d EXCEPT !.g.canned.delta = IF Given(c, "Q") THEN InMm(c, c.v["Q"]) ELSE @,
                            !.g.canned.dwell = 1], {"Q"})
         [] OTHER ->
              Use([d EXCEPT !.g.canned.delta = depth,
                            !.g.canned.dwell = IF dwell /\ Given(c, "P") THEN c.v["P"] ELSE @],
                  IF dwell THEN {"P"} ELSE {})

Cycle(c) ==
    LET d == EnterCycle(c)
        e == IF d.ok THEN CycleHole(d) ELSE d
    IN IF e.ok THEN CycleKind(e) ELSE e

\* Both radii of an arc in centre format must agree, within a tolerance that
\* stands for equality here.
Arc(c) ==
    LET p  == Plane(c)
        letter == [X |-> "I", Y |-> "J", Z |-> "K"]
        factor(a) == IF c.g.scaling THEN c.g.scale[a] ELSE 1
        x  == c.xyz[p.axis_0] - c.g.position[p.axis_0]
        y  == c.xyz[p.axis_1] - c.g.position[p.axis_1]
        i  == InMm(c, c.v[letter[p.axis_0]]) * factor(p.axis_0)
        j  == InMm(c, c.v[letter[p.axis_1]]) * factor(p.axis_1)
        f0 == factor(p.axis_0)
        f1 == factor(p.axis_1)
        r  == InMm(c, c.v["R"]) * (IF f0 > f1 THEN f0 ELSE f1)
        d  == Require(c, /\ c.axes \cap {p.axis_0, p.axis_1} # {}
                         /\ Given(c, "P") => c.v["P"] > 0)
    IN IF Given(c, "R")
       THEN Use(Require(d, c.xyz # c.g.position /\ 4 * r * r >= x * x + y * y), {"P", "R"})
       ELSE Use(Require(d, /\ c.ijk \cap {letter[p.axis_0], letter[p.axis_1]} # {}
                           /\ (x - i) * (x - i) + (y - j) * (y - j) = i * i + j * j),
                {"P", "I", "J", "K"})

Spline(c) ==
    LET d == Require(c, c.m["G2"] = 170 /\ c.axes \subseteq {"X", "Y"})
    IN IF Motion(c) = 50
       THEN Use(Require(d, /\ Given(c, "P") /\ Given(c, "Q")
                           /\ Motion(c) # c.g.modes["G1"] => Given(c, "I") /\ Given(c, "J")),
                {"P", "Q", "I", "J"})
       ELSE Use(Require(d, Given(c, "I") /\ Given(c, "J") /\ c.v["I"] # 0), {"I", "J"})

\* G33 and G76 need a spindle encoder.
FeedMotion(c) ==
    LET d == Require([c EXCEPT !.m["G10"] = IF c.cycle THEN @ ELSE 980],
                     Motion(c) \notin {330, 760} /\ c.v["F"] # 0)
    IN CASE ~d.ok -> d
         [] d.ok /\ c.cycle -> Cycle(d)
         [] d.ok /\ ~c.cycle /\ Motion(c) = 10 ->
              IF c.axes = {} THEN [d EXCEPT !.cmd = "none"] ELSE d
         [] d.ok /\ ~c.cycle /\ Motion(c) \in Arcs -> Arc(d)
         [] d.ok /\ ~c.cycle /\ Motion(c) \in {50, 51} -> Spline(d)
         [] d.ok /\ ~c.cycle /\ Motion(c) \in Probes ->
              Require(d, c.axes # {} /\ c.xyz # c.g.position)
         [] OTHER -> d

MotionMode(c) ==
    CASE Motion(c) = 800 ->
           Require([c EXCEPT !.m["G10"] = 980], c.axes # {} => c.cmd = "nonmodal")
      [] Motion(c) = 0 /\ c.cmd = "motion" ->
           IF c.axes = {} THEN [c EXCEPT !.cmd = "none"] ELSE c
      [] Motion(c) \notin {0, 800} /\ c.cmd = "motion" -> FeedMotion(c)
      [] OTHER -> c

\* Every word must have been used; a jog takes no S and T, and only units,
\* distance mode and G53.
Unused(c) ==
    LET taken == {"N", "F"} \cup (IF c.jog THEN {} ELSE {"S", "T"})
                 \cup (IF c.cmd # "none" THEN Axes ELSE {})
    IN Require(c, /\ c.left \subseteq taken
                  /\ c.jog => c.named \subseteq {"G0", "G3", "G6", "State"} /\ c.nm \in {0, 530})

Then(Check(_), c) == IF c.ok THEN Check(c) ELSE c

\* The command, the feed rate, the speed, the tool, the output ports;
Settled(c) ==
    Then(OutputPort, Then(SelectTool, Then(SpindleSpeed, Then(FeedRate, Then(Common, c)))))

\* the overrides, the dwell, and what the coordinates refer to.
Referred(c) ==
    LET scaled == Then(Scaling, Then(Units, Then(Dwell, Then(OverrideControl, c))))
    IN Then(CoordSystem, Then(ToolLength, scaled))

\* The whole of steps 1 to 3
Checked(g, b, jog) ==
    Then(Unused, Then(MotionMode, Then(NonModal, Referred(Settled(Context(g, b, jog))))))
=============================================================================
