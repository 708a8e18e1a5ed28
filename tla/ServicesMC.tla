------------------------------ MODULE ServicesMC ------------------------------
(***************************************************************************)
(* Programs for FlowProgram, and the small instances of the components     *)
(* that keep their state to themselves, model checked together.  They do   *)
(* not interact: a behaviour is one of the component `part', and the       *)
(* others do not take part in it.                                          *)
(***************************************************************************)
EXTENDS FlowProgram, CanBus, Kinematics, SettingValues
LOCAL INSTANCE SequencesExt

VARIABLES part,                     \* the component that runs
          move,                     \* TravelLimits
          job, cycle,               \* MotionCycles
          ports,                    \* IoPorts
          spindle, pwm,             \* SpindleControl, SpindlePwm
          report, told, changes,    \* StatusReport
          streams,                  \* Streams
          speeds, motions           \* SpeedPlan

flowVars == <<vars, plan>>
cycleVars == <<job, cycle>>
reportVars == <<report, told, changes>>
spindleVars == <<spindle, pwm>>
speedVars == <<speeds, motions>>
small == <<move, cycleVars, ports, spindleVars, reportVars, streams, speedVars>>
allVars == <<part, small, flowVars, canVars, kinVars, valueVars>>

-----------------------------------------------------------------------------
(* Programs: every kind of loop left, continued and nested in every way,   *)
(* subs of both kinds with arguments, returns, errors and saved modes,     *)
(* expressions with every operator, typed programs.                        *)

\* Operands.
LOCAL Num(v) == [kind |-> "number", value |-> v]
LOCAL Par(id) == [kind |-> "param", id |-> id]
LOCAL Neg(o) == [kind |-> "unary", op |-> "neg", arg |-> o]
LOCAL Fn(f, e) == [kind |-> "unary", op |-> f, arg |-> [kind |-> "bracket", expr |-> e]]
LOCAL Br(e) == [kind |-> "bracket", expr |-> e]
LOCAL Exists(id) == [kind |-> "exists", id |-> id]
LOCAL In == <<Par(Input)>>

\* Blocks.
LOCAL B(n) == [op |-> "block", n |-> n, act |-> "mode", mode |-> 0]
LOCAL Mode(n, m) == [op |-> "block", n |-> n, act |-> "mode", mode |-> m]
LOCAL Act(n, act) == [op |-> "block", n |-> n, act |-> act]
LOCAL SetAll(n, list) == [op |-> "block", n |-> n, act |-> "assign", list |-> list]
LOCAL Set(n, id, e) == SetAll(n, <<[id |-> id, expr |-> e]>>)
LOCAL Wait(n) == Act(n, "input")

\* Statements.
LOCAL Choose_(label, e, then, other) ==
    [op |-> "choose", label |-> label, arms |-> <<[expr |-> e, body |-> then]>>, other |-> other]
LOCAL Loop(kind, label, e, body) == [op |-> "loop", kind |-> kind, label |-> label, expr |-> e, body |-> body]
LOCAL Define(label, body, e) == [op |-> "define", label |-> label, body |-> body, expr |-> e]
LOCAL CallOf(label, args) == [op |-> "call", label |-> label, args |-> args]
LOCAL Ret(label, e) == [op |-> "return", label |-> label, expr |-> e]

LOCAL Card(main) == [console |-> FALSE, files |-> [name \in {"main"} |-> main]]
LOCAL Files(console, main, a, b) ==
    [console |-> console,
     files |-> [name \in {"main", "<a>", "<b>"} |-> CASE name = "main" -> main [] name = "<a>" -> a [] OTHER -> b]]

\* Counts to 3.
LOCAL Count(n, id) == Set(n, id, <<Par(id), "+", Br(<<Par(id), "LT", Num(3)>>)>>)

\* One loop in another, the inner one left or continued from inside a choice.
LOCAL Kinds == <<"while", "do", "repeat">>
LOCAL Bound(kind, id) == IF kind = "repeat" THEN <<Num(2)>> ELSE <<Par(id), "LT", Num(2)>>
LOCAL Exits(inner) == <<Op("break", "o1"), Op("break", "o2")>>
    \o (IF inner = "while" THEN << >> ELSE <<Op("continue", "o2")>>)
LOCAL Nested(outer, inner, exit) ==
    Card(<<Loop(outer, "o1", Bound(outer, "#1"),
             <<Count(1, "#1"), Set(2, "#2", <<Num(0)>>), Wait(3),
               Loop(inner, "o2", Bound(inner, "#2"),
                 <<Count(4, "#2"),
                   Choose_("o3", In, <<exit>>, <<B(5)>>),
                   B(6)>>),
               B(7)>>),
           B(8)>>)
LOCAL Loops2 == FlattenSeq([i \in 1..9 |->
    LET outer == Kinds[1 + ((i - 1) \div 3)]
        inner == Kinds[1 + ((i - 1) % 3)]
    IN [j \in DOMAIN Exits(inner) |-> Nested(outer, inner, Exits(inner)[j])]])

LOCAL Conditions == <<
    Card(<<Wait(1), Set(2, "#2", <<Num(1)>>),
           [op |-> "choose", label |-> "o1",
            arms |-> <<[expr |-> <<Par(Input), "AND", Par("#1"), "EQ", Num(0)>>, body |-> <<B(3), Set(4, "#1", <<Num(2)>>)>>],
                       [expr |-> <<Par("#1"), "EQ", Num(2)>>, body |-> <<B(5)>>],
                       [expr |-> <<Num(1), "-", Par("#2"), "-", Num(1)>>, body |-> <<B(6)>>]>>,
            other |-> <<Choose_("o2", <<Num(0)>>, <<B(7)>>, << >>), Loop("while", "o3", <<Num(0)>>, <<B(8), Choose_("o4", In, <<B(9)>>, <<B(10)>>)>>)>>],
           Choose_("o1", <<Num(0)>>,
             <<Choose_("o2", In, <<B(11)>>, <<B(12)>>), Loop("do", "o3", In, <<B(13)>>),
               Loop("repeat", "o4", <<Num(1)>>, <<B(14), Op("break", "o4"), Op("continue", "o4")>>), CallOf("o9", << >>),
               OpE("error", "o8", <<Num(1)>>), OpE("alarm", "o8", <<Num(1)>>), Ret("o8", << >>)>>, << >>),
           Loop("repeat", "o5", <<Num(1), "-", Num(2)>>, <<B(15)>>),
           OpE("error", "o6", <<Num(0)>>), B(16), OpE("alarm", "o7", <<Num(1)>>), B(17)>>),
    Card(<<Choose_("o1", <<Num(1), "/", Num(0)>>, <<B(1)>>, << >>)>>),
    Card(<<B(1), Op("else", "o1"), B(2)>>), Card(<<B(1), Op("endif", "o1"), B(2)>>),
    Card(<<B(1), OpE("elseif", "o1", <<Num(1)>>), B(2)>>), Card(<<B(1), Op("break", "o1"), B(2)>>),
    Card(<<B(1), Op("endwhile", "o1"), B(2)>>), Card(<<B(1), Op("endrepeat", "o1"), B(2)>>),
    Card(<<B(1), Op("continue", "o1"), B(2)>>), Card(<<B(1), CallOf("o1", << >>), B(2)>>),
    Card(<<B(1), OpE("error", "o1", <<Num(9)>>), B(2)>>), Card(<<B(1), Op("sub", "<a>"), B(2)>>),
    Card(<<B(1), CallOf("<b>", << >>), B(2)>>),
    Card(<<Loop("while", "o1", <<Num(1)>>,
             <<Count(1, "#1"), Choose_("o2", <<Par("#1"), "LT", Num(3)>>, <<Op("continue", "o1")>>, << >>),
               B(2), Op("break", "o1")>>),
           B(3)>>)>>

LOCAL Operators == <<"AND", "XOR", "OR", "LT", "EQ", "NE", "LE", "GE", "GT", "+", "-", "MOD", "*", "**">>
LOCAL Expressions ==
    [i \in DOMAIN Operators |->
        Card([j \in DOMAIN Operators |->
                Set(j, "#31", <<Num(5), Operators[i], Num(3), Operators[j], Num(2), Operators[1 + ((i + j) % 13)], Num(1)>>)])]
    \o <<Card(<<Set(1, "<n>", <<Neg(Num(2))>>), SetAll(2, <<[id |-> "#1", expr |-> <<Num(1)>>], [id |-> "#2", expr |-> <<Par("#1")>>]>>),
                Set(3, "#1", <<Fn("ABS", <<Par("<n>"), "-", Num(2)>>), "*", Br(<<Par("#1"), "+", Exists("<n>"), "-", Exists("<m>")>>)>>),
                Set(4, "#31", <<Fn("SQRT", <<Num(4)>>), "/", Num(2)>>), Set(5, "#31", <<Num(0)>>),
                Set(6, "#31", <<Par("<m>")>>), B(7)>>),
         Card(<<Set(1, "#1", <<Num(1), "+", Fn("SQRT", <<Neg(Num(1))>>)>>), B(2)>>)>>

\* Numbered subs: arguments, returns from loops and choices, calls in calls, too many of them.
LOCAL Subs == <<
    Card(<<Define("o1", <<Count(1, "#1"), Set(2, "<n>", <<Par("#2")>>), Set(3, "#31", <<Par("#1")>>), Wait(4),
                          Loop("repeat", "o2", <<Num(2)>>,
                            <<B(5), Choose_("o3", In, <<Ret("o1", <<Par("#31"), "+", Num(1)>>)>>, << >>)>>)>>, << >>),
           Set(6, "#2", <<Num(7)>>),
           Loop("repeat", "o4", <<Num(2)>>, <<CallOf("o1", <<<<Num(5)>>>>), Set(7, "#1", <<Par("_value")>>)>>),
           CallOf("o1", << <<Num(0)>>, <<Num(1), "+", Num(1)>>, <<Par("#1")>> >>), B(8), Ret("o9", <<Num(3)>>), B(9)>>),
    Card(<<Define("o1", <<B(1), Wait(2), Choose_("o2", In, <<CallOf("o1", <<<<Par("#1"), "+", Num(1)>>>>), Set(3, "#31", <<Par("#1")>>)>>, << >>)>>,
                  <<Par("#31"), "*", Num(2)>>),
           CallOf("o1", <<<<Num(1)>>>>), Set(4, "#31", <<Par("_value")>>)>>),
    Card(<<Define("o1", <<B(1)>>, << >>), Define("o2", <<CallOf("o1", << >>), Loop("while", "o3", <<Num(1)>>, <<B(2), Op("break", "o3")>>)>>, <<Num(1)>>),
           CallOf("o2", << >>), CallOf("o1", <<<<Num(1), "/", Num(0)>>>>), B(3)>>)>>

\* Named subs: with and without sub and endsub, nested, with errors and modes of their own.
LOCAL MacroA == <<Define("<a>", <<Count(11, "#1"), Act(12, "auto"), Mode(13, 1), Wait(14),
                                  CallOf("<b>", <<<<Par("#1")>>>>), Act(15, "restore"), Mode(16, 2),
                                  Choose_("o1", In, <<Ret("<a>", <<Num(4)>>)>>, << >>), Act(17, "invalidate")>>, << >>)>>
LOCAL MacroB == <<Set(21, "<n>", <<Par("#1")>>), Act(22, "save"), Mode(23, 3),
                  Loop("repeat", "o1", <<Num(2)>>, <<B(24)>>)>>
LOCAL MacroBad == <<Set(21, "<n>", <<Par("#1")>>), Wait(22),
                    Loop("while", "o1", <<Num(1)>>, <<Choose_("o2", In, <<Act(23, "bad")>>, <<Op("break", "o1")>>)>>)>>
LOCAL MainA == <<Mode(1, 2), Act(2, "save"), CallOf("<a>", <<<<Num(1)>>>>), Set(3, "#31", <<Par("_value")>>),
                 Mode(4, 0), Act(5, "restore"), CallOf("<b>", <<<<Num(5)>>>>), B(6)>>
LOCAL Twice == <<Define("<a>", <<B(11), Choose_("o1", <<Par("#1"), "LT", Num(2)>>,
                                     <<CallOf("<a>", <<<<Par("#1"), "+", Num(1)>>>>)>>, << >>), B(12)>>, << >>)>>
LOCAL Recursive == <<Define("<a>", <<B(11), Wait(12), Choose_("o1", In, <<CallOf("<b>", << >>)>>, << >>)>>, << >>)>>
LOCAL Macros == <<Files(FALSE, MainA, MacroA, MacroB), Files(TRUE, MainA, MacroA, MacroB),
                  Files(FALSE, MainA, MacroA, MacroBad), Files(TRUE, MainA, MacroA, MacroBad),
                  Files(FALSE, <<Loop("repeat", "o1", <<Num(2)>>, <<CallOf("<a>", << >>), B(1)>>)>>, Recursive, MacroB),
                  Files(FALSE, <<CallOf("<a>", <<<<Num(1)>>>>), B(1)>>, Twice, << >>),
                  Files(FALSE, <<CallOf("<a>", << >>), B(1)>>,
                        <<Define("o1", <<B(11)>>, << >>), Choose_("o2", <<Num(1)>>, <<CallOf("o1", << >>), CallOf("<b>", << >>)>>, << >>), B(12)>>,
                        <<Define("o1", <<B(21)>>, << >>), CallOf("o1", << >>), Ret("<b>", << >>), B(22)>>)>>

\* What is typed: choices and calls of named subs only.
LOCAL Typed == [i \in 1..8 |-> Files(TRUE,
    <<B(1), Choose_("o1", <<Num(i)>>, <<B(2)>>, <<B(3)>>),
      CASE i = 1 -> Loop("while", "o2", <<Num(1)>>, <<B(4)>>)
        [] i = 2 -> Loop("do", "o2", <<Num(1)>>, <<B(4)>>)
        [] i = 3 -> Loop("repeat", "o2", <<Num(1)>>, <<B(4)>>)
        [] i = 4 -> Op("break", "o1")
        [] i = 5 -> Op("continue", "o1")
        [] i = 6 -> Define("o2", <<B(4)>>, << >>)
        [] i = 7 -> CallOf("o2", << >>)
        [] i = 8 -> Ret("o2", << >>), B(5)>>, << >>, << >>)]

\* A macro with an o-word too many, called from a card.
MCUnbalanced == <<Files(FALSE, <<CallOf("<a>", << >>), B(1)>>, <<B(11), Op("endif", "o1"), B(12)>>, << >>)>>

MCSources == Loops2 \o Conditions \o Expressions \o Subs \o Macros \o Typed
MCPrograms == FlatPrograms
MCPositional == <<"#1", "#2", "#3">>
MCNumbered == {"#1", "#2", "#3", "#31"}
MCShared == {"#31", "_value", "_value_returned"}
MCNames == {"<a>", "<b>"}

-----------------------------------------------------------------------------
(* The other components *)

\* Lines from, through and past the center; half a turn; past the angle 0.
MCPaths == {<<-1, 90, 90>>, <<90, 90, -1, 270>>, <<270, 90>>, <<90, 0, 270>>}

Limits == INSTANCE TravelLimits WITH Sides <- {-5, -3, 0, 4, 5, 6}, Turns <- {-2, -1, 1, 2}

\* Holes from below, at and above the retract height, to it or in one to three pecks;
\* depths of cut whose last pass is cut short or is the full depth; helices up and down.
DrillJobs ==
    {j \in [kind : {"drill"}, motion : {730, 810, 830, 840}, z0 : {-1, 2, 4}, r : {2}, bottom : {-2, 2},
            delta : {1, 3, 4}, toR : BOOLEAN, repeats : 1..2, incr : BOOLEAN, rapid : BOOLEAN, off : {FALSE}] :
        j.rapid = (j.motion # 840) /\ (j.motion \in {810, 840} => j.delta = j.r + 2)}
ThreadJobs ==
    [kind : {"thread"}, peak : {1}, docs : {<<2, 4, 6, 8>>, <<2, 3, 4, 4, 5, 5, 6>>}, depth : {3, 5, 6}, spring : 0..1,
     entry : {0, 2}, exit : {0, 2}, final : {-6, 6}, infeed : {0, 1}]
ArcJobs ==
    {[kind |-> "arc", turns |-> n, angle |-> a, rise |-> pitch * (4 * (n - 1) + a), segments |-> 8, inverse |-> i] :
        n \in 1..3, a \in 1..4, pitch \in {-1, 0, 2}, i \in BOOLEAN}
Cycles == INSTANCE MotionCycles
    WITH m <- cycle, Drills <- DrillJobs, Threads <- ThreadJobs, Arcs <- ArcJobs, G73Retract <- 2,
         MinStep <- 4, MaxStep <- 50, One <- 500

Ports == INSTANCE IoPorts
    WITH io <- ports, Drivers <- <<2, 1>>, NMax <- 5, Controls <- {"reset"}, Windows <- {}

Spindles == INSTANCE SpindleControl
    WITH s <- spindle, Types <- <<"pwm", "basic">>, Speeds <- {1000, 2000}, Percents <- {50, 100, 200},
         LowSpeed <- 600, HighSpeed <- 3000, Timeout <- 2, Windows <- {}

Pwm == INSTANCE SpindlePwm
    WITH w <- pwm, Period <- 1000, RpmMins <- {0, 20}, RpmMaxs <- {20, 95}, MinPercents <- {0, 10},
         MaxPercents <- {50, 100}, OffPercents <- {0, 5}, Overdrives <- {0, 30},
         Speeds <- {0, 1, 20, 21, 57, 94, 95}

Reports == INSTANCE StatusReport
    WITH r <- report, seen <- told, OvBusy <- 3, OvIdle <- 2, WcoBusy <- 4, WcoIdle <- 2,
         MaxMoves <- 2, MaxChanges <- 5, ReportWindows <- {},
         Menus <- {{"offset", "move", "override"}, {"system", "move", "all"}, {"coolant", "tool", "ask"},
                   {"tlo", "modes", "all"}, {"offset", "coolant", "ask"}}

Inputs == INSTANCE Streams
    WITH s <- streams, Base <- "base", Mpg <- "mpg", Clients <- {"telnet", "ws"}, MaxTasks <- 2, Windows <- {}

Speeds == INSTANCE SpeedPlan
    WITH p <- speeds, count <- motions, Lengths <- {1, 3}, Junctions <- {2, 9},
         Nominals <- {<<4, 1>>, <<8, 2>>}, Slots <- 3, MaxBlocks <- 4

\* Homing and what follows it, inputs, spindles, tools, axes, numbers at their ends.
MCMenus == {
    {<<22, v>> : v \in {{}, {0}, {0, 2, 9}, {0, 4, 8}, {0, 7}}}
       \cup {<<24, 2>>, <<180, 1>>, <<181, 3>>, <<181, Unreadable>>, <<182, 1>>,
            <<20, {0}>>, <<40, {0}>>, <<40, {}>>, <<676, {0, 1}>>, <<676, {}>>, <<22, {11}>>},
    {<<6, {0, 1}>>, <<6, {2}>>, <<19, {0, 1}>>, <<19, {}>>, <<65, {0, 1, 2}>>, <<65, {0, 3, 4}>>, <<8, {0, 1}>>},
    {<<14, {0, 6}>>, <<14, {1, 2}>>, <<17, {0, 1}>>, <<484, {0}>>, <<10, {0, 13}>>, <<10, {14}>>},
    {<<9, {0, 1}>>, <<9, {1, 2}>>, <<9, {0}>>, <<7, {0}>>, <<7, {}>>, <<16, {0, 2}>>, <<16, {1}>>},
    {<<32, 1>>, <<32, 2>>, <<32, 3>>, <<341, 4>>, <<341, 5>>, <<342, 30>>, <<346, {0, 2}>>, <<346, {1}>>,
     <<395, 1>>, <<519, 1>>},
    {<<100, 3>>, <<101, 5>>, <<100, 1>>, <<101, 2>>, <<102, 2>>, <<120, 5>>, <<130, 3>>, <<130, -1>>,
     <<170, -3>>, <<171, 3>>, <<170, -11>>, <<120, Unreadable>>},
    {<<21, {1}>>, <<21, {0, 1}>>, <<41, {0, 1}>>, <<41, {1}>>, <<63, {1}>>, <<340, 10>>, <<481, 0>>, <<481, 200>>},
    {<<0, 1>>, <<26, 5>>, <<26, 65536>>, <<29, 21>>, <<43, 0>>, <<43, 128>>, <<58, -5>>,
     <<394, 0>>, <<394, 700>>, <<394, 400>>}}
MCSpindleRefs == <<5, 3>>

ServicesInit ==
    /\ part \in {"flow", "can", "lines", "limits", "cycles", "ports", "spindle", "pwm", "reports", "streams",
                "speeds", "values"}
    /\ PlannedInit /\ (part # "flow" => program = 1)
    /\ CanInit /\ Spindles!Init
    /\ KinInit /\ (part # "lines" => machine = "polar" /\ ~limited)
    /\ IF part = "limits" THEN Limits!Init ELSE move = << >>
    /\ IF part = "cycles" THEN Cycles!Init ELSE job = << >> /\ cycle = << >>
    /\ IF part = "ports" THEN Ports!Init ELSE ports = << >>
    /\ IF part = "pwm" THEN Pwm!Init ELSE pwm = << >>
    /\ IF part = "reports" THEN Reports!ReportInit ELSE report = << >> /\ told = << >> /\ changes = 0
    /\ IF part = "streams" THEN Inputs!StreamsInit ELSE streams = << >>
    /\ IF part = "speeds" THEN Speeds!Init ELSE speeds = << >> /\ motions = 0
    /\ IF part = "values" THEN ValuesInit ELSE values = << >> /\ menu = {}

FlowStep == part = "flow" /\ FlowNext /\ UNCHANGED <<canVars, kinVars, valueVars, small>>
CanStep == part = "can" /\ CanNext /\ UNCHANGED <<flowVars, kinVars, valueVars, small>>
LineStep == part = "lines" /\ KinNext /\ UNCHANGED <<flowVars, canVars, valueVars, small>>
ValueStep == part = "values" /\ ValuesNext /\ UNCHANGED <<flowVars, canVars, kinVars, small>>

CycleStep == part = "cycles" /\ Cycles!Next
      /\ UNCHANGED <<move, ports, spindleVars, reportVars, streams, speedVars>>
PortStep == part = "ports" /\ Ports!Next
      /\ UNCHANGED <<move, cycleVars, spindleVars, reportVars, streams, speedVars>>
SpindleStep == part = "spindle" /\ Spindles!Next
      /\ UNCHANGED <<move, cycleVars, ports, pwm, reportVars, streams, speedVars>>
PwmStep == part = "pwm" /\ Pwm!Next
      /\ UNCHANGED <<move, cycleVars, ports, spindle, reportVars, streams, speedVars>>
ReportStep == part = "reports" /\ Reports!ReportNext
      /\ UNCHANGED <<move, cycleVars, ports, spindleVars, streams, speedVars>>
StreamStep == part = "streams" /\ Inputs!StreamsNext
      /\ UNCHANGED <<move, cycleVars, ports, spindleVars, reportVars, speedVars>>
SpeedStep == part = "speeds" /\ Speeds!Next
      /\ UNCHANGED <<move, cycleVars, ports, spindleVars, reportVars, streams>>
SmallStep ==
    /\ CycleStep \/ PortStep \/ SpindleStep \/ PwmStep \/ ReportStep \/ StreamStep \/ SpeedStep
    /\ UNCHANGED <<flowVars, canVars, kinVars, valueVars>>

ServicesNext == (FlowStep \/ CanStep \/ LineStep \/ ValueStep \/ SmallStep) /\ UNCHANGED part

\* The fairness of StatusReport.
ServicesSpec ==
    /\ ServicesInit /\ [][ServicesNext]_allVars
    /\ SF_reportVars(part = "reports" /\ Reports!WaitEnds)
    /\ SF_reportVars(part = "reports" /\ Reports!ReportModes)
    /\ SF_reportVars(part = "reports" /\ Reports!ReportOffsets)
    /\ WF_reportVars(part = "reports" /\ Reports!Steps)
    /\ WF_reportVars(part = "reports" /\ Reports!AutoReport)
    /\ WF_reportVars(part = "reports" /\ Reports!Reports)

-----------------------------------------------------------------------------
(* The properties of the components, stated and explained in their modules *)

\* TravelLimits: no false alarm, arcs that leave the envelope are refused, and a jog is clipped along its line.  MotionCycles:
\* drilling, threading, helices and splines cut where and how they should.  SpeedPlan:
\* the speeds planned are the best, and kept without a jump.
PathsSound == /\ [](part = "limits" => Limits!LimitsSound)
              /\ [](part = "cycles" => Cycles!CyclesSound)
              /\ [][part = "cycles" => Cycles!MovesSound]_cycleVars
              /\ [](part = "speeds" => Speeds!PlanSound)
              /\ [][part = "speeds" => Speeds!NoJump]_speedVars

\* IoPorts: the numbers of ports address what they were given for.  SpindleControl: only the
\* selected spindle runs, at the speed it should.  SpindlePwm: PWM values follow the speed,
\* within their limits.  Streams: one stream is read, the right one, and heard.  SettingValues:
\* a setting reads as it was written, and a listing restores the settings.
DriversSound == /\ part = "ports" => Ports!PortsSound
                /\ part = "spindle" => Spindles!SpindleSound
                /\ part = "pwm" => Pwm!PwmSound
                /\ part = "streams" => Inputs!StreamsSound
                /\ part = "values" => ValuesSound

\* StatusReport: what changed is told, and a client comes to know everything.
ChangesTold == /\ [](part = "reports" => Reports!StaleIsPending)
               /\ <>[](part = "reports" => Reports!CaughtUp)
=============================================================================
