------------------------------ MODULE Kinematics ------------------------------
(***************************************************************************)
(* Machines whose motors are not their axes (kinematics/corexy.c,          *)
(* wall_plotter.c, polar.c, delta.c): how mc_line has a line divided into  *)
(* segments, has them transformed for the motors, and plans them, while a  *)
(* jog is cancelled or the machine is reset; and how CoreXY homes an axis  *)
(* that both of its motors move.                                           *)
(*                                                                         *)
(* A line is the sequence of the points its segments lie between.  A point *)
(* is known by its angle, or is the Center; the angle matters to the polar *)
(* machine, whose table turns on and on, while the motors of the others    *)
(* have one position for each point.  The machine stops where segments end.*)
(***************************************************************************)
EXTENDS Integers, Sequences

CONSTANTS Machines,      \* of "corexy", "wall_plotter", "polar" and "delta"
          Paths,         \* the lines
          Unsafe,       \* points outside the work envelope
          Unreachable,   \* points the arms of the delta robot do not reach
          CoreSteps,     \* the motors of CoreXY, in steps
          MaxAngle,      \* bound of the table's angle when a line begins, from rest
          LineWindows    \* what breaks the properties: see Allow

Center == -1
Points == -1 .. 359

\* A line comes to the center at one angle.
ASSUME KinematicsAssumption ==
    /\ Paths \subseteq Seq(Points) /\ CoreSteps \subseteq Int
    /\ \A path \in Paths :
          /\ Len(path) > 1
          /\ \A i, j \in 1..Len(path) : path[i] = Center /\ j < i => path[j] = path[1]

VARIABLES machine,
          limited,      \* soft limits are on
          pos,          \* plan_get_position
          trail,        \* where the machine may stop
          last_pos,
          line,         \* the line in mc_line, with the static variables of segment_line
          jog_cancel,
          halting,      \* a jog is cancelled and not stopped yet
          motors,       \* of CoreXY
          axes          \* for the property: where the axes of CoreXY are

lineVars == <<machine, limited, pos, trail, last_pos, line, jog_cancel, halting>>
coreVars == <<motors, axes>>
kinVars == <<lineVars, coreVars>>

\* What happens only where the code copes with it, unless LineWindows has it.
Allow(window, safe) == window \notin LineWindows => safe

-----------------------------------------------------------------------------
(* Positions of the motors *)

\* Mutant: the long way, past 0.
TurnedPast(last, point) == last + point - (last % 360)

\* The table turns to the angle of a point the short way from where it was last.
Turned(last, point) ==
    LET target == IF point = Center THEN last ELSE point
        delta == target - (last % 360)
    IN last + (IF delta > 180 THEN delta - 360 ELSE IF delta < -180 THEN delta + 360 ELSE delta)

\* transform_from_cartesian
Motors(point) == [at |-> point, angle |-> IF machine = "polar" THEN Turned(last_pos.angle, point) ELSE 0]

-----------------------------------------------------------------------------
(* mc_line, which calls the segment_line of the machine *)

NoLine == [state |-> "none"]
Goal(path) == path[Len(path)]
InProgress == line # NoLine /\ line.state # "over"

\* Rapid motions are made in one piece, but by a delta robot, and so are short ones and those
\* of CoreXY.
Segmented(path, rapid) == Len(path) > 2 /\ (machine = "delta" \/ (machine # "corexy" /\ ~rapid))

\* The wall plotter and the polar machine have no check of their own: that of the core refuses
\* positions of motors.  Jogs have been checked.
SoftLimited(path, jog) == limited /\ ~jog /\ (machine \in {"corexy", "delta"} => Goal(path) \in Unsafe)

\* The feed rate is multiplied for what the motors move more, or less, than the tool: by CoreXY
\* when the line begins, by the others for each segment.
RatedFirst(rapid) == machine = "corexy" /\ ~rapid
RatedEach == ~line.rapid /\ (machine = "delta" \/ (machine = "polar" /\ line.segmented))

\* A line begins: plan_get_position, the first call of segment_line, the soft limits.
McLine(path, rapid, jog) ==
    /\ ~InProgress /\ path[1] = pos.at /\ ~SoftLimited(path, jog)
    /\ pos.angle \in -MaxAngle .. MaxAngle /\ (halting \/ trail = {pos})
    /\ Allow("early", ~halting)
    /\ Allow("cancelled", machine \in {"polar", "delta"} => last_pos = pos)
    /\ Allow("center", (\E i \in 1..Len(path) : path[i] = Center) => last_pos.angle \in -360 .. 719)
    /\ Allow("outside", \A i \in 1..Len(path) : machine = "delta" => path[i] \notin Unreachable)
    /\ jog_cancel' = FALSE
    /\ line' = [state |-> "next", path |-> path, rapid |-> rapid, jog |-> jog,
                segmented |-> Segmented(path, rapid),
                iterations |-> IF Segmented(path, rapid) THEN Len(path) ELSE 2,
                added |-> 0,       \* how often delta was added to segment_target
                target |-> pos,    \* cpos, the transformed segment_target
                from |-> pos,      \* what the distance to it was taken from
                rated |-> IF RatedFirst(rapid) THEN 1 ELSE 0,   \* how often the feed rate was multiplied
                planned |-> 0, late |-> 0, cut |-> FALSE]
    /\ UNCHANGED <<machine, limited, pos, trail, last_pos, halting, coreVars>>

McLineRefused(path, jog) ==
    /\ ~InProgress /\ path[1] = pos.at /\ SoftLimited(path, jog)
    /\ jog_cancel' = FALSE
    /\ line' = NoLine
    /\ UNCHANGED <<machine, limited, pos, trail, last_pos, halting, coreVars>>

\* A further call of segment_line.  It ends the line when the last segment is made, the jog is
\* cancelled, or the segment is out of reach.
SegmentLine ==
    LET left == line.iterations - 1
        adds == line.segmented /\ left > 1
        point == IF adds THEN line.path[line.added + 2] ELSE Goal(line.path)
        beyond == machine = "delta" /\ point \in Unreachable
        cpos == IF beyond THEN last_pos ELSE Motors(point)
        ends == left = 0 \/ jog_cancel \/ beyond
        remembers == machine \in {"polar", "delta"}
    IN /\ line # NoLine /\ line.state = "next"
       /\ line' = [line EXCEPT !.state = IF ends THEN "over" ELSE "ready",
                       !.iterations = IF beyond THEN 0 ELSE left,
                       !.added = IF adds THEN @ + 1 ELSE @,
                       !.target = cpos,
                       !.from = IF remembers THEN last_pos ELSE pos,
                       !.rated = IF ends THEN 0 ELSE IF RatedEach THEN @ + 1 ELSE @]
       /\ last_pos' = IF remembers THEN cpos ELSE last_pos
       /\ UNCHANGED <<machine, limited, pos, trail, jog_cancel, halting, coreVars>>

\* There is room in the planner: the segment is planned, and the feed rate restored.
PlanSegment ==
    /\ line # NoLine /\ line.state = "ready"
    /\ pos' = line.target
    /\ trail' = trail \cup {line.target}
    /\ line' = [line EXCEPT !.state = "next", !.rated = 0, !.planned = @ + 1,
                            !.late = IF jog_cancel THEN @ + 1 ELSE @]
    /\ UNCHANGED <<machine, limited, last_pos, jog_cancel, halting, coreVars>>

\* What is planned is done.
Arrive ==
    /\ ~halting
    /\ trail' = {pos}
    /\ UNCHANGED <<machine, limited, pos, last_pos, line, jog_cancel, halting, coreVars>>

\* cancel_jog, when the command is received, whatever the line is; a jog that moves is stopped.
JogCancel ==
    /\ line # NoLine
    /\ jog_cancel' = (machine # "corexy")
    /\ halting' = (halting \/ (line.jog /\ trail # {pos}))
    /\ line' = [line EXCEPT !.cut = @ \/ InProgress \/ halting']
    /\ UNCHANGED <<machine, limited, pos, trail, last_pos, coreVars>>

\* It is stopped, and the planner emptied, which a line that waits for room does not notice.
JogStopped ==
    /\ halting
    /\ \E stop \in trail : pos' = stop /\ trail' = {stop}
    /\ halting' = FALSE
    /\ UNCHANGED <<machine, limited, last_pos, line, jog_cancel, coreVars>>

Reset ==
    /\ \E stop \in trail : pos' = stop /\ trail' = {stop}
    /\ halting' = FALSE
    /\ line' = IF line = NoLine THEN NoLine ELSE [line EXCEPT !.state = "over", !.cut = TRUE]
    /\ UNCHANGED <<machine, limited, last_pos, jog_cancel, coreVars>>

\* onProgramCompleted of the polar machine: the turns of the table are forgotten.
ProgramCompleted ==
    LET cpos == [at |-> pos.at, angle |-> Turned(0, pos.at)]
    IN /\ machine = "polar" /\ ~InProgress /\ ~halting /\ trail = {pos}
       /\ pos' = cpos /\ last_pos' = cpos /\ trail' = {cpos}
       /\ line' = NoLine
       /\ UNCHANGED <<machine, limited, jog_cancel, halting, coreVars>>

-----------------------------------------------------------------------------
(* CoreXY *)

AxisX(m) == (m.a + m.b) \div 2
AxisY(m) == (m.a - m.b) \div 2
Axes(m) == [x |-> AxisX(m), y |-> AxisY(m)]

\* Both axes have moved, one of them until its switch was found.
CoreMoved(a, b) ==
    /\ machine = "corexy"
    /\ motors' = [a |-> a, b |-> b]
    /\ axes' = Axes(motors')
    /\ UNCHANGED lineVars

\* limits_set_machine_positions: a homed axis is where its switch is, or at 0 (force_set_origin,
\* and limits_set_target_pos during the cycle), and the other where it was.
CoreHomed(axis, position) ==
    /\ machine = "corexy"
    /\ motors' = IF axis = "x" THEN [a |-> position + AxisY(motors), b |-> position - AxisY(motors)]
                               ELSE [a |-> AxisX(motors) + position, b |-> AxisX(motors) - position]
    /\ axes' = [axes EXCEPT ![axis] = position]
    /\ UNCHANGED lineVars

-----------------------------------------------------------------------------
KinInit ==
    /\ machine \in Machines /\ limited \in BOOLEAN
    /\ \E point \in {path[1] : path \in Paths} :
          /\ machine = "polar" => point = Center
          /\ pos = [at |-> point, angle |-> 0]
    /\ trail = {pos} /\ last_pos = pos
    /\ line = NoLine /\ jog_cancel = FALSE /\ halting = FALSE
    /\ motors = [a |-> 0, b |-> 0] /\ axes = [x |-> 0, y |-> 0]

KinNext ==
    \/ \E path \in Paths, rapid, jog \in BOOLEAN : McLine(path, rapid, jog)
    \/ \E path \in Paths, jog \in BOOLEAN : McLineRefused(path, jog)
    \/ SegmentLine \/ PlanSegment \/ Arrive
    \/ JogCancel \/ JogStopped \/ Reset \/ ProgramCompleted
    \/ \E a, b \in CoreSteps : CoreMoved(a, b)
    \/ \E axis \in {"x", "y"}, position \in CoreSteps : CoreHomed(axis, position)

KinSpec == KinInit /\ [][KinNext]_kinVars

-----------------------------------------------------------------------------
(* Properties *)

Pieces == IF line.segmented THEN Len(line.path) - 1 ELSE 1
Whole == line # NoLine /\ ~line.cut

\* The segments of a line are planned one after the other, each from where the one before ends,
\* and a line that is neither cancelled nor reset ends at its target (segment_line).
Traced ==
    Whole =>
        /\ line.state = "ready" =>
              /\ pos.at = line.path[line.planned + 1]
              /\ line.target.at = IF line.segmented THEN line.path[line.planned + 2] ELSE Goal(line.path)
        /\ line.state = "over" => line.planned = Pieces /\ pos.at = Goal(line.path)

\* The table of the polar machine turns by half a turn at most for a segment, and stays at the
\* angle of the point it is at (transform_from_cartesian).
TurnsLittle ==
    machine = "polar" =>
        /\ pos.at # Center => pos.angle % 360 = pos.at
        /\ Whole /\ line.state = "ready" => line.target.angle - pos.angle \in -180 .. 180

\* The feed rate of a segment is that of the line multiplied once, for the distance from where
\* the machine is: mc_line restores it after each (rate_multiplier, last_pos).
FeedRated ==
    Whole /\ line.state = "ready" =>
        /\ line.rated = IF RatedFirst(line.rapid) \/ RatedEach THEN 1 ELSE 0
        /\ line.from = pos

\* After a jog is cancelled at most one more segment is planned (jog_cancel).
CancelledSoon == line # NoLine => line.late <= 1

\* Homing an axis of CoreXY puts it where it should be, and leaves the other where it was.
AxesKept == Axes(motors) = axes

LinesSound == Traced /\ TurnsLittle /\ FeedRated /\ CancelledSoon /\ AxesKept
=============================================================================
