----------------------------- MODULE TravelLimits -----------------------------
(***************************************************************************)
(* Soft limits (machine_limits.c): which lines and arcs are accepted, and  *)
(* where a jog is clipped.  These are functions without state, and so a    *)
(* behaviour is one call, its arguments in the variable.  The points are   *)
(* those of the circle of radius 5 that have integer coordinates: twelve,  *)
(* the extremes of both axes included.  Both axes of the plane are homed   *)
(* and have soft limits; the machine is inside its envelope.               *)
(***************************************************************************)
EXTENDS Integers, Sequences

CONSTANTS Sides,       \* places the sides of the work envelope may have
          Turns        \* gc_block.arc_turns: negative for clockwise arcs

VARIABLE move

Radius == 5

Upper == << [x |-> 5, y |-> 0], [x |-> 4, y |-> 3], [x |-> 3, y |-> 4],
            [x |-> 0, y |-> 5], [x |-> -3, y |-> 4], [x |-> -4, y |-> 3] >>

\* The points of the circle, counterclockwise.
Circle == Upper \o [i \in 1..6 |-> [x |-> -Upper[i].x, y |-> -Upper[i].y]]

Points == {Circle[i] : i \in 1..12}

\* check_travel_limits
Within(e, p) == /\ e.min.x <= p.x /\ p.x <= e.max.x
                /\ e.min.y <= p.y /\ p.y <= e.max.y

Init ==
    /\ move \in [from : Points, to : Points, turns : Turns,
                 envelope : [min : [x : Sides, y : Sides], max : [x : Sides, y : Sides]]]
    /\ Within(move.envelope, move.from)

Next == UNCHANGED move
Spec == Init /\ [][Next]_move

-----------------------------------------------------------------------------
(* check_arc_travel_limits *)

\* Clockwise arcs are taken counterclockwise, from their end.
Counterclockwise(m) == IF m.turns > 0 THEN <<m.from, m.to>> ELSE <<m.to, m.from>>

\* The half turn the arc starts in is told by y, the quadrant by x.
Quadrant(p) == CASE p.y >= 0 /\ p.x > 0  -> 1
                 [] p.y >= 0 /\ p.x <= 0 -> 2
                 [] p.y < 0 /\ p.x < 0   -> 3
                 [] OTHER                -> 4

\* The end on an axis is in the quadrant before it, for the arc comes from there.
EndQuadrant(quadrant, p) ==
    IF p.y < 0 /\ p.x = 0 /\ quadrant # 4 THEN 3 ELSE Quadrant(p)

All == {"pos_y", "neg_x", "neg_y", "pos_x"}

\* The axis between a quadrant and the next one.
Leaving(quadrant) == <<"pos_y", "neg_x", "neg_y", "pos_x">>[quadrant]

\* The axes the arc crosses.
Crossed(m) ==
    LET start == Counterclockwise(m)[1]
        end == Counterclockwise(m)[2]
        q == Quadrant(start)
        r == EndQuadrant(q, end)
    IN CASE m.turns > 1 -> All
         [] q = r       -> IF (IF q < 3 THEN end.x >= start.x ELSE end.x <= start.x) THEN All ELSE {}
         [] OTHER       -> {Leaving(i) : i \in IF q < r THEN q..(r - 1) ELSE (q..4) \cup (1..(r - 1))}

Lesser(a, b) == IF a < b THEN a ELSE b
Greater(a, b) == IF a > b THEN a ELSE b

\* Two corners of the box around the arc are checked.
Corners(m) ==
    LET c == Crossed(m)
    IN { [x |-> IF "neg_x" \in c THEN -Radius ELSE Lesser(m.from.x, m.to.x),
          y |-> IF "neg_y" \in c THEN -Radius ELSE Greater(m.from.y, m.to.y)],
         [x |-> IF "pos_x" \in c THEN Radius ELSE Greater(m.from.x, m.to.x),
          y |-> IF "pos_y" \in c THEN Radius ELSE Lesser(m.from.y, m.to.y)] }

ArcAccepted(m) == \A p \in Corners(m) : Within(m.envelope, p)

-----------------------------------------------------------------------------
(* clip_3d_target, apply_travel_limits: a jog goes as far as it can along  *)
(* its line.  A point of the line is the fraction n/d of the way to the    *)
(* target; Z is clipped as Y is.                                           *)

Scaled(m, s, axis) == s.d * m.from[axis] + s.n * (m.to[axis] - m.from[axis])

\* The fraction at which the line meets a side.
Meets(m, side, axis) ==
    IF m.to[axis] < m.from[axis] THEN [n |-> m.from[axis] - side, d |-> m.from[axis] - m.to[axis]]
    ELSE [n |-> side - m.from[axis], d |-> m.to[axis] - m.from[axis]]

ClipAxis(m, s, axis) ==
    CASE Scaled(m, s, axis) < s.d * m.envelope.min[axis] -> Meets(m, m.envelope.min[axis], axis)
      [] Scaled(m, s, axis) > s.d * m.envelope.max[axis] -> Meets(m, m.envelope.max[axis], axis)
      [] OTHER -> s

ClipTarget(m) == ClipAxis(m, ClipAxis(m, [n |-> 1, d |-> 1], "x"), "y")

-----------------------------------------------------------------------------
(* Properties *)

Index(p) == CHOOSE i \in 1..12 : Circle[i] = p

\* The points the tool passes.
Passed(m) ==
    LET first == Index(IF m.turns > 0 THEN m.from ELSE m.to)
        last == Index(IF m.turns > 0 THEN m.to ELSE m.from)
        steps == IF m.turns \notin {-1, 1} \/ first = last THEN 12 ELSE (last - first + 12) % 12
    IN {Circle[((first - 1 + k) % 12) + 1] : k \in 0..steps}

ArcInside(m) == \A p \in Passed(m) : Within(m.envelope, p)

\* An arc that stays inside the envelope is not refused: refusing one ends the
\* program with an alarm (check_arc_travel_limits).
NoFalseAlarm == ArcInside(move) => ArcAccepted(move)

\* A jog ends inside the envelope, on the line it was asked for, and goes as far
\* as it can: it is clipped only by a side that it reaches (clip_3d_target).
JogOnItsLine ==
    LET s == ClipTarget(move)
    IN /\ 0 <= s.n /\ s.n <= s.d
       /\ \A axis \in {"x", "y"} :
            /\ s.d * move.envelope.min[axis] <= Scaled(move, s, axis)
            /\ Scaled(move, s, axis) <= s.d * move.envelope.max[axis]
       /\ s.n = s.d \/ \E axis \in {"x", "y"} :
            Scaled(move, s, axis) \in {s.d * move.envelope.min[axis], s.d * move.envelope.max[axis]}

\* The box is too low or too high by what the two corners confuse; clockwise
\* arcs of several turns are taken for partial ones.
OneSided(m) == ("pos_y" \in Crossed(m)) # ("neg_y" \in Crossed(m))
Misjudged(m) == OneSided(m) \/ m.turns < -1

\* All other arcs are accepted only if they stay inside, whichever quadrants
\* they begin and end in, by however many turns (check_arc_travel_limits).
ArcsJudged == ArcAccepted(move) /\ ~Misjudged(move) => ArcInside(move)

LimitsSound == NoFalseAlarm /\ ArcsJudged /\ JogOnItsLine

\* "Checks and reports if the arc exceeds machine travel limits. Returns false
\* if check failed." (machine_limits.c:681)
ArcsChecked == ArcAccepted(move) => ArcInside(move)
=============================================================================
