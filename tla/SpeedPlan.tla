------------------------------ MODULE SpeedPlan ------------------------------
(***************************************************************************)
(* The speeds of planned motions (planner.c) and those the segment         *)
(* generator makes of them (stepper.c).  A speed is given by its square    *)
(* and a distance by 2 * acceleration * millimeters, what the square of    *)
(* the speed can change over it; so all that is computed is sums.          *)
(*                                                                         *)
(* Motions are planned with the end of the last at rest.  The first may    *)
(* be being executed, from a profile made when it was loaded: the planner  *)
(* changes what follows, and calls for a new profile only when it has to.  *)
(* Holds stop in the middle, overrides change the nominal speeds of all.   *)
(***************************************************************************)
EXTENDS Integers, Sequences, FiniteSetsExt

CONSTANTS Lengths,    \* of motions
          Junctions,  \* junction speeds, by the angle between two motions
          Nominals,   \* tuples: the nominal speed of a motion at each override
          Slots,      \* block_buffer_size
          MaxBlocks   \* motions in a behaviour, a bound

VARIABLES p,     \* planner.c and st_prep_t
          count  \* motions so far

Least(a, b) == IF a < b THEN a ELSE b
Gap(a, b) == IF a < b THEN b - a ELSE a - b
Size == Len(p.queue)

Init ==
    /\ count = 0
    /\ \E override \in {1, 2} :
       p = [queue |-> << >>, planned |-> 1, prevNominal |-> 0, override |-> override,
            loaded |-> FALSE,         \* pl_block # NULL
            reload |-> FALSE,         \* prep.recalculate.velocity_profile
            decelOverride |-> FALSE,  \* prep.recalculate.decel_override
            speed |-> 0,              \* prep.current_speed
            exit |-> 0,               \* prep.exit_speed
            complete |-> 0,           \* prep.mm_complete
            hold |-> "no",
            lowered |-> FALSE]        \* history: an override was lowered

-----------------------------------------------------------------------------
(* The plan *)

\* plan_compute_profile_parameters
Limited(block, nominal, prevNominal) ==
    [block EXCEPT !.max = Least(Least(nominal, prevNominal), block.junction)]

\* st_update_plan_block_parameters: the motion being executed is planned from where it
\* is, at the speed it has, and gets a new profile.
Updated(x) ==
    IF x.loaded THEN [x EXCEPT !.reload = TRUE, !.queue[1].entry = x.speed, !.loaded = FALSE] ELSE x

\* The reverse pass: entry speeds from which what follows can be braked for.
Back(q, planned) ==
    LET back[i \in planned + 1 .. Len(q)] ==
            IF i = Len(q) THEN Least(q[i].max, q[i].length)
            ELSE IF q[i].entry = q[i].max THEN q[i].entry
            ELSE Least(back[i + 1] + q[i].length, q[i].max)
    IN back

\* The forward pass: those that can be reached.
Forward(q, planned, back) ==
    LET entry[i \in planned .. Len(q)] ==
            IF i = planned THEN q[i].entry ELSE Least(back[i], entry[i - 1] + q[i - 1].length)
    IN entry

\* planner_recalculate.  What comes before a motion that is entered at the end of an
\* acceleration, or at its limit, cannot become better.
Recalculate(x) ==
    IF x.planned = Len(x.queue) THEN x
    ELSE LET y == IF x.planned = 1 THEN Updated(x) ELSE x
             q == y.queue
             back == Back(q, y.planned)
             entry == Forward(q, y.planned, back)
             optimal == {i \in y.planned + 1 .. Len(q) : entry[i] < back[i] \/ entry[i] = q[i].max}
         IN [y EXCEPT !.queue = [i \in 1 .. Len(q) |-> IF i > y.planned THEN [q[i] EXCEPT !.entry = entry[i]]
                                                       ELSE q[i]],
                      !.planned = IF optimal = {} THEN @ ELSE Max(optimal)]

\* plan_cycle_reinitialize
Reinitialize(x) ==
    LET y == [Updated(x) EXCEPT !.planned = 1]
    IN IF y.queue = << >> THEN y ELSE Recalculate(y)

\* The speed at the junction with the motion before; the first motion starts from rest.
JunctionSpeeds(q) == IF q = << >> THEN {0} ELSE Junctions

\* A new motion at the end of the plan
Added(x, length, nominals, junction) ==
    LET nominal == nominals[x.override]
        block == [length |-> length, nominals |-> nominals, junction |-> junction, max |-> 0, entry |-> 0]
    IN Recalculate([x EXCEPT !.prevNominal = nominal,
                             !.queue = Append(@, Limited(block, nominal, x.prevNominal))])

\* plan_buffer_line.  No lines are executed while the machine holds.
BufferLine ==
    /\ p.hold = "no" /\ Size < Slots /\ count < MaxBlocks
    /\ count' = count + 1
    /\ \E length \in Lengths, nominals \in Nominals, junction \in JunctionSpeeds(p.queue) :
        p' = Added(p, length, nominals, junction)

\* plan_feed_override: the limits of all motions, and a new plan from the first
Override ==
    \E override \in {1, 2} \ {p.override} :
        LET q == p.queue
            n == [i \in 1 .. Size |-> q[i].nominals[override]]
            limits == [i \in 1 .. Size |-> Limited(q[i], n[i], IF i = 1 THEN n[1] ELSE n[i - 1])]
            x == [p EXCEPT !.override = override]
        IN /\ p' = IF q = << >> THEN x
                   ELSE Reinitialize([x EXCEPT !.queue = limits, !.prevNominal = n[Size],
                                               !.lowered = @ \/ override = 2])
           /\ UNCHANGED count

-----------------------------------------------------------------------------
(* Segments *)

Nominal(x) == x.queue[1].nominals[x.override]

\* A motion is entered at the speed planned, or, while the plan is not followed, at the
\* speed the last one ended with.
Entered(x) ==
    IF x.reload THEN [x EXCEPT !.reload = FALSE, !.decelOverride = FALSE, !.loaded = TRUE]
    ELSE LET entry == IF x.hold # "no" \/ x.decelOverride THEN x.exit ELSE x.queue[1].entry
         IN [x EXCEPT !.loaded = TRUE, !.decelOverride = FALSE, !.speed = entry, !.queue[1].entry = entry]

\* A profile that brakes for a hold, to the end of the motion or to rest
HoldProfile(x) ==
    LET left == x.queue[1].length - x.speed
    IN IF left < 0 THEN [x EXCEPT !.complete = 0, !.exit = -left]
       ELSE [x EXCEPT !.complete = left, !.exit = 0]

\* A profile that ends with the speed planned for the next motion, unless the speed is
\* above the nominal speed and stays so
Profile(x) ==
    LET left == x.queue[1].length
        over == x.speed - Nominal(x)
    IN IF over > 0 /\ over >= left
       THEN [x EXCEPT !.complete = 0, !.exit = x.speed - left, !.decelOverride = TRUE]
       ELSE [x EXCEPT !.complete = 0, !.exit = IF Len(x.queue) = 1 THEN 0 ELSE x.queue[2].entry]

\* st_prep_buffer with pl_block = NULL; a hold that has no step to go ends at once.
Load ==
    /\ ~p.loaded /\ p.queue # << >> /\ p.hold \in {"no", "slowing"}
    /\ LET x == Entered(p)
           y == IF x.hold = "no" THEN Profile(x) ELSE HoldProfile(x)
       IN p' = [y EXCEPT !.hold = IF @ = "slowing" /\ y.complete = y.queue[1].length THEN "held" ELSE @]
    /\ UNCHANGED count

\* The speed when `left' of the motion is left: braking all the way, or braking to the
\* nominal speed first, or an acceleration, a cruise and a deceleration.
SpeedAt(x, left) ==
    LET nominal == Nominal(x)
        way == x.queue[1].length - left
        braking == x.speed - way
    IN IF x.hold # "no" \/ x.decelOverride \/ (x.speed > nominal /\ braking > nominal) THEN braking
       ELSE IF x.speed > nominal THEN Least(nominal, x.exit + left)
       ELSE IF x.speed - x.exit >= x.queue[1].length THEN braking
       ELSE Least(Least(x.speed + way, nominal), x.exit + left)

\* One or more segments, to somewhere before the end
Prep ==
    /\ p.loaded /\ p.hold \in {"no", "slowing"}
    /\ \E left \in p.complete + 1 .. p.queue[1].length - 1 :
        p' = [p EXCEPT !.speed = SpeedAt(p, left), !.queue[1].length = left]
    /\ UNCHANGED count

\* The end of a motion, with plan_discard_current_block
PrepEnd ==
    /\ p.loaded /\ p.hold \in {"no", "slowing"} /\ p.complete = 0
    /\ p' = [p EXCEPT !.speed = p.exit, !.loaded = FALSE, !.queue = Tail(@),
                      !.planned = IF @ = 1 THEN 1 ELSE @ - 1]
    /\ UNCHANGED count

\* The end of a hold, in the middle of a motion
PrepHeld ==
    /\ p.loaded /\ p.hold = "slowing" /\ p.complete > 0
    /\ p' = [p EXCEPT !.speed = p.exit, !.queue[1].length = p.complete, !.hold = "held"]
    /\ UNCHANGED count

-----------------------------------------------------------------------------
(* Holds *)

\* state_set(STATE_HOLD)
Hold ==
    /\ p.hold = "no" /\ p.queue # << >>
    /\ p' = [Updated(p) EXCEPT !.hold = "slowing"]
    /\ UNCHANGED count

\* state_await_hold, when the segments have been executed
HoldDone ==
    /\ p.hold = "held" \/ (p.hold = "slowing" /\ p.queue = << >>)
    /\ p' = [Reinitialize(p) EXCEPT !.hold = "complete"]
    /\ UNCHANGED count

CycleStart == p.hold = "complete" /\ p' = [p EXCEPT !.hold = "no"] /\ UNCHANGED count

Next == BufferLine \/ Override \/ Load \/ Prep \/ PrepEnd \/ PrepHeld \/ Hold \/ HoldDone \/ CycleStart

-----------------------------------------------------------------------------
(* What the mechanics of the machine rely on *)

\* Where two motions meet the speed is within what the angle allows, also in a hold and
\* after any override; at the end the machine is at rest.
JunctionsKept ==
    /\ ~p.loaded /\ ~p.reload /\ p.queue # << >> => p.speed <= p.queue[1].junction
    /\ p.queue = << >> /\ ~p.lowered => p.speed = 0

\* The speed planned for a motion is the highest from which every limit to come can be
\* braked for and that can be reached from where the machine is, while nothing but the
\* plan is followed.
Optimal ==
    LET q == p.queue
        at[i \in 1 .. Size] == IF i = 1 THEN 0 ELSE at[i - 1] + q[i - 1].length
        end == at[Size] + q[Size].length
        limit(i) == IF i = 1 THEN (IF p.loaded THEN p.speed ELSE q[1].entry) ELSE q[i].max
    IN p.hold = "no" /\ ~p.lowered =>
        \A i \in 2 .. Size :
            q[i].entry = Min({limit(j) + Gap(at[i], at[j]) : j \in 1 .. Size} \cup {end - at[i]})

PlanSound == JunctionsKept /\ Optimal

\* The way that is made in a step
Way ==
    CASE p.queue = << >> -> 0
      [] Len(p'.queue) < Size -> p.queue[1].length
      [] OTHER -> p.queue[1].length - p'.queue[1].length

\* The speed never changes by more than the way that is made allows: not from one motion
\* to the next, nor when the plan changes under way.  After a lower override it may drop
\* faster, but not rise.
NoJump ==
    /\ p'.speed - p.speed <= Way
    /\ ~p.lowered' => p.speed - p'.speed <= Way
=============================================================================
