----------------------------- MODULE MotionCycles -----------------------------
(***************************************************************************)
(* The motions of motion_control.c that are made of others: drilling       *)
(* cycles, threading, arcs of several turns and splines.  One job runs,    *)
(* line by line (mc_line); a behaviour may end after any line, by a reset. *)
(*                                                                         *)
(* Drilling is along z, down to smaller values; x is the plane.  Threading *)
(* is along z, u being the depth towards the work, from the start of the   *)
(* cycle.  Angles are in quarters of a turn.                               *)
(***************************************************************************)
EXTENDS Integers, Sequences, SequencesExt, FiniteSetsExt

CONSTANTS Drills, Threads, Arcs,  \* jobs as the parser accepts them
          G73Retract,             \* settings.g73_retract
          MinStep, MaxStep, One   \* BEZIER_MIN_STEP, BEZIER_MAX_STEP and the end of a spline

VARIABLES job, m

vars == <<job, m>>

NumPasses(j) == CHOOSE p \in DOMAIN j.docs : j.docs[p] >= j.depth /\ \A q \in 1..(p - 1) : j.docs[q] < j.depth

\* entry, exit: lengths of the tapers, with the sign of the way back
Taper(j, len) == IF j.final > 0 THEN -len ELSE len
Length(j) == j.final + Taper(j, j.entry) + Taper(j, j.exit)

StartZ(j, doc) == (j.depth - doc) * j.infeed

DrillInit == /\ job \in Drills
             /\ m = [at |-> "to_r", x |-> 0, z |-> job.z0, rapid |-> TRUE, spin |-> "on",
                     line |-> 0, left |-> job.repeats, back |-> 0]
ThreadInit == /\ job \in Threads
              /\ m = [at |-> "start", u |-> 0, z |-> 0, rapid |-> TRUE, sync |-> FALSE, hold |-> TRUE,
                      pass |-> 1, left |-> NumPasses(job) + job.spring + 1, doc |-> job.docs[1], cuts |-> << >>]
ArcInit == /\ job \in Arcs
           /\ m = [at |-> "turns", z |-> 0, angle |-> 0, left |-> job.turns - 1,
                   inverse |-> job.inverse, feed |-> 1]
SplineInit == /\ job = [kind |-> "spline"]
              /\ m = [at |-> "try", t |-> 0, new |-> 0, step |-> MaxStep, reduced |-> FALSE]

Init == DrillInit \/ ThreadInit \/ ArcInit \/ SplineInit

Step(kind, at, n) == job.kind = kind /\ m.at = at /\ m' = n /\ UNCHANGED job

-----------------------------------------------------------------------------
(* mc_canned_drill *)

ToR == Step("drill", "to_r", [m EXCEPT !.at = "over", !.z = Max({@, job.r})])

Over == Step("drill", "over", [m EXCEPT !.at = "hole", !.x = 1,
                                        !.back = IF job.toR THEN job.r ELSE m.z])

Hole == Step("drill", "hole",
             IF m.left = 0 THEN [m EXCEPT !.at = "done"]
             ELSE LET z == Min({m.z, job.r})
                  IN [m EXCEPT !.at = "peck", !.z = z, !.line = z, !.left = @ - 1])

\* Mutant: after the rapid motion to the hole, the tool goes on so.
PeckRapid ==
    Step("drill", "peck",
         IF m.line <= job.bottom THEN [m EXCEPT !.at = "next", !.rapid = TRUE]
         ELSE LET z == Max({m.line - job.delta, job.bottom})
              IN [m EXCEPT !.at = "bottom", !.line = z, !.z = z])

Peck ==
    Step("drill", "peck",
         IF m.line <= job.bottom THEN [m EXCEPT !.at = "next", !.rapid = TRUE]
         ELSE LET z == Max({m.line - job.delta, job.bottom})
              IN [m EXCEPT !.at = "bottom", !.line = z, !.z = z, !.rapid = FALSE])

\* Tapping turns back for the way up.
Bottom == Step("drill", "bottom",
               [m EXCEPT !.at = "retract",
                         !.spin = CASE job.off -> "off" [] job.motion = 840 -> "reversed" [] OTHER -> @])

Retract ==
    Step("drill", "retract",
         [m EXCEPT !.at = "restore", !.rapid = job.rapid,
                   !.z = IF job.motion = 730 /\ @ # job.bottom THEN @ + G73Retract ELSE m.back])

Restore == Step("drill", "restore",
                [m EXCEPT !.at = "peck", !.spin = IF job.off \/ job.motion = 840 THEN "on" ELSE @])

NextHole == Step("drill", "next",
                 [m EXCEPT !.at = "hole", !.x = IF m.left > 0 /\ job.incr THEN @ + 1 ELSE @])

Drill == ToR \/ Over \/ Hole \/ Peck \/ Bottom \/ Retract \/ Restore \/ NextHole

-----------------------------------------------------------------------------
(* mc_thread *)

Start == Step("thread", "start", [m EXCEPT !.at = "pass", !.z = StartZ(job, m.doc)])

\* The planner has run empty before spindle synchronization is switched on.
Infeed == Step("thread", "pass",
               IF m.left = 1 THEN [m EXCEPT !.at = "done", !.left = 0]
               ELSE [m EXCEPT !.at = "entry", !.left = @ - 1,
                              !.u = job.peak + m.doc - (IF job.entry > 0 THEN job.depth ELSE 0)])

Cutting == [m EXCEPT !.rapid = FALSE, !.sync = TRUE, !.hold = FALSE]
Entry == Step("thread", "entry",
              IF job.entry > 0
              THEN [Cutting EXCEPT !.at = "main", !.u = @ + job.depth, !.z = @ - Taper(job, job.entry)]
              ELSE [Cutting EXCEPT !.at = "main"])
Main == Step("thread", "main", [m EXCEPT !.at = "exit", !.z = @ + Length(job), !.cuts = Append(@, m.u - job.peak)])
Exit == Step("thread", "exit",
             IF job.exit > 0
             THEN [m EXCEPT !.at = "out", !.u = @ - job.depth, !.z = @ - Taper(job, job.exit)]
             ELSE [m EXCEPT !.at = "out"])

\* Back to where the next pass begins, or out.
Out ==
    LET n == [m EXCEPT !.rapid = TRUE, !.sync = FALSE]
        doc == Min({job.docs[Min({m.pass + 1, Len(job.docs)})], job.depth})
    IN Step("thread", "out",
            IF m.left > 1
            THEN [n EXCEPT !.at = "back", !.pass = @ + 1, !.doc = doc, !.u = doc - job.depth]
            ELSE [n EXCEPT !.at = "pass", !.doc = job.depth, !.u = 0])
Back == Step("thread", "back", [m EXCEPT !.at = "pass", !.z = StartZ(job, m.doc), !.hold = TRUE])

Thread == Start \/ Infeed \/ Entry \/ Main \/ Exit \/ Out \/ Back

-----------------------------------------------------------------------------
(* mc_arc *)

\* The travel of all turns: atan2 corrected for the direction, a full turn for none.
Travel(j) == 4 * (j.turns - 1) + j.angle

\* Segments of a part: with inverse time the feed rate is multiplied, once.
Feed(n, quarters) ==
    LET segments == (quarters * job.segments) \div 4
    IN IF segments > 0 /\ n.inverse THEN [n EXCEPT !.feed = @ * segments, !.inverse = FALSE] ELSE n

\* mc_arc calls itself for every full turn, and draws the rest.
Arc ==
    Step("arc", "turns",
         IF m.left > 0
         THEN [Feed(m, 4) EXCEPT !.left = @ - 1, !.angle = @ + 4, !.z = @ + (job.rise * 4) \div Travel(job)]
         ELSE [Feed(m, job.angle) EXCEPT !.at = "done", !.angle = @ + job.angle, !.z = job.rise])

-----------------------------------------------------------------------------
(* mc_cubic_b_spline: whether a piece is straight enough depends on the curve. *)

Try == Step("spline", "try",
            IF m.t >= One THEN [m EXCEPT !.at = "done"]
            ELSE [m EXCEPT !.at = "reduce", !.new = Min({m.t + m.step, One}), !.reduced = FALSE])

Reduce ==
    \E straight \in BOOLEAN :
        Step("spline", "reduce",
             IF m.new - m.t >= MinStep /\ ~straight
             THEN [m EXCEPT !.new = (m.t + @) \div 2, !.reduced = TRUE]
             ELSE [m EXCEPT !.at = IF m.reduced THEN "line" ELSE "enlarge"])

Enlarge ==
    \E straight \in BOOLEAN :
        LET candidate == m.t + 2 * (m.new - m.t)
        IN Step("spline", "enlarge",
                IF m.new - m.t <= MaxStep /\ candidate < One /\ straight
                THEN [m EXCEPT !.new = candidate]
                ELSE [m EXCEPT !.at = "line"])

Line == Step("spline", "line", [m EXCEPT !.at = "try", !.step = m.new - m.t, !.t = m.new])

Spline == Try \/ Reduce \/ Enlarge \/ Line

Next == Drill \/ Thread \/ Arc \/ Spline

-----------------------------------------------------------------------------
(* What these motions may never do *)

\* Below the retract position the tool only moves up and down, down at the feed rate
\* with the spindle turning as programmed, and taps come back with it reversed.
Drilling ==
    m'.z # m.z \/ m'.x # m.x =>
        /\ m'.x # m.x => m.z >= job.r /\ m'.z = m.z
        /\ m'.z < m.z /\ m'.z < job.r => ~m'.rapid /\ m.spin = "on"
        /\ m'.z > m.z /\ m.at = "retract" /\ job.motion = 840 => ~m'.rapid /\ m.spin = "reversed"

\* Every hole reaches its bottom, and none of its pecks is deeper than the increment.
Drilled == /\ m.at = "next" => m.line = job.bottom /\ m.z >= job.r /\ m.spin = "on"
           /\ m.at = "bottom" => m.line >= job.bottom

\* Rapid motions along a thread are clear of it, and only cuts are synchronized, with
\* holds disabled.
Threading ==
    /\ m'.z # m.z /\ m'.rapid => m.u <= job.peak /\ m'.u = m.u
    /\ m.sync /\ m'.sync => ~m'.rapid /\ ~m'.hold

\* The passes go deeper to the full depth, never below, and it is cut once more for
\* every spring pass.
Threaded ==
    m.at = "done" =>
        /\ \A i \in DOMAIN m.cuts : m.cuts[i] <= job.depth /\ (i > 1 => m.cuts[i - 1] <= m.cuts[i])
        /\ Cardinality({i \in DOMAIN m.cuts : m.cuts[i] = job.depth}) >= 1 + job.spring

\* A helix has the same pitch all over, and ends after the turns asked for.
Pitch == /\ m.z * Travel(job) = job.rise * m.angle
         /\ m.at = "done" => m.angle = Travel(job)

\* The postcondition of a piece, a comment of the source: it ends on the curve, and
\* before its end it is neither too short nor too long.
Pieces == m.at = "line" => /\ m.new <= One
                           /\ m.new < One => m.new - m.t >= MinStep \div 2 /\ m.new - m.t <= MaxStep * 2

CyclesSound ==
    /\ job.kind = "drill" => Drilled
    /\ job.kind = "thread" => Threaded
    /\ job.kind = "arc" => Pitch
    /\ job.kind = "spline" => Pieces
MovesSound == /\ job.kind = "drill" => Drilling
              /\ job.kind = "thread" => Threading
=============================================================================
