--------------------------- MODULE SegmentBuffer ---------------------------
(***************************************************************************)
(* planner.c and stepper.c: the ring of planned motions, the ring of step  *)
(* segments made from the first of them, and the stepper interrupt that    *)
(* executes segments while the foreground prepares, holds, parks or        *)
(* replans.  A length is a number of steps; speeds decide only how many    *)
(* steps a segment has, so that is chosen freely.                          *)
(*                                                                         *)
(* The interrupt comes between any two segments that are prepared.  The    *)
(* foreground keeps ahead of it, as stepper.c:792-795 says it is sized to: *)
(* the buffer runs empty only when there is nothing left to prepare.       *)
(* Protocol looks at what happens when it does not.                        *)
(***************************************************************************)
EXTENDS Integers, Sequences, FiniteSets, FiniteSetsExt

CONSTANTS SegmentBufferSize,  \* SEGMENT_BUFFER_SIZE
          PlannerSlots,       \* block_buffer_size + 1
          MaxSteps,           \* steps of the longest motion
          MaxMotions,         \* bound on the motions of a behaviour
          ParkingEnabled,     \* settings.parking.flags.enabled
          Cancels             \* SUBSET {"fast", "slow"}: how motions are cancelled

ASSUME SizesAssumption == SegmentBufferSize \in Nat /\ SegmentBufferSize > 3
                          /\ PlannerSlots \in Nat /\ PlannerSlots > 1
                          /\ MaxSteps \in Nat \ {0} /\ MaxMotions \in Nat
                          /\ ParkingEnabled \in BOOLEAN
                          /\ Cancels \subseteq {"fast", "slow"}

Slots == 0 .. PlannerSlots - 1
Segments == 0 .. SegmentBufferSize - 1
StBlocks == 0 .. SegmentBufferSize - 2

NextSlot(i) == (i + 1) % PlannerSlots
NextSegment(i) == (i + 1) % SegmentBufferSize

\* Mutant: one block too few.
NextStBlockEarly(i) == (i + 1) % (SegmentBufferSize - 2)
NextStBlock(i) == (i + 1) % (SegmentBufferSize - 1)

\* How far it is from one slot, or segment, to another.
SlotsTo(i, j) == (j - i + PlannerSlots) % PlannerSlots
SegmentsTo(i, j) == (j - i + SegmentBufferSize) % SegmentBufferSize

None == -1
System == 0                   \* the motion number of a parking motion
Motions == System .. MaxMotions

VARIABLES
    plan,     \* planner.c: block ring, tail, head, planned
    prep,     \* stepper.c: st_prep_t, pl_block and st_prep_block
    blocks,   \* st_block_buffer: the motion each holds the data of
    ring,     \* segment_buffer with segment_buffer_tail and _head
    st,       \* the stepper interrupt's segment, block and step count
    control,  \* sys.step_control
    state,    \* what the state machine waits for
    fg,       \* "prep" while the foreground is in st_prep_buffer
    count     \* motions buffered so far

vars == <<plan, prep, blocks, ring, st, control, state, fg, count>>

NoControl == [exHold |-> FALSE, exSys |-> FALSE, endMotion |-> FALSE]
NoFlags == [velocity |-> FALSE, partial |-> FALSE, parking |-> FALSE]

AtRest == [stepping |-> FALSE, block |-> None, steps |-> 0, motion |-> System,
           complete |-> FALSE]

\* The content of a slot or a segment that is not in use is not kept.
NoSegment == [block |-> 0, steps |-> 0, motion |-> System]
NoMotion == [motion |-> System, left |-> 0, total |-> 0]
NoRing == [seg |-> [i \in Segments |-> NoSegment], tail |-> 0, head |-> 0]
NoPlan == [slot |-> [i \in Slots |-> NoMotion], tail |-> 0, head |-> 0, planned |-> 0]

\* st_reset
StReset ==
    /\ prep' = [block |-> None, st |-> 0, left |-> 0, flags |-> NoFlags,
                lastSt |-> 0, lastLeft |-> 0, copy |-> System]
    /\ ring' = NoRing
    /\ st' = AtRest
    /\ UNCHANGED blocks

\* plan_reset
PlanReset == plan' = NoPlan

Init ==
    /\ plan = NoPlan
    /\ prep = [block |-> None, st |-> 0, left |-> 0, flags |-> NoFlags,
               lastSt |-> 0, lastLeft |-> 0, copy |-> System]
    /\ blocks = [i \in StBlocks |-> System]
    /\ ring = NoRing
    /\ st = AtRest
    /\ control = NoControl /\ state = "idle" /\ fg = "main" /\ count = 0

-----------------------------------------------------------------------------
(* planner.c                                                               *)

\* plan_get_current_block
Empty == plan.tail = plan.head

\* plan_check_full_buffer
Full == plan.tail = NextSlot(plan.head)

\* The slots from i up to the head, where the planned pointer may be pushed.
Ahead(p, i) == {j \in Slots : SlotsTo(i, j) < SlotsTo(i, p.head)}

\* st_update_plan_block_parameters(false)
Updated(r) ==
    IF r.block = None THEN r
    ELSE [r EXCEPT !.flags.velocity = TRUE, !.block = None]

\* planner_recalculate: the reverse pass tells the stepper when it reaches the
\* tail; the forward pass pushes the planned pointer as far as speeds allow.
Last(p) == (p.head + PlannerSlots - 1) % PlannerSlots

Recalculated(p, r) ==
    IF Last(p) # p.planned /\ p.planned = p.tail THEN Updated(r) ELSE r

Planned(p) == IF Last(p) = p.planned THEN {p.planned} ELSE Ahead(p, p.planned)

\* plan_buffer_line for a motion of the program.
BufferLine ==
    /\ fg = "main" /\ state \in {"idle", "cycle"} /\ ~Full /\ count < MaxMotions
    /\ \E n \in 1 .. MaxSteps :
          LET p == [plan EXCEPT
                      !.slot[plan.head] = [motion |-> count + 1, left |-> n, total |-> n],
                      !.head = NextSlot(@)]
          IN /\ \E i \in Planned(p) : plan' = [p EXCEPT !.planned = i]
             /\ prep' = Recalculated(p, prep)
    /\ count' = count + 1
    /\ UNCHANGED <<blocks, ring, st, control, state, fg>>

\* plan_cycle_reinitialize
CycleReinitialize(r) ==
    LET p == [plan EXCEPT !.planned = plan.tail]
        u == Updated(r)
    IN IF Empty THEN plan' = p /\ prep' = u
       ELSE /\ \E i \in Planned(p) : plan' = [p EXCEPT !.planned = i]
            /\ prep' = Recalculated(p, u)

\* plan_feed_override
FeedOverride ==
    /\ fg = "main" /\ ~Empty /\ state \notin {"start", "park_start"}
    /\ CycleReinitialize(prep)
    /\ UNCHANGED <<blocks, ring, st, control, state, fg, count>>

\* Mutant: the planned pointer is not pushed.
DiscardedOnly(p) == [p EXCEPT !.slot[p.tail] = NoMotion, !.tail = NextSlot(@)]

\* plan_discard_current_block
Discarded(p) ==
    [p EXCEPT !.planned = IF @ = p.tail THEN NextSlot(@) ELSE @,
              !.slot[p.tail] = NoMotion, !.tail = NextSlot(@)]

-----------------------------------------------------------------------------
(* st_prep_buffer: one action for each turn of its loop.                   *)

Room == NextSegment(ring.head) # ring.tail

Preparing == state \in {"start", "cycle", "hold", "cancel", "park", "park_start", "park_stop"}

\* Called last by protocol_exec_rt_system: the end of a cycle is seen to first.
EnterPrep ==
    /\ fg = "main" /\ Preparing /\ ~control.endMotion /\ Room
    /\ ~st.complete
    /\ fg' = "prep"
    /\ UNCHANGED <<plan, prep, blocks, ring, st, control, state, count>>

LeavePrep ==
    /\ fg = "prep"
    /\ \/ ~Room
       \/ prep.block = None /\ ~control.exSys /\ Empty
    /\ fg' = "main"
    /\ UNCHANGED <<plan, prep, blocks, ring, st, control, state, count>>

\* A planner block is loaded into the next stepper block, or the plan of the
\* one being prepared is computed anew.
LoadBlock ==
    /\ fg = "prep" /\ Room /\ prep.block = None /\ (control.exSys \/ ~Empty)
    /\ LET slot == IF control.exSys THEN plan.head ELSE plan.tail
           flags == IF ParkingEnabled /\ prep.flags.parking
                    THEN [prep.flags EXCEPT !.velocity = FALSE] ELSE NoFlags
           next == NextStBlock(prep.st)
       IN IF prep.flags.velocity
          THEN /\ prep' = [prep EXCEPT !.block = slot, !.flags = flags]
               /\ UNCHANGED blocks
          ELSE /\ blocks' = [blocks EXCEPT ![next] = plan.slot[slot].motion]
               /\ prep' = [prep EXCEPT !.block = slot, !.st = next,
                                       !.left = plan.slot[slot].total]
    /\ UNCHANGED <<plan, ring, st, control, state, fg, count>>

\* Mutant: the end of the motion is not flagged.
BailOutSilently ==
    /\ fg = "prep" /\ Room /\ prep.block # None
    /\ control.exHold /\ prep.left = plan.slot[prep.block].left
    /\ fg' = "main"
    /\ UNCHANGED <<plan, prep, blocks, ring, st, control, state, count>>

\* Less than a step left to zero speed in a hold: no segment is made.
BailOut ==
    /\ fg = "prep" /\ Room /\ prep.block # None
    /\ control.exHold /\ prep.left = plan.slot[prep.block].left
    /\ control' = [control EXCEPT !.endMotion = TRUE]
    /\ prep' = [prep EXCEPT !.flags.partial =
                   @ \/ (ParkingEnabled /\ ~prep.flags.parking)]
    /\ fg' = "main"
    /\ UNCHANGED <<plan, blocks, ring, st, state, count>>

\* A segment of as many steps as the speeds allow.  A forced deceleration may
\* end within the block; otherwise the last segment ends it.
AddSegment ==
    /\ fg = "prep" /\ Room /\ prep.block # None
    /\ \E left \in 0 .. plan.slot[prep.block].left, forced \in BOOLEAN :
          LET slot == prep.block
              steps == prep.left - left
              ends == left = 0
              new == [block |-> prep.st, steps |-> steps,
                      motion |-> plan.slot[slot].motion]
              advanced == [prep EXCEPT !.left = left]
              consumed == [plan EXCEPT !.slot[slot].left = left]
          IN /\ steps > 0 /\ (forced => control.exHold /\ ~ends)
             /\ ring' = [ring EXCEPT !.seg[ring.head] = new,
                                     !.head = NextSegment(@)]
             /\ IF forced
                THEN /\ prep' = [advanced EXCEPT !.flags.partial =
                                    @ \/ (ParkingEnabled /\ ~prep.flags.parking)]
                     /\ plan' = consumed
                ELSE IF ends /\ ~control.exSys
                THEN /\ prep' = [advanced EXCEPT !.block = None]
                     /\ plan' = Discarded(consumed)
                ELSE prep' = advanced /\ plan' = consumed
             /\ control' = [control EXCEPT !.endMotion =
                               @ \/ forced \/ (ends /\ control.exSys)]
             /\ fg' = IF control'.endMotion THEN "main" ELSE "prep"
    /\ UNCHANGED <<blocks, st, state, count>>

-----------------------------------------------------------------------------
(* stepper_driver_interrupt_handler                                        *)

\* Make a step.  With the last of a segment it is given back.
Stepped(s) ==
    /\ st' = [s EXCEPT !.steps = @ - 1]
    /\ ring' = IF s.steps = 1
               THEN [ring EXCEPT !.seg[ring.tail] = NoSegment, !.tail = NextSegment(@)]
               ELSE ring

\* Load the next segment if none is being executed, its block's data only if it
\* is another block than before, and make a step.
StepInterrupt ==
    /\ st.stepping
    /\ st.steps > 0 \/ ring.tail # ring.head
    /\ LET seg == ring.seg[ring.tail]
       IN Stepped(IF st.steps > 0 THEN st
                  ELSE [st EXCEPT !.block = seg.block,
                                  !.steps = seg.steps,
                                  !.motion = IF st.block = seg.block THEN @
                                             ELSE blocks[seg.block]])
    /\ UNCHANGED <<plan, prep, blocks, control, state, fg, count>>

\* The buffer is empty.  st_prep_buffer keeps up with the stepper, so there is
\* nothing left to prepare.
NothingToPrepare ==
    \/ ~Preparing
    \/ control.endMotion
    \/ prep.block = None /\ ~control.exSys /\ Empty

SegmentsExhausted ==
    /\ st.stepping /\ st.steps = 0 /\ ring.tail = ring.head
    /\ NothingToPrepare
    /\ st' = [AtRest EXCEPT !.complete = TRUE]
    /\ UNCHANGED <<plan, prep, blocks, ring, control, state, fg, count>>

-----------------------------------------------------------------------------
(* What the state machine does with them.                                  *)

Main(s) == fg = "main" /\ state = s

\* A cycle complete is taken.
Completed == st.complete /\ st' = [st EXCEPT !.complete = FALSE]

\* state_set(STATE_CYCLE), from idle or by a resume: prepare, then wake up.
\* The handlers of a resume clear step_control.
CycleStart ==
    /\ fg = "main" /\ state \in {"idle", "held", "parked"}
    /\ state = "idle" => ~Empty
    /\ state' = IF Empty THEN "idle" ELSE "start"
    /\ control' = NoControl
    /\ UNCHANGED <<plan, prep, blocks, ring, st, fg, count>>

\* st_wake_up, when st_prep_buffer has returned.
WakeUp ==
    /\ fg = "main" /\ state \in {"start", "park_start"}
    /\ control.endMotion \/ ~Room \/ (prep.block = None /\ ~control.exSys /\ Empty)
    /\ st' = [st EXCEPT !.stepping = TRUE]
    /\ state' = IF state = "start" THEN "cycle" ELSE "park"
    /\ UNCHANGED <<plan, prep, blocks, ring, control, fg, count>>

CycleComplete ==
    /\ Main("cycle") /\ Completed
    /\ state' = "idle" /\ control' = NoControl
    /\ UNCHANGED <<plan, prep, blocks, ring, fg, count>>

\* initiate_hold
InitiateHold ==
    /\ Main("cycle") /\ ~st.complete
    /\ prep' = Updated(prep)
    /\ control' = [control EXCEPT !.exHold = TRUE] /\ state' = "hold"
    /\ UNCHANGED <<plan, blocks, ring, st, fg, count>>

\* state_await_hold; a door opened or a hold when idle needs not wait.
HoldComplete ==
    /\ (Main("hold") /\ Completed) \/ (Main("idle") /\ UNCHANGED st)
    /\ CycleReinitialize(prep)
    /\ control' = NoControl /\ state' = "held"
    /\ UNCHANGED <<blocks, ring, fg, count>>

\* mc_parking_motion with st_parking_setup_buffer
ParkingMotion ==
    /\ ParkingEnabled /\ fg = "main" /\ state \in {"held", "parked"}
    /\ \E n \in 1 .. MaxSteps :
          plan' = [plan EXCEPT !.slot[plan.head] =
                      [motion |-> System, left |-> n, total |-> n]]
    /\ prep' = LET saves == prep.flags.partial /\ ~prep.flags.parking
                   saved == IF saves
                            THEN [prep EXCEPT !.lastSt = prep.st, !.copy = blocks[prep.st],
                                              !.lastLeft = prep.left]
                            ELSE prep
               IN [saved EXCEPT !.flags.parking = TRUE, !.flags.velocity = FALSE,
                                !.block = None]
    /\ control' = [control EXCEPT !.exSys = TRUE, !.endMotion = FALSE]
    /\ state' = "park_start"
    /\ UNCHANGED <<blocks, ring, st, fg, count>>

Partial == [NoFlags EXCEPT !.partial = TRUE, !.velocity = TRUE]

\* Mutant: the block is loaded anew, as after a parking motion between motions.
RestoreBufferAnew(r) == [r EXCEPT !.flags = NoFlags, !.block = None]

\* st_parking_restore_buffer: the registers of the stepper, and its block.
RestoreBuffer(r) ==
    IF r.flags.partial
    THEN [r EXCEPT !.st = r.lastSt, !.left = r.lastLeft, !.block = None,
                   !.lastSt = 0, !.lastLeft = 0, !.copy = System, !.flags = Partial]
    ELSE [r EXCEPT !.flags = NoFlags, !.block = None]

RestoredBlocks(r) ==
    IF r.flags.partial THEN [blocks EXCEPT ![r.lastSt] = r.copy] ELSE blocks

\* state_await_resume and the other handlers that end a parking motion.
ParkingComplete ==
    /\ Main("park") /\ Completed
    /\ prep' = RestoreBuffer(prep) /\ blocks' = RestoredBlocks(prep)
    /\ control' = [control EXCEPT !.exSys = FALSE] /\ state' = "parked"
    /\ UNCHANGED <<plan, ring, fg, count>>

\* restart_retract: the door is opened on the way back.
RestartRetract ==
    /\ Main("park") /\ ~st.complete
    /\ prep' = Updated(prep)
    /\ control' = [control EXCEPT !.exHold = TRUE] /\ state' = "park_stop"
    /\ UNCHANGED <<plan, blocks, ring, st, fg, count>>

\* state_await_restart_retract and state_await_hold
RetractRestarted ==
    /\ Main("park_stop") /\ Completed
    /\ blocks' = RestoredBlocks(prep)
    /\ CycleReinitialize(RestoreBuffer(prep))
    /\ control' = NoControl /\ state' = "held"
    /\ UNCHANGED <<ring, fg, count>>

\* st_update_plan_block_parameters(true): a fast hold gives up the segments of a
\* full buffer that are not needed to decelerate, and keeps one more when the one
\* being executed is at its end.  exec_fast_hold is set here, and reset before it
\* is looked at.
Kept ==
    {h \in Segments :
        SegmentsTo(ring.tail, h) \in (IF st.steps > 0 THEN 2 ELSE 3)
                                      .. SegmentsTo(ring.tail, ring.head)}

\* state_cycle with EXEC_MOTION_CANCEL (a jog, a probe) or
\* EXEC_MOTION_CANCEL_FAST (the stop command)
MotionCancel ==
    /\ Main("cycle") /\ ~st.complete
    /\ \/ "slow" \in Cancels /\ UNCHANGED ring
       \/ "fast" \in Cancels /\ \E h \in IF Room THEN {ring.head} ELSE Kept :
                                   ring' = [ring EXCEPT !.head = h]
    /\ prep' = Updated(prep)
    /\ control' = [control EXCEPT !.exHold = TRUE] /\ state' = "cancel"
    /\ UNCHANGED <<plan, blocks, st, fg, count>>

\* A reset at any moment.
Flush ==
    /\ fg = "main"
    /\ PlanReset /\ StReset
    /\ control' = NoControl /\ state' = "idle"
    /\ UNCHANGED <<fg, count>>

\* The end of a cancelled motion: plan_reset and st_reset.
MotionCancelled == Main("cancel") /\ st.complete /\ Flush

Foreground ==
    \/ BufferLine \/ FeedOverride \/ EnterPrep \/ LeavePrep \/ LoadBlock
    \/ BailOut \/ AddSegment \/ CycleStart \/ WakeUp \/ CycleComplete
    \/ InitiateHold \/ HoldComplete \/ ParkingMotion \/ ParkingComplete
    \/ RestartRetract \/ RetractRestarted \/ MotionCancel \/ MotionCancelled

Next == Foreground \/ Flush \/ StepInterrupt \/ SegmentsExhausted

Spec == Init /\ [][Next]_vars

Prepare == EnterPrep \/ LeavePrep \/ LoadBlock \/ BailOut \/ AddSegment
Complete == CycleComplete \/ HoldComplete \/ ParkingComplete \/ RetractRestarted
            \/ MotionCancelled \/ WakeUp

\* The foreground comes round to st_prep_buffer and to its requests, and the
\* step timer fires while it is enabled.
LiveSpec ==
    Spec /\ WF_vars(Prepare) /\ WF_vars(Complete)
         /\ WF_vars(StepInterrupt \/ SegmentsExhausted)

-----------------------------------------------------------------------------
(* Properties                                                              *)

Queued == {i \in Segments : SegmentsTo(ring.tail, i) < SegmentsTo(ring.tail, ring.head)}

Flags == [velocity : BOOLEAN, partial : BOOLEAN, parking : BOOLEAN]

\* Pointers stay in their rings, and counts of steps are counts of steps.
TypeOK ==
    /\ plan \in [slot : [Slots -> [motion : Motions, left : 0 .. MaxSteps,
                                     total : 0 .. MaxSteps]],
                  tail : Slots, head : Slots, planned : Slots]
    /\ prep \in [block : Slots \union {None}, st : StBlocks, left : 0 .. MaxSteps,
                  flags : Flags, lastSt : StBlocks, lastLeft : 0 .. MaxSteps,
                  copy : Motions]
    /\ blocks \in [StBlocks -> Motions]
    /\ ring \in [seg : [Segments -> [block : StBlocks, steps : 0 .. MaxSteps,
                                       motion : Motions]],
                  tail : Segments, head : Segments]
    /\ st \in [stepping : BOOLEAN, block : StBlocks \union {None},
                steps : 0 .. MaxSteps, motion : Motions, complete : BOOLEAN]
    /\ control \in [exHold : BOOLEAN, exSys : BOOLEAN, endMotion : BOOLEAN]
    /\ state \in {"idle", "start", "cycle", "hold", "held", "cancel", "park_start",
                   "park", "park_stop", "parked"}
    /\ fg \in {"main", "prep"} /\ count \in 0 .. MaxMotions

\* A segment is executed with the data of the motion it was made from: the block
\* it refers to is not reused for another motion before the interrupt has loaded
\* the segment (stepper.c:55-57 promises that SEGMENT_BUFFER_SIZE - 1 blocks are
\* enough), also when a parking motion takes blocks in the middle of a motion.
BlocksIntact ==
    /\ \A i \in Queued \ (IF st.steps > 0 THEN {ring.tail} ELSE {}) :
          blocks[ring.seg[i].block] = ring.seg[i].motion
    /\ st.steps > 0 => st.motion = ring.seg[ring.tail].motion

\* The planned pointer stays between tail and head although the stepper
\* discards blocks under it (planner.c:97-101): the planner would otherwise walk
\* the ring from a block that is not in it.
PlannedInside == SlotsTo(plan.tail, plan.planned) <= SlotsTo(plan.tail, plan.head)

\* What was decelerating stops: a hold, an interrupted parking motion and a
\* cancel end, also within a block (st_prep_buffer flags the end of the motion)
\* or less than a step before it (stepper.c:1203-1211).
StoppingEnds == state \in {"hold", "park_stop", "cancel"} ~> state \in {"held", "idle"}

\* The steps of segment i that are still to be made, and of motion n, in
\* segments and in the planner.
StepsIn(i) == IF i = ring.tail /\ st.steps > 0 THEN st.steps ELSE ring.seg[i].steps

Remaining(n) ==
    MapThenSumSet(StepsIn, {i \in Queued : ring.seg[i].motion = n})
    + MapThenSumSet(LAMBDA j : plan.slot[j].left,
                    {j \in Ahead(plan, plan.tail) : plan.slot[j].motion = n})

\* A cancelled motion is given up when the cancel is accepted.
Pending == IF state = "cancel" THEN <<>>
           ELSE SelectSeq([n \in 1 .. count |-> Remaining(n)], LAMBDA k : k > 0)

Queue == INSTANCE StepQueue WITH pending <- Pending

\* Planner and segment buffer execute each motion in order and step by step to
\* its end, through holds, parking motions and overrides at any moment: no step
\* is lost, made twice or made for the wrong motion.
ImplementsStepQueue == Queue!Spec
=============================================================================
