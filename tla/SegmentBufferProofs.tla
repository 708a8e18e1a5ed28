------------------------ MODULE SegmentBufferProofs ------------------------
(***************************************************************************)
(* Proofs about SegmentBuffer, for rings of every size, motions of every   *)
(* length and any number of them.                                          *)
(***************************************************************************)
EXTENDS SegmentBuffer, TLAPS

-----------------------------------------------------------------------------
(* The inductive invariant.                                                *)

\* The interrupt never loads a segment without steps.
SegmentsFilled == \A i \in Queued : ring.seg[i].steps > 0

\* The segment being executed is in the ring until its last step.
ExecutedQueued == st.steps > 0 => ring.tail # ring.head

\* System motions are executed while parking, and only then.
SystemWhenParking == control.exSys <=> state \in {"park_start", "park", "park_stop"}

\* st_prep_buffer prepares a block of the program only while there is one.
PreparedExists == prep.block # None /\ ~control.exSys => ~Empty

IInv ==
    /\ TypeOK /\ SegmentsFilled /\ ExecutedQueued /\ SystemWhenParking
    /\ PreparedExists /\ PlannedInside

-----------------------------------------------------------------------------
(* Rings.                                                                  *)

\* The successor, and the distance, in a ring of n.
LEMMA RingSuccessor ==
    ASSUME NEW n \in Nat \ {0}, NEW i \in 0 .. n - 1
    PROVE  (i + 1) % n = IF i = n - 1 THEN 0 ELSE i + 1
<1>1. CASE i = n - 1
    BY <1>1
<1>2. CASE i # n - 1
    BY <1>2
<1> QED BY <1>1, <1>2

LEMMA RingDistance ==
    ASSUME NEW n \in Nat \ {0}, NEW i \in 0 .. n - 1, NEW j \in 0 .. n - 1
    PROVE  (j - i + n) % n = IF i <= j THEN j - i ELSE j - i + n
<1>1. CASE i <= j
    BY <1>1
<1>2. CASE ~(i <= j)
    BY <1>2
<1> QED BY <1>1, <1>2

LEMMA NextSlotIs ==
    ASSUME NEW i \in Slots
    PROVE  NextSlot(i) \in Slots /\ NextSlot(i) = IF i = PlannerSlots - 1 THEN 0 ELSE i + 1
BY RingSuccessor, SizesAssumption DEF Slots, NextSlot

LEMMA NextSegmentIs ==
    ASSUME NEW i \in Segments
    PROVE  /\ NextSegment(i) \in Segments
           /\ NextSegment(i) = IF i = SegmentBufferSize - 1 THEN 0 ELSE i + 1
BY RingSuccessor, SizesAssumption DEF Segments, NextSegment

LEMMA NextStBlockIs ==
    ASSUME NEW i \in StBlocks
    PROVE  NextStBlock(i) \in StBlocks
<1>1. SegmentBufferSize - 1 \in Nat \ {0}
    BY SizesAssumption
<1> QED BY <1>1, RingSuccessor, SizesAssumption DEF StBlocks, NextStBlock

LEMMA SegmentsToIs ==
    ASSUME NEW i \in Segments, NEW j \in Segments
    PROVE  /\ SegmentsTo(i, j) = IF i <= j THEN j - i ELSE j - i + SegmentBufferSize
           /\ SegmentsTo(i, j) \in Nat
BY RingDistance, SizesAssumption DEF Segments, SegmentsTo

LEMMA SlotsToIs ==
    ASSUME NEW i \in Slots, NEW j \in Slots
    PROVE  /\ SlotsTo(i, j) = IF i <= j THEN j - i ELSE j - i + PlannerSlots
           /\ SlotsTo(i, j) \in Nat
BY RingDistance, SizesAssumption DEF Slots, SlotsTo

-----------------------------------------------------------------------------
(* Initial states.                                                         *)

LEMMA InitIInv == Init => IInv
<1> SUFFICES ASSUME Init PROVE IInv
    OBVIOUS
<1> USE SizesAssumption DEF Init, NoPlan, NoRing
<1>1. 0 \in Slots /\ 0 \in Segments /\ 0 \in StBlocks
    BY DEF Slots, Segments, StBlocks
<1>2. TypeOK
    BY <1>1 DEF TypeOK, NoMotion, NoSegment, NoFlags, NoControl, AtRest, Flags, Motions,
                System, None
<1>3. SegmentsFilled
    <2>1. ring.tail = 0 /\ ring.head = 0
        OBVIOUS
    <2>2. \A i \in Segments : ~(SegmentsTo(0, i) < SegmentsTo(0, 0))
        BY <1>1, SegmentsToIs DEF Segments
    <2> QED BY <2>1, <2>2 DEF SegmentsFilled, Queued
<1>4. ExecutedQueued /\ SystemWhenParking /\ PreparedExists
    BY DEF ExecutedQueued, SystemWhenParking, PreparedExists, NoControl, None, AtRest
<1>5. PlannedInside
    BY <1>1, SlotsToIs DEF PlannedInside
<1> QED BY <1>2, <1>3, <1>4, <1>5 DEF IInv

-----------------------------------------------------------------------------
(* The planner's operators.                                                *)

PrepStates ==
    [block : Slots \union {None}, st : StBlocks, left : 0 .. MaxSteps, flags : Flags,
     lastSt : StBlocks, lastLeft : 0 .. MaxSteps, copy : Motions]

\* To give the block up to a new plan keeps the rest of the registers.
LEMMA UpdatedIs ==
    ASSUME NEW r \in PrepStates
    PROVE  Updated(r) \in PrepStates /\ Updated(r).block = None
BY DEF Updated, PrepStates, Flags

LEMMA RecalculatedIs ==
    ASSUME NEW p, NEW r \in PrepStates
    PROVE  /\ Recalculated(p, r) \in PrepStates
           /\ Recalculated(p, r).block \in {None, r.block}
BY UpdatedIs DEF Recalculated

\* A replan of the buffer leaves the ring as it is, and the stepper without a
\* block.
LEMMA Reinitialized ==
    ASSUME TypeOK, NEW r \in PrepStates, CycleReinitialize(r)
    PROVE  /\ plan' \in [slot : {plan.slot}, tail : {plan.tail}, head : {plan.head},
                         planned : Slots]
           /\ PlannedInside'
           /\ prep' \in PrepStates /\ prep'.block = None
<1> DEFINE p == [plan EXCEPT !.planned = plan.tail]
           u == Updated(r)
<1>1. u \in PrepStates /\ u.block = None
    BY UpdatedIs
<1>2. /\ p.slot = plan.slot /\ p.tail = plan.tail /\ p.head = plan.head
      /\ p.planned = plan.tail
      /\ plan.tail \in Slots /\ plan.head \in Slots
    BY DEF TypeOK
<1>3. SlotsTo(plan.tail, plan.tail) = 0
    BY <1>2, SlotsToIs DEF Slots
<1>4. SlotsTo(plan.tail, plan.head) \in Nat
    BY <1>2, SlotsToIs
<1>5. CASE Empty
    <2>1. plan' = p /\ prep' = u
        BY <1>5 DEF CycleReinitialize
    <2>2. /\ plan' \in [slot : {plan.slot}, tail : {plan.tail}, head : {plan.head},
                        planned : Slots]
          /\ plan'.planned = plan.tail
        BY <2>1, <1>2 DEF TypeOK
    <2>3. PlannedInside'
        BY <2>2, <1>3, <1>4 DEF PlannedInside
    <2> QED BY <2>1, <2>2, <2>3, <1>1
<1>6. CASE ~Empty
    <2>1. PICK i \in Planned(p) : plan' = [p EXCEPT !.planned = i]
        BY <1>6 DEF CycleReinitialize
    <2>2. i \in Slots
        BY <2>1, <1>2 DEF Planned, Ahead
    <2>3. i = plan.tail \/ SlotsTo(plan.tail, i) < SlotsTo(plan.tail, plan.head)
        BY <2>1, <1>2 DEF Planned, Ahead
    <2>4. /\ plan' \in [slot : {plan.slot}, tail : {plan.tail}, head : {plan.head},
                        planned : Slots]
          /\ plan'.planned = i
        BY <2>1, <2>2, <1>2 DEF TypeOK
    <2>5. SlotsTo(plan.tail, i) \in Nat
        BY <2>2, <1>2, SlotsToIs
    <2>6. PlannedInside'
        BY <2>3, <2>4, <2>5, <1>3, <1>4 DEF PlannedInside
    <2>7. prep' = Recalculated(p, u)
        BY <1>6 DEF CycleReinitialize
    <2> QED BY <2>4, <2>6, <2>7, <1>1, RecalculatedIs
<1> QED BY <1>5, <1>6

-----------------------------------------------------------------------------
(* Steps.                                                                  *)

\* What leaves the rings alone leaves what is said of them alone.
LEMMA SameSegments ==
    SegmentsFilled /\ ExecutedQueued /\ UNCHANGED <<ring, st>>
        => SegmentsFilled' /\ ExecutedQueued'
BY DEF SegmentsFilled, ExecutedQueued, Queued

LEMMA SamePlan == PlannedInside /\ UNCHANGED plan => PlannedInside'
BY DEF PlannedInside

PlanStates ==
    [slot : [Slots -> [motion : Motions, left : 0 .. MaxSteps, total : 0 .. MaxSteps]],
     tail : Slots, head : Slots, planned : Slots]

\* A pointer pushed within the motions planned stays between tail and head.
LEMMA PushedInside ==
    ASSUME NEW tail \in Slots, NEW head \in Slots, NEW from \in Slots, NEW i \in Slots,
           tail # NextSlot(head),
           SlotsTo(tail, from) <= SlotsTo(tail, head),
           i = from \/ SlotsTo(from, i) < SlotsTo(from, NextSlot(head))
    PROVE  SlotsTo(tail, i) <= SlotsTo(tail, NextSlot(head))
<1> DEFINE next == NextSlot(head)
<1>1. next \in Slots /\ next = IF head = PlannerSlots - 1 THEN 0 ELSE head + 1
    BY NextSlotIs
<1> HIDE DEF next
<1>2. /\ SlotsTo(tail, i) = IF tail <= i THEN i - tail ELSE i - tail + PlannerSlots
      /\ SlotsTo(tail, from) = IF tail <= from THEN from - tail ELSE from - tail + PlannerSlots
      /\ SlotsTo(tail, head) = IF tail <= head THEN head - tail ELSE head - tail + PlannerSlots
      /\ SlotsTo(tail, next) = IF tail <= next THEN next - tail ELSE next - tail + PlannerSlots
      /\ SlotsTo(from, i) = IF from <= i THEN i - from ELSE i - from + PlannerSlots
      /\ SlotsTo(from, next) = IF from <= next THEN next - from ELSE next - from + PlannerSlots
    BY <1>1, SlotsToIs
<1>3. tail # next /\ (i = from \/ SlotsTo(from, i) < SlotsTo(from, next))
    BY DEF next
<1>4. SlotsTo(tail, i) <= SlotsTo(tail, next)
    BY <1>1, <1>2, <1>3, SizesAssumption DEF Slots
<1> QED BY <1>4 DEF next

\* Steps of the planner, called between two calls of st_prep_buffer.
LEMMA BufferLineStep == IInv /\ BufferLine => IInv'
<1> SUFFICES ASSUME IInv, BufferLine PROVE IInv'
    OBVIOUS
<1> USE DEF IInv
<1>1. PICK n \in 1 .. MaxSteps :
         LET p == [plan EXCEPT
                     !.slot[plan.head] = [motion |-> count + 1, left |-> n, total |-> n],
                     !.head = NextSlot(@)]
         IN /\ \E i \in Planned(p) : plan' = [p EXCEPT !.planned = i]
            /\ prep' = Recalculated(p, prep)
    BY DEF BufferLine
<1> DEFINE p == [plan EXCEPT
                   !.slot[plan.head] = [motion |-> count + 1, left |-> n, total |-> n],
                   !.head = NextSlot(@)]
<1>2. PICK i \in Planned(p) : plan' = [p EXCEPT !.planned = i]
    BY <1>1
<1>3. plan \in PlanStates /\ prep \in PrepStates
    BY DEF TypeOK, PlanStates, PrepStates
<1>4. count + 1 \in Motions /\ count + 1 \in 0 .. MaxMotions
    BY SizesAssumption DEF BufferLine, TypeOK, Motions, System
<1>5. [motion |-> count + 1, left |-> n, total |-> n]
         \in [motion : Motions, left : 0 .. MaxSteps, total : 0 .. MaxSteps]
    BY <1>4, SizesAssumption
<1>6. /\ p \in PlanStates
      /\ p.tail = plan.tail /\ p.head = NextSlot(plan.head) /\ p.planned = plan.planned
    BY <1>3, <1>5, NextSlotIs DEF PlanStates
<1> HIDE DEF p
<1>7. i \in Slots /\ (i = p.planned \/ SlotsTo(p.planned, i) < SlotsTo(p.planned, p.head))
    BY <1>2, <1>6 DEF Planned, Ahead, PlanStates
<1>8. /\ plan' \in PlanStates
      /\ plan'.tail = p.tail /\ plan'.head = p.head /\ plan'.planned = i
    BY <1>2, <1>6, <1>7 DEF PlanStates
<1>9. prep' \in PrepStates /\ prep'.block \in {None, prep.block}
    BY <1>1, <1>3, RecalculatedIs DEF p
<1>10. ~Full
    BY DEF BufferLine
<1>11. TypeOK'
    BY <1>8, <1>9, <1>4 DEF TypeOK, BufferLine, PlanStates, PrepStates
<1>12. SegmentsFilled' /\ ExecutedQueued' /\ SystemWhenParking'
    BY SameSegments DEF BufferLine, SystemWhenParking
<1>13. PreparedExists'
    BY <1>6, <1>8, <1>9, <1>10 DEF PreparedExists, Empty, Full
<1>14. PlannedInside'
    BY <1>3, <1>6, <1>7, <1>8, <1>10, PushedInside DEF PlannedInside, PlanStates, Full
<1> QED BY <1>11, <1>12, <1>13, <1>14

LEMMA FeedOverrideStep == IInv /\ FeedOverride => IInv'
<1> SUFFICES ASSUME IInv, FeedOverride PROVE IInv'
    OBVIOUS
<1> USE DEF IInv, FeedOverride
<1>1. prep \in PrepStates
    BY DEF TypeOK, PrepStates
<1>2. /\ plan' \in [slot : {plan.slot}, tail : {plan.tail}, head : {plan.head},
                    planned : Slots]
      /\ PlannedInside' /\ prep' \in PrepStates /\ prep'.block = None
    BY <1>1, Reinitialized
<1>3. TypeOK'
    BY <1>2 DEF TypeOK, PrepStates
<1>4. SegmentsFilled' /\ ExecutedQueued' /\ SystemWhenParking' /\ PreparedExists'
    BY <1>2, SameSegments DEF SystemWhenParking, PreparedExists
<1> QED BY <1>2, <1>3, <1>4

\* st_prep_buffer.
LEMMA LoadBlockStep == IInv /\ LoadBlock => IInv'
<1> SUFFICES ASSUME IInv, LoadBlock PROVE IInv'
    OBVIOUS
<1> USE DEF IInv, LoadBlock
<1> DEFINE slot == IF control.exSys THEN plan.head ELSE plan.tail
<1>1. slot \in Slots /\ plan.slot[slot].motion \in Motions
      /\ plan.slot[slot].total \in 0 .. MaxSteps
    BY DEF TypeOK
<1>2. NextStBlock(prep.st) \in StBlocks
    BY NextStBlockIs DEF TypeOK
<1>3. TypeOK'
    <2> DEFINE flags == IF ParkingEnabled /\ prep.flags.parking
                        THEN [prep.flags EXCEPT !.velocity = FALSE] ELSE NoFlags
    <2>1. flags \in Flags
        BY DEF TypeOK, Flags, NoFlags
    <2>2. prep \in PrepStates
        BY DEF TypeOK, PrepStates
    <2>3. CASE prep.flags.velocity
        <3>1. prep' = [prep EXCEPT !.block = slot, !.flags = flags] /\ UNCHANGED blocks
            BY <2>3
        <3>2. prep' \in PrepStates
            BY <3>1, <2>1, <2>2, <1>1 DEF PrepStates
        <3> QED BY <3>1, <3>2 DEF TypeOK, PrepStates
    <2>4. CASE ~prep.flags.velocity
        <3>1. /\ prep' = [prep EXCEPT !.block = slot, !.st = NextStBlock(prep.st),
                                      !.left = plan.slot[slot].total]
              /\ blocks' = [blocks EXCEPT ![NextStBlock(prep.st)] = plan.slot[slot].motion]
            BY <2>4
        <3>2. prep' \in PrepStates
            BY <3>1, <2>2, <1>1, <1>2 DEF PrepStates
        <3>3. blocks' \in [StBlocks -> Motions]
            BY <3>1, <1>1 DEF TypeOK
        <3> QED BY <3>2, <3>3 DEF TypeOK, PrepStates
    <2> QED BY <2>3, <2>4
<1>4. PreparedExists'
    BY DEF PreparedExists, Empty
<1>5. SegmentsFilled' /\ ExecutedQueued' /\ SystemWhenParking' /\ PlannedInside'
    BY SameSegments, SamePlan DEF SystemWhenParking
<1> QED BY <1>3, <1>4, <1>5

LEMMA BailOutStep == IInv /\ BailOut => IInv'
<1> SUFFICES ASSUME IInv, BailOut PROVE IInv'
    OBVIOUS
<1> USE DEF IInv, BailOut
<1> DEFINE partial == prep.flags.partial \/ (ParkingEnabled /\ ~prep.flags.parking)
<1>0. partial \in BOOLEAN /\ prep' = [prep EXCEPT !.flags.partial = partial]
    OBVIOUS
<1> HIDE DEF partial
<1>1. TypeOK'
    <2>1. prep.flags \in Flags /\ prep \in PrepStates
        BY DEF TypeOK, PrepStates
    <2>2. [prep.flags EXCEPT !.partial = partial] \in Flags
        BY <1>0, <2>1 DEF Flags
    <2>3. prep' = [prep EXCEPT !.flags = [prep.flags EXCEPT !.partial = partial]]
        BY <1>0
    <2>4. prep' \in PrepStates
        BY <2>1, <2>2, <2>3 DEF PrepStates
    <2>5. control' \in [exHold : BOOLEAN, exSys : BOOLEAN, endMotion : BOOLEAN]
        BY DEF TypeOK
    <2> QED BY <2>4, <2>5 DEF TypeOK, PrepStates
<1>2. SystemWhenParking' /\ PreparedExists'
    BY DEF TypeOK, SystemWhenParking, PreparedExists, Empty
<1>3. SegmentsFilled' /\ ExecutedQueued' /\ PlannedInside'
    BY SameSegments, SamePlan
<1> QED BY <1>1, <1>2, <1>3

\* A segment more at the head, or one less at the tail.
LEMMA QueueGrows ==
    ASSUME NEW tail \in Segments, NEW head \in Segments, NEW i \in Segments,
           NextSegment(head) # tail,
           SegmentsTo(tail, i) < SegmentsTo(tail, NextSegment(head))
    PROVE  i = head \/ SegmentsTo(tail, i) < SegmentsTo(tail, head)
<1> DEFINE next == NextSegment(head)
<1>1. next \in Segments /\ next = IF head = SegmentBufferSize - 1 THEN 0 ELSE head + 1
    BY NextSegmentIs
<1>2. next # tail /\ SegmentsTo(tail, i) < SegmentsTo(tail, next)
    OBVIOUS
<1> HIDE DEF next
<1>3. /\ SegmentsTo(tail, i) = IF tail <= i THEN i - tail ELSE i - tail + SegmentBufferSize
      /\ SegmentsTo(tail, head)
            = IF tail <= head THEN head - tail ELSE head - tail + SegmentBufferSize
      /\ SegmentsTo(tail, next)
            = IF tail <= next THEN next - tail ELSE next - tail + SegmentBufferSize
    BY <1>1, SegmentsToIs
<1> QED BY <1>1, <1>2, <1>3, SizesAssumption DEF Segments

LEMMA QueueShrinks ==
    ASSUME NEW tail \in Segments, NEW head \in Segments, NEW i \in Segments,
           tail # head,
           SegmentsTo(NextSegment(tail), i) < SegmentsTo(NextSegment(tail), head)
    PROVE  i # tail /\ SegmentsTo(tail, i) < SegmentsTo(tail, head)
<1> DEFINE next == NextSegment(tail)
<1>1. next \in Segments /\ next = IF tail = SegmentBufferSize - 1 THEN 0 ELSE tail + 1
    BY NextSegmentIs
<1>2. SegmentsTo(next, i) < SegmentsTo(next, head)
    OBVIOUS
<1> HIDE DEF next
<1>3. /\ SegmentsTo(tail, i) = IF tail <= i THEN i - tail ELSE i - tail + SegmentBufferSize
      /\ SegmentsTo(tail, head)
            = IF tail <= head THEN head - tail ELSE head - tail + SegmentBufferSize
      /\ SegmentsTo(next, i) = IF next <= i THEN i - next ELSE i - next + SegmentBufferSize
      /\ SegmentsTo(next, head)
            = IF next <= head THEN head - next ELSE head - next + SegmentBufferSize
    BY <1>1, SegmentsToIs
<1> QED BY <1>1, <1>2, <1>3, SizesAssumption DEF Segments

RingStates ==
    [seg : [Segments -> [block : StBlocks, steps : 0 .. MaxSteps, motion : Motions]],
     tail : Segments, head : Segments]

\* To discard the block being prepared pushes the planned pointer if need be.
LEMMA DiscardedIs ==
    ASSUME NEW p \in PlanStates, p.tail # p.head,
           SlotsTo(p.tail, p.planned) <= SlotsTo(p.tail, p.head)
    PROVE  /\ Discarded(p) \in PlanStates
           /\ SlotsTo(Discarded(p).tail, Discarded(p).planned)
                 <= SlotsTo(Discarded(p).tail, Discarded(p).head)
<1> DEFINE d == Discarded(p)
           next == NextSlot(p.tail)
<1>1. next \in Slots /\ next = IF p.tail = PlannerSlots - 1 THEN 0 ELSE p.tail + 1
    BY NextSlotIs DEF PlanStates
<1>2. NoMotion \in [motion : Motions, left : 0 .. MaxSteps, total : 0 .. MaxSteps]
    BY SizesAssumption DEF NoMotion, Motions, System
<1>3. /\ d \in PlanStates
      /\ d.tail = next /\ d.head = p.head
      /\ d.planned = IF p.planned = p.tail THEN next ELSE p.planned
    BY <1>1, <1>2 DEF Discarded, PlanStates
<1> HIDE DEF d, next
<1>4. /\ p.tail \in Slots /\ p.head \in Slots /\ p.planned \in Slots
    BY DEF PlanStates
<1>5. /\ SlotsTo(p.tail, p.planned) = IF p.tail <= p.planned THEN p.planned - p.tail
                                       ELSE p.planned - p.tail + PlannerSlots
      /\ SlotsTo(p.tail, p.head) = IF p.tail <= p.head THEN p.head - p.tail
                                    ELSE p.head - p.tail + PlannerSlots
      /\ SlotsTo(next, p.planned) = IF next <= p.planned THEN p.planned - next
                                     ELSE p.planned - next + PlannerSlots
      /\ SlotsTo(next, p.head) = IF next <= p.head THEN p.head - next
                                  ELSE p.head - next + PlannerSlots
      /\ SlotsTo(next, next) = 0
    BY <1>1, <1>4, SlotsToIs DEF Slots
<1>6. SlotsTo(d.tail, d.planned) <= SlotsTo(d.tail, d.head)
    BY <1>1, <1>3, <1>4, <1>5, SizesAssumption DEF Slots
<1> QED BY <1>3, <1>6 DEF d

LEMMA AddSegmentStep == IInv /\ AddSegment => IInv'
<1> SUFFICES ASSUME IInv, AddSegment PROVE IInv'
    OBVIOUS
<1> USE DEF IInv
<1> DEFINE slot == prep.block
<1>1. /\ slot \in Slots /\ plan \in PlanStates /\ prep \in PrepStates
      /\ ring \in RingStates /\ plan.slot[slot].left \in 0 .. MaxSteps
      /\ plan.slot[slot].motion \in Motions
    BY DEF AddSegment, TypeOK, PlanStates, PrepStates, RingStates
<1>2. PICK left \in 0 .. plan.slot[slot].left, forced \in BOOLEAN :
         /\ prep.left - left > 0
         /\ ring' = [ring EXCEPT
                       !.seg[ring.head] = [block |-> prep.st, steps |-> prep.left - left,
                                           motion |-> plan.slot[slot].motion],
                       !.head = NextSegment(@)]
         /\ LET advanced == [prep EXCEPT !.left = left]
                consumed == [plan EXCEPT !.slot[slot].left = left]
            IN IF forced
               THEN /\ prep' = [advanced EXCEPT !.flags.partial =
                                   @ \/ (ParkingEnabled /\ ~prep.flags.parking)]
                    /\ plan' = consumed
               ELSE IF left = 0 /\ ~control.exSys
               THEN /\ prep' = [advanced EXCEPT !.block = None]
                    /\ plan' = Discarded(consumed)
               ELSE prep' = advanced /\ plan' = consumed
         /\ control' = [control EXCEPT !.endMotion =
                           @ \/ forced \/ (left = 0 /\ control.exSys)]
         /\ fg' = IF control'.endMotion THEN "main" ELSE "prep"
    BY DEF AddSegment
<1> DEFINE consumed == [plan EXCEPT !.slot[slot].left = left]
           advanced == [prep EXCEPT !.left = left]
           partial == prep.flags.partial \/ (ParkingEnabled /\ ~prep.flags.parking)
           new == [block |-> prep.st, steps |-> prep.left - left,
                   motion |-> plan.slot[slot].motion]
<1>3. /\ consumed \in PlanStates
      /\ consumed.tail = plan.tail /\ consumed.head = plan.head
      /\ consumed.planned = plan.planned
    <2>1. left \in 0 .. MaxSteps
        BY <1>1, SizesAssumption
    <2>2. [plan.slot[slot] EXCEPT !.left = left]
             \in [motion : Motions, left : 0 .. MaxSteps, total : 0 .. MaxSteps]
        BY <1>1, <2>1 DEF PlanStates
    <2>3. [plan.slot EXCEPT ![slot] = [plan.slot[slot] EXCEPT !.left = left]]
             \in [Slots -> [motion : Motions, left : 0 .. MaxSteps, total : 0 .. MaxSteps]]
        BY <1>1, <2>2 DEF PlanStates
    <2>4. consumed = [plan EXCEPT !.slot =
                         [plan.slot EXCEPT ![slot] = [plan.slot[slot] EXCEPT !.left = left]]]
        OBVIOUS
    <2> QED BY <1>1, <2>3, <2>4 DEF PlanStates
<1>4. /\ advanced \in PrepStates /\ advanced.block = slot
      /\ advanced.flags = prep.flags
    <2>1. left \in 0 .. MaxSteps
        BY <1>1, SizesAssumption
    <2> QED BY <1>1, <2>1 DEF PrepStates
<1>5. new \in [block : StBlocks, steps : 0 .. MaxSteps, motion : Motions] /\ new.steps > 0
    BY <1>1, <1>2, SizesAssumption DEF PrepStates
<1>6. NextSegment(ring.head) \in Segments
    BY <1>1, NextSegmentIs DEF RingStates
<1>7. /\ ring' \in RingStates /\ ring'.tail = ring.tail
      /\ ring'.head = NextSegment(ring.head)
      /\ ring'.seg = [ring.seg EXCEPT ![ring.head] = new]
    BY <1>1, <1>2, <1>5, <1>6 DEF RingStates
<1>8. SegmentsFilled'
    <2> SUFFICES ASSUME NEW i \in Segments,
                        SegmentsTo(ring'.tail, i) < SegmentsTo(ring'.tail, ring'.head)
                 PROVE  ring'.seg[i].steps > 0
        BY DEF SegmentsFilled, Queued
    <2>1. i = ring.head \/ SegmentsTo(ring.tail, i) < SegmentsTo(ring.tail, ring.head)
        BY <1>1, <1>7, QueueGrows DEF AddSegment, Room, RingStates
    <2>2. CASE i = ring.head
        BY <1>1, <1>5, <1>7, <2>2 DEF RingStates
    <2>3. CASE i # ring.head
        BY <1>1, <1>7, <2>1, <2>3 DEF RingStates, SegmentsFilled, Queued
    <2> QED BY <2>2, <2>3
<1>9. ExecutedQueued'
    BY <1>7 DEF ExecutedQueued, AddSegment, Room
<1>10. partial \in BOOLEAN
    OBVIOUS
<1>11. control' \in [exHold : BOOLEAN, exSys : BOOLEAN, endMotion : BOOLEAN]
       /\ control'.exSys = control.exSys
    BY <1>2 DEF TypeOK
<1>12. fg' \in {"main", "prep"} /\ UNCHANGED <<blocks, st, state, count>>
    BY <1>2 DEF AddSegment
<1> HIDE DEF consumed, advanced, partial, new
<1>13. CASE ~forced /\ left = 0 /\ ~control.exSys
    <2>1. plan' = Discarded(consumed) /\ prep' = [advanced EXCEPT !.block = None]
        BY <1>2, <1>13 DEF consumed, advanced
    <2>2. prep' \in PrepStates /\ prep'.block = None
        BY <2>1, <1>4 DEF PrepStates
    <2>3. consumed.tail # consumed.head
        BY <1>1, <1>3, <1>13 DEF PreparedExists, Empty, AddSegment
    <2>4. plan' \in PlanStates /\ PlannedInside'
        BY <2>1, <2>3, <1>3, DiscardedIs DEF PlannedInside
    <2>5. TypeOK'
        BY <2>2, <2>4, <1>7, <1>11, <1>12 DEF TypeOK, PlanStates, PrepStates, RingStates
    <2> QED BY <2>2, <2>4, <2>5, <1>8, <1>9, <1>11, <1>12
            DEF SystemWhenParking, PreparedExists
<1>14. CASE ~(~forced /\ left = 0 /\ ~control.exSys)
    <2>1. plan' = consumed
        BY <1>2, <1>14 DEF consumed
    <2>2. prep' \in PrepStates /\ prep'.block = slot
        <3>1. CASE forced
            <4>1. prep' = [advanced EXCEPT !.flags = [advanced.flags EXCEPT !.partial = partial]]
                BY <1>2, <1>4, <3>1 DEF advanced, partial
            <4>2. [advanced.flags EXCEPT !.partial = partial] \in Flags
                BY <1>4, <1>10 DEF PrepStates, Flags
            <4> QED BY <4>1, <4>2, <1>4 DEF PrepStates
        <3>2. CASE ~forced
            BY <1>2, <1>4, <1>14, <3>2 DEF advanced
        <3> QED BY <3>1, <3>2
    <2>3. PlannedInside'
        BY <2>1, <1>3 DEF PlannedInside
    <2>4. TypeOK'
        BY <2>1, <2>2, <1>3, <1>7, <1>11, <1>12 DEF TypeOK, PlanStates, PrepStates, RingStates
    <2>5. PreparedExists'
        BY <2>1, <2>2, <1>1, <1>3, <1>11 DEF PreparedExists, Empty, AddSegment
    <2> QED BY <2>3, <2>4, <2>5, <1>8, <1>9, <1>11, <1>12 DEF SystemWhenParking
<1> QED BY <1>13, <1>14

LEMMA LeaveOrEnterStep == IInv /\ (EnterPrep \/ LeavePrep) => IInv'
BY SameSegments, SamePlan
   DEF IInv, EnterPrep, LeavePrep, TypeOK, SystemWhenParking, PreparedExists, Empty

\* The stepper interrupt.
LEMMA StepInterruptStep == IInv /\ StepInterrupt => IInv'
<1> SUFFICES ASSUME IInv, StepInterrupt PROVE IInv'
    OBVIOUS
<1> USE DEF IInv
<1> DEFINE seg == ring.seg[ring.tail]
           loaded == [st EXCEPT !.block = seg.block, !.steps = seg.steps,
                                !.motion = IF st.block = seg.block THEN @
                                           ELSE blocks[seg.block]]
           s == IF st.steps > 0 THEN st ELSE loaded
           StStates == [stepping : BOOLEAN, block : StBlocks \union {None},
                        steps : 0 .. MaxSteps, motion : Motions, complete : BOOLEAN]
<1>1. /\ ring \in RingStates /\ st \in StStates /\ blocks \in [StBlocks -> Motions]
      /\ ring.tail \in Segments /\ ring.head \in Segments
    BY DEF TypeOK, RingStates
<1>2. Stepped(s) /\ UNCHANGED <<plan, prep, blocks, control, state, fg, count>>
    BY DEF StepInterrupt
<1>3. ring.tail # ring.head
    BY DEF StepInterrupt, ExecutedQueued
<1>4. ring.tail \in Queued
    <2>1. SegmentsTo(ring.tail, ring.tail) = 0
        BY <1>1, SegmentsToIs DEF Segments
    <2>2. SegmentsTo(ring.tail, ring.head) > 0
        <3> DEFINE i == ring.tail
                   j == ring.head
        <3>1. i \in Segments /\ j \in Segments /\ i # j
            BY <1>1, <1>3
        <3> HIDE DEF i, j
        <3>2. SegmentsTo(i, j) = IF i <= j THEN j - i ELSE j - i + SegmentBufferSize
            BY <3>1, SegmentsToIs
        <3>3. SegmentsTo(i, j) > 0
            BY <3>1, <3>2, SizesAssumption DEF Segments
        <3> QED BY <3>3 DEF i, j
    <2> QED BY <1>1, <2>1, <2>2 DEF Queued
<1>5. /\ seg.block \in StBlocks /\ seg.steps \in 0 .. MaxSteps /\ seg.steps > 0
      /\ blocks[seg.block] \in Motions
    BY <1>1, <1>4 DEF SegmentsFilled, RingStates
<1>6. s \in StStates /\ s.steps > 0
    BY <1>1, <1>5
<1> HIDE DEF s
<1>7. st' \in StStates /\ st'.steps = s.steps - 1
    BY <1>2, <1>6, SizesAssumption DEF Stepped
<1>8. CASE s.steps = 1
    <2>1. /\ ring' = [ring EXCEPT !.seg[ring.tail] = NoSegment, !.tail = NextSegment(@)]
          /\ st'.steps = 0
        BY <1>2, <1>7, <1>8 DEF Stepped
    <2>2. NoSegment \in [block : StBlocks, steps : 0 .. MaxSteps, motion : Motions]
        BY SizesAssumption DEF NoSegment, StBlocks, Motions, System
    <2>3. /\ ring' \in RingStates
          /\ ring'.tail = NextSegment(ring.tail) /\ ring'.head = ring.head
          /\ ring'.seg = [ring.seg EXCEPT ![ring.tail] = NoSegment]
        BY <1>1, <2>1, <2>2, NextSegmentIs DEF RingStates
    <2>4. SegmentsFilled'
        <3> SUFFICES ASSUME NEW i \in Segments,
                            SegmentsTo(ring'.tail, i) < SegmentsTo(ring'.tail, ring'.head)
                     PROVE  ring'.seg[i].steps > 0
            BY DEF SegmentsFilled, Queued
        <3>1. i # ring.tail /\ SegmentsTo(ring.tail, i) < SegmentsTo(ring.tail, ring.head)
            BY <1>1, <1>3, <2>3, QueueShrinks
        <3> QED BY <1>1, <2>3, <3>1 DEF RingStates, SegmentsFilled, Queued
    <2>5. TypeOK'
        BY <1>2, <1>7, <2>3 DEF TypeOK, RingStates
    <2> QED BY <1>2, <2>1, <2>4, <2>5, SamePlan
            DEF ExecutedQueued, SystemWhenParking, PreparedExists, Empty
<1>9. CASE s.steps # 1
    <2>1. ring' = ring
        BY <1>2, <1>9 DEF Stepped
    <2>2. TypeOK'
        BY <1>2, <1>7, <2>1 DEF TypeOK
    <2>3. SegmentsFilled' /\ ExecutedQueued'
        BY <1>3, <2>1 DEF SegmentsFilled, ExecutedQueued, Queued
    <2> QED BY <1>2, <2>2, <2>3, SamePlan DEF SystemWhenParking, PreparedExists, Empty
<1> QED BY <1>8, <1>9

LEMMA SegmentsExhaustedStep == IInv /\ SegmentsExhausted => IInv'
<1> SUFFICES ASSUME IInv, SegmentsExhausted PROVE IInv'
    OBVIOUS
<1> USE DEF IInv, SegmentsExhausted
<1>1. TypeOK'
    <2>1. st' \in [stepping : BOOLEAN, block : StBlocks \union {None},
                   steps : 0 .. MaxSteps, motion : Motions, complete : BOOLEAN]
        <3>1. st' = [stepping |-> FALSE, block |-> None, steps |-> 0, motion |-> System,
                     complete |-> TRUE]
            BY DEF AtRest
        <3>2. /\ 0 \in 0 .. MaxSteps /\ System \in Motions
              /\ None \in StBlocks \union {None} /\ TRUE \in BOOLEAN /\ FALSE \in BOOLEAN
            BY SizesAssumption DEF Motions, System
        <3> QED BY ONLY <3>1, <3>2, Zenon
    <2> QED BY <2>1 DEF TypeOK
<1>2. SegmentsFilled' /\ ExecutedQueued'
    BY DEF SegmentsFilled, ExecutedQueued, Queued, AtRest
<1> QED BY <1>1, <1>2, SamePlan DEF SystemWhenParking, PreparedExists, Empty

\* The state machine.
ControlStates == [exHold : BOOLEAN, exSys : BOOLEAN, endMotion : BOOLEAN]

\* A cycle complete that is taken changes nothing else of the interrupt.
LEMMA CompletedIs ==
    TypeOK /\ Completed
      => /\ st' \in [stepping : BOOLEAN, block : StBlocks \union {None},
                     steps : 0 .. MaxSteps, motion : Motions, complete : BOOLEAN]
         /\ st'.steps = st.steps
BY DEF TypeOK, Completed

LEMMA CycleStartStep == IInv /\ CycleStart => IInv'
<1> SUFFICES ASSUME IInv, CycleStart PROVE IInv'
    OBVIOUS
<1> USE DEF IInv, CycleStart
<1>1. TypeOK'
    BY DEF TypeOK, NoControl
<1> QED BY <1>1, SameSegments, SamePlan
        DEF SystemWhenParking, PreparedExists, Empty, NoControl

LEMMA WakeUpStep == IInv /\ WakeUp => IInv'
<1> SUFFICES ASSUME IInv, WakeUp PROVE IInv'
    OBVIOUS
<1> USE DEF IInv, WakeUp
<1>1. TypeOK' /\ st'.steps = st.steps
    BY DEF TypeOK
<1>2. SegmentsFilled' /\ ExecutedQueued'
    BY <1>1 DEF SegmentsFilled, ExecutedQueued, Queued
<1> QED BY <1>1, <1>2, SamePlan DEF SystemWhenParking, PreparedExists, Empty

LEMMA CycleCompleteStep == IInv /\ CycleComplete => IInv'
<1> SUFFICES ASSUME IInv, CycleComplete PROVE IInv'
    OBVIOUS
<1> USE DEF IInv, CycleComplete, Main
<1>1. TypeOK' /\ st'.steps = st.steps
    BY CompletedIs DEF TypeOK, NoControl
<1>2. SegmentsFilled' /\ ExecutedQueued'
    BY <1>1 DEF SegmentsFilled, ExecutedQueued, Queued
<1> QED BY <1>1, <1>2, SamePlan DEF SystemWhenParking, PreparedExists, Empty, NoControl

\* A hold gives the block up to a new plan, and so does a retract restarted.
LEMMA InitiateHoldStep == IInv /\ (InitiateHold \/ RestartRetract) => IInv'
<1> SUFFICES ASSUME IInv, InitiateHold \/ RestartRetract PROVE IInv'
    OBVIOUS
<1> USE DEF IInv, InitiateHold, RestartRetract, Main
<1>1. prep' \in PrepStates /\ prep'.block = None
    BY UpdatedIs DEF TypeOK, PrepStates
<1>2. control' \in ControlStates /\ control'.exSys = control.exSys
    BY DEF TypeOK, ControlStates
<1>3. TypeOK'
    BY <1>1, <1>2 DEF TypeOK, PrepStates, ControlStates
<1> QED BY <1>1, <1>2, <1>3, SameSegments, SamePlan DEF SystemWhenParking, PreparedExists

LEMMA HoldCompleteStep == IInv /\ HoldComplete => IInv'
<1> SUFFICES ASSUME IInv, HoldComplete PROVE IInv'
    OBVIOUS
<1> USE DEF IInv, HoldComplete, Main
<1>1. prep \in PrepStates
    BY DEF TypeOK, PrepStates
<1>2. /\ plan' \in [slot : {plan.slot}, tail : {plan.tail}, head : {plan.head},
                    planned : Slots]
      /\ PlannedInside' /\ prep' \in PrepStates /\ prep'.block = None
    BY <1>1, Reinitialized
<1>3. plan' \in PlanStates
    BY <1>2 DEF TypeOK, PlanStates
<1>4. /\ st' \in [stepping : BOOLEAN, block : StBlocks \union {None},
                  steps : 0 .. MaxSteps, motion : Motions, complete : BOOLEAN]
      /\ st'.steps = st.steps
    BY CompletedIs DEF TypeOK
<1>5. TypeOK'
    BY <1>2, <1>3, <1>4 DEF TypeOK, PlanStates, PrepStates, NoControl
<1>6. SegmentsFilled' /\ ExecutedQueued'
    BY <1>4 DEF SegmentsFilled, ExecutedQueued, Queued
<1> QED BY <1>2, <1>5, <1>6 DEF SystemWhenParking, PreparedExists, NoControl

LEMMA ParkingMotionStep == IInv /\ ParkingMotion => IInv'
<1> SUFFICES ASSUME IInv, ParkingMotion PROVE IInv'
    OBVIOUS
<1> USE DEF IInv
<1> DEFINE saves == prep.flags.partial /\ ~prep.flags.parking
           saved == IF saves
                    THEN [prep EXCEPT !.lastSt = prep.st, !.copy = blocks[prep.st],
                                      !.lastLeft = prep.left]
                    ELSE prep
<1>1. PICK n \in 1 .. MaxSteps :
         plan' = [plan EXCEPT !.slot[plan.head] = [motion |-> System, left |-> n, total |-> n]]
    BY DEF ParkingMotion
<1>2. /\ prep' = [saved EXCEPT !.flags.parking = TRUE, !.flags.velocity = FALSE,
                               !.block = None]
      /\ control' = [control EXCEPT !.exSys = TRUE, !.endMotion = FALSE]
      /\ state' = "park_start" /\ UNCHANGED <<blocks, ring, st, fg, count>>
    BY DEF ParkingMotion
<1>3. [motion |-> System, left |-> n, total |-> n]
         \in [motion : Motions, left : 0 .. MaxSteps, total : 0 .. MaxSteps]
    BY SizesAssumption DEF Motions, System
<1>4. plan \in PlanStates /\ prep \in PrepStates /\ blocks \in [StBlocks -> Motions]
    BY DEF TypeOK, PlanStates, PrepStates
<1>5. /\ plan' \in PlanStates
      /\ plan'.tail = plan.tail /\ plan'.head = plan.head /\ plan'.planned = plan.planned
    BY <1>1, <1>3, <1>4 DEF PlanStates
<1>6. saved \in PrepStates
    BY <1>4 DEF PrepStates
<1> HIDE DEF saved
<1>7. [saved.flags EXCEPT !.parking = TRUE, !.velocity = FALSE] \in Flags
    BY <1>6 DEF PrepStates, Flags
<1>8. prep' = [saved EXCEPT !.flags = [saved.flags EXCEPT !.parking = TRUE, !.velocity = FALSE],
                            !.block = None]
    BY <1>2, <1>6 DEF PrepStates, Flags
<1>9. prep' \in PrepStates /\ prep'.block = None
    BY <1>6, <1>7, <1>8 DEF PrepStates
<1>10. control' \in ControlStates /\ control'.exSys = TRUE
    BY <1>2 DEF TypeOK, ControlStates
<1>11. TypeOK'
    BY <1>2, <1>5, <1>9, <1>10 DEF TypeOK, PlanStates, PrepStates, ControlStates
<1>12. PlannedInside'
    BY <1>5 DEF PlannedInside
<1> QED BY <1>2, <1>9, <1>10, <1>11, <1>12, SameSegments
        DEF SystemWhenParking, PreparedExists

\* The registers and the block of the interrupted motion are put back.
LEMMA RestoredIs ==
    ASSUME TypeOK
    PROVE  /\ RestoreBuffer(prep) \in PrepStates /\ RestoreBuffer(prep).block = None
           /\ RestoredBlocks(prep) \in [StBlocks -> Motions]
<1>1. prep \in PrepStates /\ blocks \in [StBlocks -> Motions]
    BY DEF TypeOK, PrepStates
<1>2. /\ 0 \in StBlocks /\ 0 \in 0 .. MaxSteps /\ System \in Motions
      /\ None \in Slots \union {None}
    BY SizesAssumption DEF StBlocks, Motions, System
<1>3. NoFlags \in Flags /\ Partial \in Flags
    BY DEF NoFlags, Partial, Flags
<1> USE DEF PrepStates
<1>4. RestoredBlocks(prep) \in [StBlocks -> Motions]
    BY <1>1 DEF RestoredBlocks
<1>5. RestoreBuffer(prep) \in PrepStates /\ RestoreBuffer(prep).block = None
    BY <1>1, <1>2, <1>3 DEF RestoreBuffer
<1> QED BY <1>4, <1>5

LEMMA ParkingCompleteStep == IInv /\ ParkingComplete => IInv'
<1> SUFFICES ASSUME IInv, ParkingComplete PROVE IInv'
    OBVIOUS
<1> USE DEF IInv, ParkingComplete, Main
<1>1. /\ prep' \in PrepStates /\ prep'.block = None
      /\ blocks' \in [StBlocks -> Motions]
    BY RestoredIs
<1>2. control' \in ControlStates /\ control'.exSys = FALSE
    BY DEF TypeOK, ControlStates
<1>3. /\ st' \in [stepping : BOOLEAN, block : StBlocks \union {None},
                  steps : 0 .. MaxSteps, motion : Motions, complete : BOOLEAN]
      /\ st'.steps = st.steps
    BY CompletedIs
<1>4. TypeOK'
    BY <1>1, <1>2, <1>3 DEF TypeOK, PrepStates, ControlStates
<1>5. SegmentsFilled' /\ ExecutedQueued'
    BY <1>3 DEF SegmentsFilled, ExecutedQueued, Queued
<1> QED BY <1>1, <1>2, <1>4, <1>5, SamePlan DEF SystemWhenParking, PreparedExists

LEMMA RetractRestartedStep == IInv /\ RetractRestarted => IInv'
<1> SUFFICES ASSUME IInv, RetractRestarted PROVE IInv'
    OBVIOUS
<1> USE DEF IInv, RetractRestarted, Main
<1>1. /\ RestoreBuffer(prep) \in PrepStates
      /\ blocks' \in [StBlocks -> Motions]
    BY RestoredIs
<1>2. /\ plan' \in [slot : {plan.slot}, tail : {plan.tail}, head : {plan.head},
                    planned : Slots]
      /\ PlannedInside' /\ prep' \in PrepStates /\ prep'.block = None
    BY <1>1, Reinitialized
<1>3. plan' \in PlanStates
    BY <1>2 DEF TypeOK, PlanStates
<1>4. /\ st' \in [stepping : BOOLEAN, block : StBlocks \union {None},
                  steps : 0 .. MaxSteps, motion : Motions, complete : BOOLEAN]
      /\ st'.steps = st.steps
    BY CompletedIs
<1>5. TypeOK'
    BY <1>1, <1>2, <1>3, <1>4 DEF TypeOK, PlanStates, PrepStates, NoControl
<1>6. SegmentsFilled' /\ ExecutedQueued'
    BY <1>4 DEF SegmentsFilled, ExecutedQueued, Queued
<1> QED BY <1>2, <1>5, <1>6 DEF SystemWhenParking, PreparedExists, NoControl

\* A head drawn back to h leaves the segments up to h.
LEMMA MotionCancelStep == IInv /\ MotionCancel => IInv'
<1> SUFFICES ASSUME IInv, MotionCancel PROVE IInv'
    OBVIOUS
<1> USE DEF IInv, Main
<1>1. /\ prep' = Updated(prep) /\ control' = [control EXCEPT !.exHold = TRUE]
      /\ state = "cycle" /\ state' = "cancel"
      /\ UNCHANGED <<plan, blocks, st, fg, count>>
    BY DEF MotionCancel
<1>2. prep' \in PrepStates /\ prep'.block = None
    BY <1>1, UpdatedIs DEF TypeOK, PrepStates
<1>3. control' \in ControlStates /\ control'.exSys = control.exSys
    BY <1>1 DEF TypeOK, ControlStates
<1>4. ring \in RingStates /\ ring.tail \in Segments /\ ring.head \in Segments
    BY DEF TypeOK, RingStates
<1>5. PICK h \in Segments :
         /\ ring' = [ring EXCEPT !.head = h]
         /\ \/ h = ring.head
            \/ /\ SegmentsTo(ring.tail, h) <= SegmentsTo(ring.tail, ring.head)
               /\ SegmentsTo(ring.tail, h) >= 2
    <2>1. CASE UNCHANGED ring
        <3>1. ring' = [ring EXCEPT !.head = ring.head]
            BY <2>1, <1>4 DEF RingStates
        <3> QED BY <3>1, <1>4
    <2>2. CASE \E h \in {ring.head} : ring' = [ring EXCEPT !.head = h]
        BY <2>2, <1>4
    <2>3. CASE \E h \in Kept : ring' = [ring EXCEPT !.head = h]
        <3>1. PICK h \in Kept : ring' = [ring EXCEPT !.head = h]
            BY <2>3
        <3>2. SegmentsTo(ring.tail, h) \in Nat /\ SegmentsTo(ring.tail, ring.head) \in Nat
            BY <3>1, <1>4, SegmentsToIs DEF Kept
        <3>3. h \in Segments
            BY <3>1 DEF Kept
        <3>4. SegmentsTo(ring.tail, h) \in (IF st.steps > 0 THEN 2 ELSE 3)
                                            .. SegmentsTo(ring.tail, ring.head)
            BY <3>1 DEF Kept
        <3> QED BY <3>1, <3>2, <3>3, <3>4
    <2> QED BY <2>1, <2>2, <2>3 DEF MotionCancel
<1>6. /\ ring' \in RingStates /\ ring'.tail = ring.tail /\ ring'.head = h
      /\ ring'.seg = ring.seg
    BY <1>4, <1>5 DEF RingStates
<1>7. SegmentsFilled'
    <2> SUFFICES ASSUME NEW i \in Segments,
                        SegmentsTo(ring.tail, i) < SegmentsTo(ring.tail, h)
                 PROVE  ring.seg[i].steps > 0
        BY <1>6 DEF SegmentsFilled, Queued
    <2>1. /\ SegmentsTo(ring.tail, i) \in Nat /\ SegmentsTo(ring.tail, h) \in Nat
          /\ SegmentsTo(ring.tail, ring.head) \in Nat
        BY <1>4, <1>5, SegmentsToIs
    <2>2. SegmentsTo(ring.tail, i) < SegmentsTo(ring.tail, ring.head)
        BY <2>1, <1>5
    <2> QED BY <2>2 DEF SegmentsFilled, Queued
<1>8. ExecutedQueued'
    <2>1. SegmentsTo(ring.tail, ring.tail) = 0
        BY <1>4, SegmentsToIs DEF Segments
    <2>2. CASE h = ring.head
        BY <2>2, <1>1, <1>6 DEF ExecutedQueued
    <2>3. CASE h # ring.head
        <3>1. h # ring.tail
            BY <2>1, <2>3, <1>5
        <3> QED BY <3>1, <1>6 DEF ExecutedQueued
    <2> QED BY <2>2, <2>3
<1>9. TypeOK'
    BY <1>1, <1>2, <1>3, <1>6 DEF TypeOK, PrepStates, ControlStates, RingStates
<1> QED BY <1>1, <1>2, <1>3, <1>7, <1>8, <1>9, SamePlan DEF SystemWhenParking, PreparedExists

LEMMA FlushStep == IInv /\ (Flush \/ MotionCancelled) => IInv'
<1> SUFFICES ASSUME IInv, Flush PROVE IInv'
    BY DEF MotionCancelled
<1> USE DEF IInv
<1>1. /\ plan' = NoPlan /\ ring' = NoRing /\ st' = AtRest
      /\ prep' = [block |-> None, st |-> 0, left |-> 0, flags |-> NoFlags,
                  lastSt |-> 0, lastLeft |-> 0, copy |-> System]
      /\ control' = NoControl /\ state' = "idle" /\ UNCHANGED <<blocks, fg, count>>
    BY DEF Flush, PlanReset, StReset
<1>2. /\ 0 \in Slots /\ 0 \in Segments /\ 0 \in StBlocks /\ 0 \in 0 .. MaxSteps
      /\ System \in Motions
    BY SizesAssumption DEF Slots, Segments, StBlocks, Motions, System
<1>3. plan' \in PlanStates /\ plan'.tail = 0 /\ plan'.head = 0 /\ plan'.planned = 0
    BY <1>1, <1>2 DEF PlanStates, NoPlan, NoMotion
<1>4. ring' \in RingStates /\ ring'.tail = 0 /\ ring'.head = 0
    BY <1>1, <1>2 DEF RingStates, NoRing, NoSegment
<1>5. prep' \in PrepStates /\ prep'.block = None
    BY <1>1, <1>2 DEF PrepStates, Flags, NoFlags
<1>6. /\ st' \in [stepping : BOOLEAN, block : StBlocks \union {None},
                  steps : 0 .. MaxSteps, motion : Motions, complete : BOOLEAN]
      /\ st'.steps = 0
    BY <1>1, <1>2 DEF AtRest
<1>7. control' \in ControlStates /\ ~control'.exSys
    BY <1>1 DEF NoControl, ControlStates
<1>8. TypeOK'
    BY <1>1, <1>3, <1>4, <1>5, <1>6, <1>7
       DEF TypeOK, PlanStates, RingStates, PrepStates, ControlStates
<1>9. SegmentsFilled'
    <2>1. \A i \in Segments : ~(SegmentsTo(0, i) < SegmentsTo(0, 0))
        BY <1>2, SegmentsToIs DEF Segments
    <2> QED BY <2>1, <1>4 DEF SegmentsFilled, Queued
<1>10. ExecutedQueued' /\ SystemWhenParking' /\ PreparedExists'
    BY <1>1, <1>5, <1>6, <1>7 DEF ExecutedQueued, SystemWhenParking, PreparedExists
<1>11. PlannedInside'
    BY <1>2, <1>3, SlotsToIs DEF PlannedInside
<1> QED BY <1>8, <1>9, <1>10, <1>11

\* Every step preserves the invariant.
LEMMA StepIInv == IInv /\ [Next]_vars => IInv'
<1> SUFFICES ASSUME IInv, [Next]_vars PROVE IInv'
    OBVIOUS
<1>1. CASE UNCHANGED vars
    BY <1>1 DEF IInv, vars, TypeOK, SegmentsFilled, ExecutedQueued, Queued,
                SystemWhenParking, PreparedExists, Empty, PlannedInside
<1>2. CASE BufferLine \/ FeedOverride
    BY <1>2, BufferLineStep, FeedOverrideStep
<1>3. CASE EnterPrep \/ LeavePrep \/ LoadBlock \/ BailOut \/ AddSegment
    BY <1>3, LeaveOrEnterStep, LoadBlockStep, BailOutStep, AddSegmentStep
<1>4. CASE StepInterrupt \/ SegmentsExhausted
    BY <1>4, StepInterruptStep, SegmentsExhaustedStep
<1>5. CASE CycleStart \/ WakeUp \/ CycleComplete
    BY <1>5, CycleStartStep, WakeUpStep, CycleCompleteStep
<1>6. CASE InitiateHold \/ HoldComplete \/ MotionCancel \/ MotionCancelled \/ Flush
    BY <1>6, InitiateHoldStep, HoldCompleteStep, MotionCancelStep, FlushStep
<1>7. CASE ParkingMotion \/ ParkingComplete \/ RestartRetract \/ RetractRestarted
    BY <1>7, ParkingMotionStep, ParkingCompleteStep, InitiateHoldStep, RetractRestartedStep
<1> QED BY <1>1, <1>2, <1>3, <1>4, <1>5, <1>6, <1>7 DEF Next, Foreground

-----------------------------------------------------------------------------
(* Theorems.                                                               *)

LEMMA Invariant == Spec => []IInv
BY InitIInv, StepIInv, PTL DEF Spec

\* Pointers of planner.c and stepper.c stay in their rings, and a count of steps
\* is one at every moment: the difference that makes the steps of a segment in
\* st_prep_buffer and the count down in the interrupt never pass below zero.
THEOREM TypeCorrect == Spec => []TypeOK
<1>1. IInv => TypeOK
    BY DEF IInv
<1> QED BY <1>1, Invariant, PTL

\* The planned pointer of planner.c stays between tail and head, although
\* st_prep_buffer discards blocks and plan_cycle_reinitialize sets it back at
\* any moment: a reverse pass never leaves the motions that are buffered.
THEOREM PlannedStaysInside == Spec => []PlannedInside
<1>1. IInv => PlannedInside
    BY DEF IInv
<1> QED BY <1>1, Invariant, PTL

-----------------------------------------------------------------------------
(* The blocks of the queued segments.                                      *)

\* How far it is from one stepper block to another
StTo(i, j) == (j - i + (SegmentBufferSize - 1)) % (SegmentBufferSize - 1)

\* The block prep.st was loaded, and has more segments to come.
Begun == prep.block # None \/ prep.flags.velocity
Extra == IF Begun THEN 1 ELSE 0

\* The motion that is prepared
Current == IF control.exSys THEN plan.head ELSE plan.tail

\* The interrupt has nothing left, and remembers no block.
Drained == ring.tail = ring.head /\ st.steps = 0 /\ st.block = None

\* From a queued segment on, and from the one executed last, every segment takes
\* at most one block more.
InOrder ==
    /\ \A i \in Queued :
          StTo(ring.seg[i].block, prep.st) + 1 <= SegmentsTo(i, ring.head) + Extra
    /\ st.steps = 0 /\ st.block # None =>
          StTo(st.block, prep.st) <= SegmentsTo(ring.tail, ring.head) + Extra

DataKept == \A i \in Queued : blocks[ring.seg[i].block] = ring.seg[i].motion

\* What the interrupt executes, and the data it would execute the next segment
\* with when that has the block of the last
Executed ==
    /\ st.steps > 0 =>
          st.block = ring.seg[ring.tail].block /\ st.motion = ring.seg[ring.tail].motion
    /\ (/\ st.steps = 0 /\ st.block # None
        /\ st.block = (IF ring.tail = ring.head THEN prep.st ELSE ring.seg[ring.tail].block))
          => st.motion = blocks[st.block]

\* The block prep.st has the data of the motion that is prepared.
BlockLoaded ==
    /\ Begun => blocks[prep.st] = plan.slot[Current].motion /\ (control.exSys \/ ~Empty)
    /\ prep.block # None => prep.block = Current /\ ~prep.flags.velocity

\* What a parking motion saves is the block of the interrupted motion.
ParkingKept ==
    /\ prep.flags.parking = control.exSys
    /\ control.exSys => ParkingEnabled
    /\ prep.flags.partial =>
          IF control.exSys THEN ~Empty /\ prep.copy = plan.slot[plan.tail].motion
          ELSE prep.flags.velocity \/ (prep.block # None /\ control.endMotion)

\* When a motion is to end, and when a hold is executed
Ending ==
    /\ control.endMotion =>
          fg = "main" /\ state \in {"hold", "cancel", "park_start", "park", "park_stop", "parked"}
    /\ control.exHold => state \in {"hold", "cancel", "park_stop"}

\* When the segment buffer is empty
Resting ==
    /\ st.complete \/ state \in {"idle", "held", "parked"} => Drained
    /\ fg = "prep" => Preparing /\ (st.complete => prep.block = None /\ ~control.exSys /\ Empty)
    /\ state \in {"held", "parked"} => prep.block = None

Segmented == InOrder /\ DataKept /\ Executed
Prepared == BlockLoaded /\ ParkingKept /\ Ending /\ Resting
BlocksInv == Segmented /\ Prepared

LEMMA StToIs ==
    ASSUME NEW i \in StBlocks, NEW j \in StBlocks
    PROVE  /\ StTo(i, j) = IF i <= j THEN j - i ELSE j - i + (SegmentBufferSize - 1)
           /\ StTo(i, j) \in Nat
<1> DEFINE n == SegmentBufferSize - 1
<1>1. n \in Nat \ {0} /\ i \in 0 .. n - 1 /\ j \in 0 .. n - 1
    BY SizesAssumption DEF StBlocks
<1> HIDE DEF n
<1>2. (j - i + n) % n = IF i <= j THEN j - i ELSE j - i + n
    BY <1>1, RingDistance
<1>3. (j - i + n) % n \in Nat
    BY <1>1, <1>2
<1> QED BY <1>2, <1>3 DEF StTo, n

\* The next block is one further from all, or from itself not at all.
LEMMA StToNext ==
    ASSUME NEW i \in StBlocks, NEW j \in StBlocks
    PROVE  /\ NextStBlock(j) \in StBlocks /\ NextStBlock(j) # j
           /\ StTo(i, NextStBlock(j)) <= StTo(i, j) + 1
           /\ StTo(i, j) < SegmentBufferSize - 2 => NextStBlock(j) # i
           /\ StTo(i, j) = 0 <=> i = j
<1> DEFINE next == NextStBlock(j)
<1>1. next \in StBlocks /\ next = IF j = SegmentBufferSize - 2 THEN 0 ELSE j + 1
    <2> DEFINE n == SegmentBufferSize - 1
    <2>1. n \in Nat \ {0} /\ j \in 0 .. n - 1
        BY SizesAssumption DEF StBlocks
    <2> HIDE DEF n
    <2>2. (j + 1) % n = IF j = n - 1 THEN 0 ELSE j + 1
        BY <2>1, RingSuccessor
    <2> QED BY <2>1, <2>2, SizesAssumption DEF NextStBlock, n, StBlocks
<1> HIDE DEF next
<1>2. /\ StTo(i, j) = IF i <= j THEN j - i ELSE j - i + (SegmentBufferSize - 1)
      /\ StTo(i, next) = IF i <= next THEN next - i ELSE next - i + (SegmentBufferSize - 1)
    BY <1>1, StToIs
<1>3. /\ next # j /\ StTo(i, next) <= StTo(i, j) + 1
      /\ StTo(i, j) < SegmentBufferSize - 2 => next # i
      /\ StTo(i, j) = 0 <=> i = j
    BY <1>1, <1>2, SizesAssumption DEF StBlocks
<1> QED BY <1>1, <1>3 DEF next

\* Distances to the head from the tail and from a queued segment
LEMMA HeadDistance ==
    ASSUME NEW tail \in Segments, NEW head \in Segments, NEW i \in Segments,
           SegmentsTo(tail, i) < SegmentsTo(tail, head)
    PROVE  /\ SegmentsTo(i, head) <= SegmentsTo(tail, head)
           /\ tail # head
<1>1. /\ SegmentsTo(tail, i) = IF tail <= i THEN i - tail ELSE i - tail + SegmentBufferSize
      /\ SegmentsTo(tail, head)
            = IF tail <= head THEN head - tail ELSE head - tail + SegmentBufferSize
      /\ SegmentsTo(i, head) = IF i <= head THEN head - i ELSE head - i + SegmentBufferSize
    BY SegmentsToIs
<1> QED BY <1>1, SizesAssumption DEF Segments

\* A segment more, while there is room, is one more from all that are queued.
LEMMA HeadAdvances ==
    ASSUME NEW tail \in Segments, NEW head \in Segments, NextSegment(head) # tail
    PROVE  /\ SegmentsTo(tail, NextSegment(head)) = SegmentsTo(tail, head) + 1
           /\ SegmentsTo(tail, head) <= SegmentBufferSize - 2
           /\ SegmentsTo(head, NextSegment(head)) = 1
           /\ \A i \in Segments : SegmentsTo(tail, i) < SegmentsTo(tail, head) =>
                 SegmentsTo(i, NextSegment(head)) = SegmentsTo(i, head) + 1
<1> DEFINE next == NextSegment(head)
<1>1. next \in Segments /\ next = IF head = SegmentBufferSize - 1 THEN 0 ELSE head + 1
    BY NextSegmentIs
<1>2. next # tail
    OBVIOUS
<1> HIDE DEF next
<1>3. /\ SegmentsTo(tail, head)
            = IF tail <= head THEN head - tail ELSE head - tail + SegmentBufferSize
      /\ SegmentsTo(tail, next)
            = IF tail <= next THEN next - tail ELSE next - tail + SegmentBufferSize
      /\ SegmentsTo(head, next)
            = IF head <= next THEN next - head ELSE next - head + SegmentBufferSize
    BY <1>1, SegmentsToIs
<1>4. /\ SegmentsTo(tail, next) = SegmentsTo(tail, head) + 1
      /\ SegmentsTo(tail, head) <= SegmentBufferSize - 2
      /\ SegmentsTo(head, next) = 1
    BY <1>1, <1>2, <1>3, SizesAssumption DEF Segments
<1>5. ASSUME NEW i \in Segments, SegmentsTo(tail, i) < SegmentsTo(tail, head)
      PROVE  SegmentsTo(i, next) = SegmentsTo(i, head) + 1
    <2>1. /\ SegmentsTo(tail, i) = IF tail <= i THEN i - tail ELSE i - tail + SegmentBufferSize
          /\ SegmentsTo(i, head) = IF i <= head THEN head - i ELSE head - i + SegmentBufferSize
          /\ SegmentsTo(i, next) = IF i <= next THEN next - i ELSE next - i + SegmentBufferSize
        BY <1>1, SegmentsToIs
    <2> QED BY <1>1, <1>2, <1>3, <1>5, <2>1, SizesAssumption DEF Segments
<1> QED BY <1>4, <1>5 DEF next

LEMMA TailAdvances ==
    ASSUME NEW tail \in Segments, NEW head \in Segments, tail # head
    PROVE  /\ SegmentsTo(NextSegment(tail), head) = SegmentsTo(tail, head) - 1
           /\ SegmentsTo(tail, tail) < SegmentsTo(tail, head)
<1> DEFINE next == NextSegment(tail)
<1>1. next \in Segments /\ next = IF tail = SegmentBufferSize - 1 THEN 0 ELSE tail + 1
    BY NextSegmentIs
<1> HIDE DEF next
<1>2. /\ SegmentsTo(tail, head)
            = IF tail <= head THEN head - tail ELSE head - tail + SegmentBufferSize
      /\ SegmentsTo(next, head)
            = IF next <= head THEN head - next ELSE head - next + SegmentBufferSize
      /\ SegmentsTo(tail, tail) = tail - tail
    BY <1>1, SegmentsToIs
<1>3. /\ SegmentsTo(next, head) = SegmentsTo(tail, head) - 1
      /\ SegmentsTo(tail, tail) < SegmentsTo(tail, head)
    BY <1>1, <1>2, SizesAssumption DEF Segments
<1> QED BY <1>3 DEF next


\* What leaves rings, blocks and the registers of both sides alone
LEMMA SameSegmented ==
    Segmented /\ UNCHANGED <<ring, blocks>>
        /\ st'.block = st.block /\ st'.steps = st.steps /\ st'.motion = st.motion
        /\ prep'.st = prep.st /\ TypeOK /\ (Begun => Begun')
        => Segmented'
<1> SUFFICES ASSUME Segmented, UNCHANGED <<ring, blocks>>,
                    st'.block = st.block, st'.steps = st.steps, st'.motion = st.motion,
                    prep'.st = prep.st, TypeOK, Begun => Begun'
             PROVE  Segmented'
    OBVIOUS
<1>1. Queued' = Queued
    BY DEF Queued
<1>2. /\ prep.st \in StBlocks /\ ring.tail \in Segments /\ ring.head \in Segments
      /\ st.block \in StBlocks \union {None}
      /\ \A i \in Segments : ring.seg[i].block \in StBlocks
    BY DEF TypeOK
<1>3. Extra \in Nat /\ Extra' \in Nat /\ Extra <= Extra'
    BY DEF Extra
<1>4. ASSUME NEW i \in Queued
      PROVE  StTo(ring.seg[i].block, prep.st) + 1 <= SegmentsTo(i, ring.head) + Extra'
    <2>1. i \in Segments
        BY DEF Queued
    <2>2. StTo(ring.seg[i].block, prep.st) \in Nat /\ SegmentsTo(i, ring.head) \in Nat
        BY <1>2, <2>1, StToIs, SegmentsToIs
    <2>3. StTo(ring.seg[i].block, prep.st) + 1 <= SegmentsTo(i, ring.head) + Extra
        BY DEF Segmented, InOrder
    <2> QED BY <1>3, <2>2, <2>3
<1>5. ASSUME st.steps = 0, st.block # None
      PROVE  StTo(st.block, prep.st) <= SegmentsTo(ring.tail, ring.head) + Extra'
    <2>1. StTo(st.block, prep.st) \in Nat /\ SegmentsTo(ring.tail, ring.head) \in Nat
        BY <1>2, <1>5, StToIs, SegmentsToIs
    <2>2. StTo(st.block, prep.st) <= SegmentsTo(ring.tail, ring.head) + Extra
        BY <1>5 DEF Segmented, InOrder
    <2> QED BY <1>3, <2>1, <2>2
<1>6. InOrder'
    BY <1>1, <1>4, <1>5 DEF InOrder
<1>7. DataKept' /\ Executed'
    BY <1>1 DEF Segmented, DataKept, Executed
<1> QED BY <1>6, <1>7 DEF Segmented

\* An empty ring is in order.
LEMMA DrainedSegmented == TypeOK' /\ Drained' => Segmented'
<1> SUFFICES ASSUME TypeOK', Drained' PROVE Segmented'
    OBVIOUS
<1>1. ring'.tail \in Segments /\ ring'.tail = ring'.head
    BY DEF TypeOK, Drained
<1>2. \A i \in Segments : SegmentsTo(ring'.tail, i) \in Nat
    BY <1>1, SegmentsToIs
<1>3. SegmentsTo(ring'.tail, ring'.tail) = 0
    BY <1>1, SegmentsToIs DEF Segments
<1>4. Queued' = {}
    BY <1>1, <1>2, <1>3 DEF Queued
<1> QED BY <1>4 DEF Segmented, InOrder, DataKept, Executed, Drained

\* Registers after a replan: the block is given up, or kept.
Replanned(r, u) ==
    /\ u \in PrepStates
    /\ u.st = r.st /\ u.copy = r.copy
    /\ u.flags.partial = r.flags.partial /\ u.flags.parking = r.flags.parking
    /\ \/ u.block = r.block /\ u.flags.velocity = r.flags.velocity
       \/ r.block # None /\ u.block = None /\ u.flags.velocity

LEMMA UpdatedReplans ==
    ASSUME NEW r \in PrepStates PROVE Replanned(r, Updated(r)) /\ Updated(r).block = None
<1>1. Updated(r) \in PrepStates /\ Updated(r).block = None
    BY UpdatedIs
<1>2. CASE r.block = None
    BY <1>1, <1>2 DEF Updated, Replanned
<1>3. CASE r.block # None
    <2> DEFINE u == [r EXCEPT !.flags.velocity = TRUE, !.block = None]
    <2>1. Updated(r) = u
        BY <1>3 DEF Updated
    <2>2. /\ u.st = r.st /\ u.copy = r.copy /\ u.block = None
          /\ u.flags.partial = r.flags.partial /\ u.flags.parking = r.flags.parking
          /\ u.flags.velocity
        BY DEF PrepStates, Flags
    <2> HIDE DEF u
    <2> QED BY <1>1, <1>3, <2>1, <2>2 DEF Replanned
<1> QED BY <1>2, <1>3

LEMMA RecalculatedReplans ==
    ASSUME NEW p, NEW r \in PrepStates PROVE Replanned(r, Recalculated(p, r))
<1>1. Replanned(r, r)
    BY DEF Replanned
<1> QED BY <1>1, UpdatedReplans DEF Recalculated

LEMMA ReinitializedReplans ==
    ASSUME NEW r \in PrepStates, CycleReinitialize(r) PROVE Replanned(r, prep') /\ prep'.block = None
<1> DEFINE u == Updated(r)
<1>1. Replanned(r, u) /\ u.block = None /\ u \in PrepStates
    BY UpdatedReplans DEF Replanned
<1> HIDE DEF u
<1>2. \A p : Replanned(u, Recalculated(p, u))
    BY <1>1, RecalculatedReplans
<1>3. prep' = u \/ \E p : prep' = Recalculated(p, u)
    BY DEF CycleReinitialize, u
<1>4. Replanned(u, prep') \/ prep' = u
    BY <1>2, <1>3
<1> QED BY <1>1, <1>4 DEF Replanned

\* A replan that keeps the motion which is prepared keeps its block.
LEMMA ReplanPrepares ==
    ASSUME TypeOK, BlockLoaded, Replanned(prep, prep'), UNCHANGED blocks,
           control'.exSys = control.exSys,
           Begun => /\ Current' = Current /\ plan'.slot[Current].motion = plan.slot[Current].motion
                    /\ Empty' => Empty
    PROVE  BlockLoaded' /\ (Begun => Begun')
<1>1. Begun' <=> Begun
    BY DEF Begun, Replanned
<1>2. prep'.block # None => prep'.block = prep.block /\ prep'.flags.velocity = prep.flags.velocity
    BY DEF Replanned
<1>3. prep'.block # None => prep'.block = Current' /\ ~prep'.flags.velocity
    BY <1>2 DEF BlockLoaded, Begun
<1>4. Begun' => blocks'[prep'.st] = plan'.slot[Current'].motion /\ (control'.exSys \/ ~Empty')
    BY <1>1 DEF BlockLoaded, Replanned
<1> QED BY <1>1, <1>3, <1>4 DEF BlockLoaded

-----------------------------------------------------------------------------
(* Steps, second time.                                                     *)

LEMMA BufferLineKeeps == IInv /\ BlocksInv /\ BufferLine => BlocksInv'
<1> SUFFICES ASSUME IInv, BlocksInv, BufferLine PROVE BlocksInv'
    OBVIOUS
<1>1. PICK n \in 1 .. MaxSteps :
         LET p == [plan EXCEPT
                     !.slot[plan.head] = [motion |-> count + 1, left |-> n, total |-> n],
                     !.head = NextSlot(@)]
         IN /\ \E i \in Planned(p) : plan' = [p EXCEPT !.planned = i]
            /\ prep' = Recalculated(p, prep)
    BY DEF BufferLine
<1>2. /\ TypeOK /\ prep \in PrepStates /\ plan \in PlanStates
      /\ state \in {"idle", "cycle"} /\ fg = "main" /\ ~Full
      /\ UNCHANGED <<blocks, ring, st, control, state, fg>>
    BY DEF IInv, TypeOK, PrepStates, PlanStates, BufferLine
<1>3. Replanned(prep, prep')
    BY <1>1, <1>2, RecalculatedReplans
<1>4. ~control.exSys
    BY <1>2 DEF IInv, SystemWhenParking
<1>5. /\ plan'.tail = plan.tail /\ plan'.head = NextSlot(plan.head)
      /\ \A j \in Slots \ {plan.head} : plan'.slot[j] = plan.slot[j]
    BY <1>1, <1>2 DEF PlanStates
<1>6. ~Empty'
    BY <1>2, <1>5 DEF Empty, Full
<1>7. Begun => plan.tail # plan.head
    BY <1>4 DEF BlocksInv, Prepared, BlockLoaded, Empty
<1>8. BlockLoaded' /\ (Begun => Begun')
    BY <1>2, <1>3, <1>4, <1>5, <1>6, <1>7, ReplanPrepares
       DEF BlocksInv, Prepared, Current, PlanStates
<1>9. Segmented'
    BY <1>2, <1>3, <1>8, SameSegmented DEF BlocksInv, Replanned
<1>10. ParkingKept'
    BY <1>2, <1>3, <1>4 DEF BlocksInv, Prepared, ParkingKept, Replanned
<1>11. Ending' /\ Resting'
    BY <1>2 DEF BlocksInv, Prepared, Ending, Resting, Drained
<1> QED BY <1>8, <1>9, <1>10, <1>11 DEF BlocksInv, Prepared

LEMMA FeedOverrideKeeps == IInv /\ BlocksInv /\ FeedOverride => BlocksInv'
<1> SUFFICES ASSUME IInv, BlocksInv, FeedOverride PROVE BlocksInv'
    OBVIOUS
<1>1. /\ TypeOK /\ prep \in PrepStates /\ CycleReinitialize(prep) /\ fg = "main"
      /\ UNCHANGED <<blocks, ring, st, control, state, fg>>
    BY DEF IInv, TypeOK, PrepStates, FeedOverride
<1>2. Replanned(prep, prep') /\ prep'.block = None
    BY <1>1, ReinitializedReplans
<1>3. plan'.slot = plan.slot /\ plan'.tail = plan.tail /\ plan'.head = plan.head
    BY <1>1, Reinitialized
<1>4. BlockLoaded' /\ (Begun => Begun')
    BY <1>1, <1>2, <1>3, ReplanPrepares DEF BlocksInv, Prepared, Current, Empty
<1>5. Segmented'
    BY <1>1, <1>2, <1>4, SameSegmented DEF BlocksInv, Replanned
<1>6. ParkingKept'
    BY <1>1, <1>2, <1>3 DEF BlocksInv, Prepared, ParkingKept, Replanned, Empty
<1>7. Ending' /\ Resting'
    BY <1>1, <1>2 DEF BlocksInv, Prepared, Ending, Resting, Drained
<1> QED BY <1>4, <1>5, <1>6, <1>7 DEF BlocksInv, Prepared

LEMMA EnterOrLeaveKeeps == IInv /\ BlocksInv /\ (EnterPrep \/ LeavePrep) => BlocksInv'
<1> SUFFICES ASSUME IInv, BlocksInv, EnterPrep \/ LeavePrep PROVE BlocksInv'
    OBVIOUS
<1>1. /\ UNCHANGED <<plan, prep, blocks, ring, st, control, state, count>> /\ fg' \in {"main", "prep"}
      /\ fg' = "prep" => Preparing /\ ~st.complete /\ ~control.endMotion
    BY DEF EnterPrep, LeavePrep
<1>2. Segmented'
    BY <1>1, SameSegmented DEF IInv, BlocksInv, Begun
<1>3. BlockLoaded' /\ ParkingKept'
    BY <1>1 DEF BlocksInv, Prepared, BlockLoaded, ParkingKept, Begun, Current, Empty
<1>4. Ending'
    BY <1>1 DEF BlocksInv, Prepared, Ending
<1>5. Resting'
    BY <1>1 DEF BlocksInv, Prepared, Resting, Drained, Preparing
<1> QED BY <1>2, <1>3, <1>4, <1>5 DEF BlocksInv, Prepared

\* The next block is not that of a queued segment, nor that of the last one.
LEMMA LoadBlockKeeps == IInv /\ BlocksInv /\ LoadBlock => BlocksInv'
<1> SUFFICES ASSUME IInv, BlocksInv, LoadBlock PROVE BlocksInv'
    OBVIOUS
<1> DEFINE flags == IF ParkingEnabled /\ prep.flags.parking
                    THEN [prep.flags EXCEPT !.velocity = FALSE] ELSE NoFlags
           next == NextStBlock(prep.st)
<1>1. /\ TypeOK /\ TypeOK' /\ fg = "prep" /\ Room /\ prep.block = None /\ (control.exSys \/ ~Empty)
      /\ UNCHANGED <<plan, ring, st, control, state, fg, count>>
    BY LoadBlockStep DEF IInv, LoadBlock
<1>2. \/ /\ prep.flags.velocity
         /\ prep' = [prep EXCEPT !.block = Current, !.flags = flags] /\ UNCHANGED blocks
      \/ /\ ~prep.flags.velocity
         /\ blocks' = [blocks EXCEPT ![next] = plan.slot[Current].motion]
         /\ prep' = [prep EXCEPT !.block = Current, !.st = next, !.left = plan.slot[Current].total]
    BY DEF LoadBlock, Current
<1>3. /\ prep \in PrepStates /\ prep' \in PrepStates /\ blocks \in [StBlocks -> Motions]
      /\ ring \in RingStates /\ Current \in Slots /\ Current' = Current
    BY <1>1 DEF TypeOK, PrepStates, RingStates, Current
<1>4. ~st.complete /\ state \notin {"idle", "held", "parked"} /\ ~control.endMotion
    BY <1>1 DEF BlocksInv, Prepared, Resting, Ending, Preparing
<1>5. prep'.block = Current /\ prep'.block # None /\ Begun'
    <2> HIDE DEF flags, next
    <2>1. prep'.block = Current
        BY <1>2, <1>3 DEF PrepStates
    <2>2. Current # None
        BY <1>3 DEF Slots, None
    <2> QED BY <2>1, <2>2 DEF Begun
<1>6. /\ ~flags.velocity /\ flags.parking = control.exSys
      /\ flags.partial => control.exSys /\ prep.flags.partial
    BY <1>3 DEF BlocksInv, Prepared, ParkingKept, NoFlags, PrepStates, Flags
<1> HIDE DEF flags
<1>7. Ending' /\ Resting'
    BY <1>1, <1>4 DEF BlocksInv, Prepared, Ending, Resting, Preparing
<1>8. CASE prep.flags.velocity
    <2>1. prep'.st = prep.st /\ prep'.flags = flags /\ prep'.copy = prep.copy /\ UNCHANGED blocks
        BY <1>2, <1>3, <1>8 DEF PrepStates
    <2>2. Segmented'
        BY <1>1, <1>5, <2>1, SameSegmented DEF BlocksInv
    <2>3. BlockLoaded'
        BY <1>1, <1>3, <1>5, <1>6, <1>8, <2>1 DEF BlocksInv, Prepared, BlockLoaded, Begun, Empty
    <2>4. ParkingKept'
        BY <1>1, <1>6, <2>1 DEF BlocksInv, Prepared, ParkingKept, Empty
    <2> QED BY <1>7, <2>2, <2>3, <2>4 DEF BlocksInv, Prepared
<1>9. CASE ~prep.flags.velocity
    <2>1. /\ prep'.st = next /\ prep'.flags = prep.flags /\ prep'.copy = prep.copy
          /\ blocks' = [blocks EXCEPT ![next] = plan.slot[Current].motion]
        BY <1>2, <1>3, <1>9 DEF PrepStates
    <2>2. Extra = 0 /\ Extra' = 1
        BY <1>1, <1>5, <1>9 DEF Extra, Begun
    <2>3. /\ prep.st \in StBlocks /\ ring.tail \in Segments /\ ring.head \in Segments
          /\ st.block \in StBlocks \union {None}
          /\ \A i \in Segments : ring.seg[i].block \in StBlocks
        BY <1>1 DEF TypeOK
    <2>4. next \in StBlocks /\ next # prep.st
        BY <2>3, StToNext
    <2> DEFINE N == SegmentsTo(ring.tail, ring.head)
    <2>5. N \in Nat /\ N <= SegmentBufferSize - 2
        BY <1>1, <2>3, HeadAdvances, SegmentsToIs DEF Room
    <2>6. Queued' = Queued /\ Queued \subseteq Segments
        BY <1>1 DEF Queued
    <2>7. ASSUME NEW i \in Queued
          PROVE  /\ StTo(ring.seg[i].block, next) + 1 <= SegmentsTo(i, ring.head) + 1
                 /\ ring.seg[i].block # next
        <3> DEFINE b == ring.seg[i].block
        <3>1. i \in Segments /\ b \in StBlocks /\ SegmentsTo(ring.tail, i) < N
            BY <2>3, <2>6 DEF Queued
        <3>2. StTo(b, prep.st) + 1 <= SegmentsTo(i, ring.head)
            BY <2>2, <2>3, <3>1, SegmentsToIs DEF BlocksInv, Segmented, InOrder
        <3>3. SegmentsTo(i, ring.head) <= N
            BY <2>3, <3>1, HeadDistance
        <3> HIDE DEF b, N
        <3>4. StTo(b, prep.st) \in Nat /\ StTo(b, next) \in Nat /\ SegmentsTo(i, ring.head) \in Nat
            BY <2>3, <2>4, <3>1, StToIs, SegmentsToIs
        <3>5. StTo(b, prep.st) < SegmentBufferSize - 2
            BY <2>5, <3>2, <3>3, <3>4, SizesAssumption
        <3>6. StTo(b, next) <= StTo(b, prep.st) + 1 /\ next # b
            BY <2>3, <3>1, <3>5, StToNext
        <3>7. StTo(b, next) + 1 <= SegmentsTo(i, ring.head) + 1
            BY <3>2, <3>4, <3>6
        <3> QED BY <3>6, <3>7 DEF b
    <2>8. ASSUME st.steps = 0, st.block # None
          PROVE  /\ StTo(st.block, next) <= N + 1
                 /\ ring.tail = ring.head => st.block = prep.st
        <3>1. st.block \in StBlocks
            BY <2>3, <2>8
        <3>2. StTo(st.block, prep.st) <= N /\ StTo(st.block, prep.st) \in Nat /\ StTo(st.block, next) \in Nat
            BY <2>2, <2>3, <2>4, <2>5, <2>8, <3>1, StToIs DEF BlocksInv, Segmented, InOrder
        <3>3. StTo(st.block, next) <= StTo(st.block, prep.st) + 1
            BY <2>3, <3>1, StToNext
        <3>4. ASSUME ring.tail = ring.head PROVE st.block = prep.st
            <4>1. N = 0
                BY <2>3, <3>4, SegmentsToIs DEF Segments
            <4>2. StTo(st.block, prep.st) = 0
                BY <3>2, <4>1
            <4> QED BY <2>3, <3>1, <4>2, StToNext
        <3> HIDE DEF N
        <3> QED BY <2>5, <3>2, <3>3, <3>4
    <2>9. InOrder'
        BY <1>1, <2>1, <2>2, <2>6, <2>7, <2>8 DEF InOrder
    <2>10. DataKept'
        BY <1>1, <1>3, <2>1, <2>4, <2>6, <2>7 DEF BlocksInv, Segmented, DataKept
    <2>11. Executed'
        <3>1. st.steps > 0 =>
                 st.block = ring.seg[ring.tail].block /\ st.motion = ring.seg[ring.tail].motion
            BY DEF BlocksInv, Segmented, Executed
        <3>2. ASSUME st.steps = 0, st.block # None,
                     st.block = IF ring.tail = ring.head THEN next ELSE ring.seg[ring.tail].block
              PROVE  st.motion = blocks'[st.block]
            <4>1. ring.tail # ring.head
                BY <2>4, <2>8, <3>2
            <4>2. ring.tail \in Queued
                BY <2>3, <4>1, TailAdvances DEF Queued
            <4>3. st.block = ring.seg[ring.tail].block /\ st.block # next
                BY <2>7, <3>2, <4>1, <4>2
            <4>4. st.motion = blocks[st.block]
                BY <3>2, <4>1, <4>3 DEF BlocksInv, Segmented, Executed
            <4> QED BY <1>3, <2>1, <4>3, <4>4
        <3> QED BY <1>1, <2>1, <3>1, <3>2 DEF Executed
    <2>12. BlockLoaded'
        BY <1>1, <1>3, <1>5, <1>9, <2>1, <2>4 DEF BlocksInv, Prepared, BlockLoaded, Empty
    <2>13. ParkingKept'
        BY <1>1, <1>9, <2>1 DEF BlocksInv, Prepared, ParkingKept, Empty
    <2> QED BY <1>7, <2>9, <2>10, <2>11, <2>12, <2>13 DEF BlocksInv, Prepared, Segmented
<1> QED BY <1>8, <1>9


LEMMA BailOutKeeps == IInv /\ BlocksInv /\ BailOut => BlocksInv'
<1> SUFFICES ASSUME IInv, BlocksInv, BailOut PROVE BlocksInv'
    OBVIOUS
<1> DEFINE partial == prep.flags.partial \/ (ParkingEnabled /\ ~prep.flags.parking)
<1>1. /\ TypeOK /\ prep \in PrepStates /\ fg = "prep" /\ prep.block # None /\ control.exHold
      /\ control' = [control EXCEPT !.endMotion = TRUE]
      /\ prep' = [prep EXCEPT !.flags.partial = partial] /\ fg' = "main"
      /\ UNCHANGED <<plan, blocks, ring, st, state, count>>
    BY DEF IInv, TypeOK, PrepStates, BailOut
<1>2. partial = (prep.flags.partial \/ (ParkingEnabled /\ ~control.exSys))
    <2>1. prep.flags.parking = control.exSys
        BY DEF BlocksInv, Prepared, ParkingKept
    <2> QED BY Zenon, <2>1
<1> HIDE DEF partial
<1>3. /\ prep'.block = prep.block /\ prep'.st = prep.st /\ prep'.copy = prep.copy
      /\ prep'.flags.partial = partial /\ prep'.flags.parking = prep.flags.parking
      /\ prep'.flags.velocity = prep.flags.velocity
    BY <1>1 DEF PrepStates, Flags
<1>4. control'.endMotion /\ control'.exSys = control.exSys /\ control'.exHold = control.exHold
    BY <1>1 DEF IInv, TypeOK
<1>5. Segmented'
    BY <1>1, <1>3, SameSegmented DEF BlocksInv, Begun
<1>6. BlockLoaded'
    BY <1>1, <1>3, <1>4 DEF BlocksInv, Prepared, BlockLoaded, Begun, Current, Empty
<1>7. ParkingKept'
    <2>1. CASE control.exSys
        BY <1>1, <1>2, <1>3, <1>4, <2>1 DEF BlocksInv, Prepared, ParkingKept, Empty
    <2>2. CASE ~control.exSys
        BY <1>1, <1>3, <1>4, <2>2 DEF BlocksInv, Prepared, ParkingKept
    <2> QED BY <2>1, <2>2
<1>8. Ending' /\ Resting'
    BY <1>1, <1>3, <1>4 DEF BlocksInv, Prepared, Ending, Resting, Drained
<1> QED BY <1>5, <1>6, <1>7, <1>8 DEF BlocksInv, Prepared

\* A segment that is added has the block prep.st, which has the data of its motion.
LEMMA AddSegmentKeeps == IInv /\ BlocksInv /\ AddSegment => BlocksInv'
<1> SUFFICES ASSUME IInv, BlocksInv, AddSegment PROVE BlocksInv'
    OBVIOUS
<1> DEFINE slot == prep.block
           motion == plan.slot[slot].motion
<1>1. /\ TypeOK /\ TypeOK' /\ plan \in PlanStates /\ prep \in PrepStates /\ ring \in RingStates
      /\ fg = "prep" /\ Room /\ slot # None /\ slot \in Slots
      /\ UNCHANGED <<blocks, st, state, count>>
    BY AddSegmentStep DEF IInv, TypeOK, PlanStates, PrepStates, RingStates, AddSegment
<1>2. PICK left \in 0 .. plan.slot[slot].left, forced \in BOOLEAN :
         /\ forced => control.exHold /\ left # 0
         /\ ring' = [ring EXCEPT
                       !.seg[ring.head] = [block |-> prep.st, steps |-> prep.left - left,
                                           motion |-> motion],
                       !.head = NextSegment(@)]
         /\ LET advanced == [prep EXCEPT !.left = left]
                consumed == [plan EXCEPT !.slot[slot].left = left]
            IN IF forced
               THEN /\ prep' = [advanced EXCEPT !.flags.partial =
                                   @ \/ (ParkingEnabled /\ ~prep.flags.parking)]
                    /\ plan' = consumed
               ELSE IF left = 0 /\ ~control.exSys
               THEN /\ prep' = [advanced EXCEPT !.block = None]
                    /\ plan' = Discarded(consumed)
               ELSE prep' = advanced /\ plan' = consumed
         /\ control' = [control EXCEPT !.endMotion =
                           @ \/ forced \/ (left = 0 /\ control.exSys)]
         /\ fg' = IF control'.endMotion THEN "main" ELSE "prep"
    BY DEF AddSegment
<1> DEFINE consumed == [plan EXCEPT !.slot[slot].left = left]
           advanced == [prep EXCEPT !.left = left]
           partial == prep.flags.partial \/ (ParkingEnabled /\ ~prep.flags.parking)
           new == [block |-> prep.st, steps |-> prep.left - left, motion |-> motion]
           ended == ~forced /\ left = 0 /\ ~control.exSys
<1>3. slot = Current /\ ~prep.flags.velocity /\ Begun /\ blocks[prep.st] = motion
      /\ (control.exSys \/ ~Empty)
    BY <1>1 DEF BlocksInv, Prepared, BlockLoaded, Begun
<1>4. ~control.endMotion /\ Preparing /\ ~st.complete
    BY <1>1 DEF BlocksInv, Prepared, Ending, Resting
<1>5. state \notin {"idle", "held", "parked"}
    BY <1>4 DEF Preparing
<1>6. prep.flags.partial => control.exSys
    BY <1>3, <1>4 DEF BlocksInv, Prepared, ParkingKept
<1>7. /\ ring'.tail = ring.tail /\ ring'.head = NextSegment(ring.head)
      /\ ring'.seg[ring.head].block = prep.st /\ ring'.seg[ring.head].motion = motion
      /\ \A i \in Segments \ {ring.head} : ring'.seg[i] = ring.seg[i]
    BY <1>1, <1>2 DEF RingStates
<1>8. /\ consumed.tail = plan.tail /\ consumed.head = plan.head
      /\ \A i \in Slots : consumed.slot[i].motion = plan.slot[i].motion
    BY <1>1 DEF PlanStates
<1>9. /\ control'.exSys = control.exSys /\ control'.exHold = control.exHold
      /\ control'.endMotion = (forced \/ (left = 0 /\ control.exSys))
    BY <1>1, <1>2, <1>4 DEF TypeOK
<1>10. /\ prep'.st = prep.st /\ prep'.copy = prep.copy
       /\ prep'.flags.velocity = prep.flags.velocity /\ prep'.flags.parking = prep.flags.parking
       /\ prep'.block = (IF ended THEN None ELSE slot)
       /\ prep'.flags.partial = (IF forced THEN partial ELSE prep.flags.partial)
    <2>1. CASE forced
        <3>1. prep' = [advanced EXCEPT !.flags.partial = partial]
            BY <1>1, <1>2, <2>1 DEF PrepStates
        <3> HIDE DEF partial
        <3> QED BY <1>1, <2>1, <3>1 DEF PrepStates, Flags
    <2>2. CASE ~forced
        BY <1>1, <1>2, <2>2 DEF PrepStates
    <2> QED BY <2>1, <2>2
<1>11. plan' = IF ended THEN Discarded(consumed) ELSE consumed
    BY <1>2
<1> HIDE DEF consumed, advanced, partial, new, ended
<1>12. /\ prep.st \in StBlocks /\ ring.tail \in Segments /\ ring.head \in Segments
       /\ NextSegment(ring.head) # ring.tail /\ st.block \in StBlocks \union {None}
       /\ \A i \in Segments : ring.seg[i].block \in StBlocks
    BY <1>1 DEF TypeOK, Room
<1>13. \A i \in Queued' : i \in Segments /\ (i = ring.head \/ i \in Queued)
    <2> SUFFICES ASSUME NEW i \in Segments,
                        SegmentsTo(ring'.tail, i) < SegmentsTo(ring'.tail, ring'.head)
                 PROVE  i = ring.head \/ i \in Queued
        BY DEF Queued
    <2>1. i = ring.head \/ SegmentsTo(ring.tail, i) < SegmentsTo(ring.tail, ring.head)
        BY <1>7, <1>12, QueueGrows
    <2> QED BY <2>1 DEF Queued
<1>14. Extra = 1 /\ Extra' \in {0, 1}
    BY <1>3 DEF Extra
<1>15. ring.head \notin Queued
    <2>1. ~(SegmentsTo(ring.tail, ring.head) < SegmentsTo(ring.tail, ring.head))
        BY <1>12, SegmentsToIs
    <2> QED BY <2>1 DEF Queued
<1>16. ASSUME NEW i \in Queued'
       PROVE  StTo(ring'.seg[i].block, prep'.st) + 1 <= SegmentsTo(i, ring'.head) + Extra'
    <2>1. CASE i = ring.head
        <3>1. SegmentsTo(i, ring'.head) = 1
            BY <1>7, <1>12, <2>1, HeadAdvances
        <3>2. StTo(prep.st, prep.st) = 0
            BY <1>12, StToNext
        <3> QED BY <1>7, <1>10, <1>14, <2>1, <3>1, <3>2
    <2>2. CASE i # ring.head
        <3>1. i \in Queued /\ i \in Segments /\ ring'.seg[i] = ring.seg[i]
            BY <1>7, <1>13, <2>2
        <3>2. SegmentsTo(i, ring'.head) = SegmentsTo(i, ring.head) + 1
            BY <1>7, <1>12, <3>1, HeadAdvances DEF Queued
        <3>3. StTo(ring.seg[i].block, prep.st) + 1 <= SegmentsTo(i, ring.head) + 1
            BY <1>14, <3>1 DEF BlocksInv, Segmented, InOrder
        <3>4. StTo(ring.seg[i].block, prep.st) \in Nat /\ SegmentsTo(i, ring.head) \in Nat
            BY <1>12, <3>1, StToIs, SegmentsToIs
        <3>5. StTo(ring'.seg[i].block, prep'.st) = StTo(ring.seg[i].block, prep.st)
            BY <1>10, <3>1
        <3> QED BY <1>14, <3>2, <3>3, <3>4, <3>5
    <2> QED BY <2>1, <2>2
<1>17. ASSUME st.steps = 0, st.block # None
       PROVE  StTo(st.block, prep'.st) <= SegmentsTo(ring'.tail, ring'.head) + Extra'
    <2>1. SegmentsTo(ring'.tail, ring'.head) = SegmentsTo(ring.tail, ring.head) + 1
        BY <1>7, <1>12, HeadAdvances
    <2>2. StTo(st.block, prep.st) <= SegmentsTo(ring.tail, ring.head) + 1
        BY <1>14, <1>17 DEF BlocksInv, Segmented, InOrder
    <2>3. StTo(st.block, prep.st) \in Nat /\ SegmentsTo(ring.tail, ring.head) \in Nat
        BY <1>12, <1>17, StToIs, SegmentsToIs
    <2> QED BY <1>10, <1>14, <2>1, <2>2, <2>3
<1>18. InOrder'
    BY <1>1, <1>16, <1>17 DEF InOrder
<1>19. DataKept'
    <2> SUFFICES ASSUME NEW i \in Queued' PROVE blocks[ring'.seg[i].block] = ring'.seg[i].motion
        BY <1>1 DEF DataKept
    <2>1. CASE i = ring.head
        BY <1>3, <1>7, <2>1
    <2>2. CASE i # ring.head
        BY <1>7, <1>13, <2>2 DEF BlocksInv, Segmented, DataKept
    <2> QED BY <2>1, <2>2
<1>20. ring'.tail # ring'.head
    BY <1>7, <1>12
<1>21. Executed'
    <2>1. ASSUME st.steps > 0
          PROVE  st.block = ring'.seg[ring.tail].block /\ st.motion = ring'.seg[ring.tail].motion
        <3>1. ring.tail # ring.head
            BY <2>1 DEF IInv, ExecutedQueued
        <3> QED BY <1>7, <1>12, <2>1, <3>1 DEF BlocksInv, Segmented, Executed
    <2>2. ASSUME st.steps = 0, st.block # None, st.block = ring'.seg[ring.tail].block
          PROVE  st.motion = blocks[st.block]
        <3>1. CASE ring.tail = ring.head
            BY <1>7, <2>2, <3>1 DEF BlocksInv, Segmented, Executed
        <3>2. CASE ring.tail # ring.head
            BY <1>7, <1>12, <2>2, <3>2 DEF BlocksInv, Segmented, Executed
        <3> QED BY <3>1, <3>2
    <2> QED BY <1>1, <1>7, <1>20, <2>1, <2>2 DEF Executed
<1>22. BlockLoaded'
    <2>1. CASE ended
        BY <1>3, <1>10, <2>1 DEF BlockLoaded, Begun
    <2>2. CASE ~ended
        BY <1>1, <1>3, <1>8, <1>9, <1>10, <1>11, <2>2 DEF BlockLoaded, Begun, Current, Empty
    <2> QED BY <2>1, <2>2
<1>23. ParkingKept'
    <2>1. CASE control.exSys
        <3>1. ~ended /\ plan' = consumed
            BY <1>11, <2>1 DEF ended
        <3>2. partial = prep.flags.partial
            <4>1. prep.flags.parking
                BY <2>1 DEF BlocksInv, Prepared, ParkingKept
            <4>2. prep.flags.partial \in BOOLEAN
                BY <1>1 DEF PrepStates, Flags
            <4> QED BY Zenon, <4>1, <4>2 DEF partial
        <3>3. plan.tail \in Slots
            BY <1>1 DEF PlanStates
        <3> QED BY <1>8, <1>9, <1>10, <2>1, <3>1, <3>2, <3>3 DEF BlocksInv, Prepared, ParkingKept, Empty
    <2>2. CASE ~control.exSys
        <3>1. CASE forced
            <4>1. ~ended
                BY <3>1 DEF ended
            <4> QED BY <1>1, <1>9, <1>10, <2>2, <3>1, <4>1 DEF BlocksInv, Prepared, ParkingKept
        <3>2. CASE ~forced
            BY <1>6, <1>9, <1>10, <2>2, <3>2 DEF BlocksInv, Prepared, ParkingKept
        <3> QED BY <3>1, <3>2
    <2> QED BY <2>1, <2>2
<1>24. Ending'
    <2>1. control.exSys => state \in {"park_start", "park", "park_stop"}
        BY DEF IInv, SystemWhenParking
    <2> QED BY <1>1, <1>2, <1>9, <2>1 DEF BlocksInv, Prepared, Ending
<1>25. Resting'
    BY <1>1, <1>4, <1>5 DEF Resting, Preparing
<1> QED BY <1>18, <1>19, <1>21, <1>22, <1>23, <1>24, <1>25 DEF BlocksInv, Segmented, Prepared

\* The interrupt executes what is queued, and keeps the last block in mind.
LEMMA StepInterruptKeeps == IInv /\ BlocksInv /\ StepInterrupt => BlocksInv'
<1> SUFFICES ASSUME IInv, BlocksInv, StepInterrupt PROVE BlocksInv'
    OBVIOUS
<1> DEFINE seg == ring.seg[ring.tail]
           loaded == [st EXCEPT !.block = seg.block, !.steps = seg.steps,
                                !.motion = IF st.block = seg.block THEN @
                                           ELSE blocks[seg.block]]
           s == IF st.steps > 0 THEN st ELSE loaded
           StStates == [stepping : BOOLEAN, block : StBlocks \union {None},
                        steps : 0 .. MaxSteps, motion : Motions, complete : BOOLEAN]
<1>1. /\ TypeOK /\ TypeOK' /\ ring \in RingStates /\ st \in StStates
      /\ ring.tail \in Segments /\ ring.head \in Segments /\ prep.st \in StBlocks
      /\ UNCHANGED <<plan, prep, blocks, control, state, fg, count>>
    BY StepInterruptStep DEF IInv, TypeOK, RingStates, StepInterrupt
<1>2. Stepped(s)
    BY DEF StepInterrupt
<1>3. ring.tail # ring.head
    BY DEF StepInterrupt, IInv, ExecutedQueued
<1>4. ring.tail \in Queued
    BY <1>1, <1>3, TailAdvances DEF Queued
<1>5. /\ seg.block \in StBlocks /\ seg.steps \in 1 .. MaxSteps /\ blocks[seg.block] = seg.motion
    BY <1>1, <1>4 DEF IInv, SegmentsFilled, RingStates, BlocksInv, Segmented, DataKept
<1>6. s.block = seg.block /\ s.motion = seg.motion /\ s.steps \in 1 .. MaxSteps /\ s.complete = st.complete
    <2>1. CASE st.steps > 0
        BY <1>1, <2>1 DEF BlocksInv, Segmented, Executed
    <2>2. CASE ~(st.steps > 0)
        <3>1. st.steps = 0
            BY <1>1, <2>2, SizesAssumption
        <3>2. /\ s.block = seg.block /\ s.steps = seg.steps /\ s.complete = st.complete
              /\ s.motion = (IF st.block = seg.block THEN st.motion ELSE blocks[seg.block])
            BY <1>1, <2>2
        <3>3. seg.block # None
            BY <1>5, SizesAssumption DEF StBlocks, None
        <3>4. st.block = seg.block => st.motion = blocks[seg.block]
            BY <1>3, <3>1, <3>3 DEF BlocksInv, Segmented, Executed
        <3> QED BY <1>5, <3>2, <3>4
    <2> QED BY <2>1, <2>2
<1>7. s \in StStates
    <2>1. seg.motion \in Motions
        BY <1>1 DEF RingStates
    <2> DEFINE motion == IF st.block = seg.block THEN st.motion ELSE blocks[seg.block]
    <2>2. motion \in Motions
        BY <1>1, <1>5, <2>1
    <2>3. loaded = [st EXCEPT !.block = seg.block, !.steps = seg.steps, !.motion = motion]
        OBVIOUS
    <2> HIDE DEF motion, loaded
    <2>4. seg.steps \in 0 .. MaxSteps
        BY <1>5, SizesAssumption
    <2>5. loaded \in StStates
        BY <1>1, <1>5, <2>2, <2>3, <2>4
    <2> QED BY <1>1, <2>5
<1> HIDE DEF s, loaded
<1>8. /\ st'.block = seg.block /\ st'.motion = seg.motion /\ st'.steps = s.steps - 1
      /\ st'.complete = st.complete
    BY <1>2, <1>6, <1>7 DEF Stepped
<1>9. ~st.complete /\ state \notin {"idle", "held", "parked"}
    BY <1>3 DEF BlocksInv, Prepared, Resting, Drained
<1>10. Prepared'
    <2>1. BlockLoaded' /\ ParkingKept' /\ Ending'
        BY <1>1 DEF BlocksInv, Prepared, BlockLoaded, ParkingKept, Ending, Begun, Current, Empty
    <2>2. Resting'
        BY <1>1, <1>8, <1>9 DEF BlocksInv, Prepared, Resting, Preparing
    <2> QED BY <2>1, <2>2 DEF Prepared
<1>11. Extra' = Extra /\ Extra \in {0, 1}
    BY <1>1 DEF Extra, Begun
<1>12. CASE s.steps # 1
    <2>1. ring' = ring /\ st'.steps > 0
        BY <1>2, <1>6, <1>8, <1>12 DEF Stepped
    <2>2. Queued' = Queued
        BY <2>1 DEF Queued
    <2>3. InOrder' /\ DataKept' /\ Executed'
        BY <1>1, <1>8, <1>11, <2>1, <2>2 DEF BlocksInv, Segmented, InOrder, DataKept, Executed
    <2> QED BY <1>10, <2>3 DEF BlocksInv, Segmented
<1>13. CASE s.steps = 1
    <2>1. /\ ring' = [ring EXCEPT !.seg[ring.tail] = NoSegment, !.tail = NextSegment(@)]
          /\ st'.steps = 0
        BY <1>2, <1>8, <1>13 DEF Stepped
    <2>2. /\ ring'.tail = NextSegment(ring.tail) /\ ring'.head = ring.head
          /\ \A i \in Segments \ {ring.tail} : ring'.seg[i] = ring.seg[i]
        BY <1>1, <2>1 DEF RingStates
    <2>3. \A i \in Queued' : i \in Segments /\ i # ring.tail /\ i \in Queued
        <3> SUFFICES ASSUME NEW i \in Segments,
                            SegmentsTo(ring'.tail, i) < SegmentsTo(ring'.tail, ring'.head)
                     PROVE  i # ring.tail /\ i \in Queued
            BY DEF Queued
        <3>1. i # ring.tail /\ SegmentsTo(ring.tail, i) < SegmentsTo(ring.tail, ring.head)
            BY <1>1, <1>3, <2>2, QueueShrinks
        <3> QED BY <3>1 DEF Queued
    <2>4. InOrder'
        <3>1. ASSUME NEW i \in Queued'
              PROVE  StTo(ring'.seg[i].block, prep.st) + 1 <= SegmentsTo(i, ring.head) + Extra
            BY <2>2, <2>3 DEF BlocksInv, Segmented, InOrder
        <3>2. StTo(seg.block, prep.st) <= SegmentsTo(ring'.tail, ring.head) + Extra
            <4>1. SegmentsTo(ring'.tail, ring.head) = SegmentsTo(ring.tail, ring.head) - 1
                BY <1>1, <1>3, <2>2, TailAdvances
            <4>2. StTo(seg.block, prep.st) + 1 <= SegmentsTo(ring.tail, ring.head) + Extra
                BY <1>4 DEF BlocksInv, Segmented, InOrder
            <4>3. StTo(seg.block, prep.st) \in Nat /\ SegmentsTo(ring.tail, ring.head) \in Nat
                BY <1>1, <1>5, StToIs, SegmentsToIs
            <4> QED BY <1>11, <4>1, <4>2, <4>3
        <3> QED BY <1>1, <1>8, <1>11, <2>2, <3>1, <3>2 DEF InOrder
    <2>5. DataKept'
        BY <1>1, <2>2, <2>3 DEF BlocksInv, Segmented, DataKept
    <2>6. Executed'
        BY <1>1, <1>5, <1>8, <2>1 DEF Executed
    <2> QED BY <1>10, <2>4, <2>5, <2>6 DEF BlocksInv, Segmented
<1> QED BY <1>12, <1>13

LEMMA SegmentsExhaustedKeeps == IInv /\ BlocksInv /\ SegmentsExhausted => BlocksInv'
<1> SUFFICES ASSUME IInv, BlocksInv, SegmentsExhausted PROVE BlocksInv'
    OBVIOUS
<1>1. TypeOK'
    BY SegmentsExhaustedStep DEF IInv
<1>2. /\ st'.steps = 0 /\ st'.block = None /\ ring.tail = ring.head /\ NothingToPrepare
      /\ UNCHANGED <<plan, prep, blocks, ring, control, state, fg, count>>
    BY DEF SegmentsExhausted, AtRest
<1>3. Drained'
    BY <1>2 DEF Drained
<1>4. Segmented'
    BY <1>1, <1>3, DrainedSegmented
<1>5. BlockLoaded' /\ ParkingKept' /\ Ending'
    BY <1>2 DEF BlocksInv, Prepared, BlockLoaded, ParkingKept, Ending, Begun, Current, Empty
<1>6. Resting'
    BY <1>2, <1>3 DEF BlocksInv, Prepared, Resting, Ending, Preparing, NothingToPrepare, Empty
<1> QED BY <1>4, <1>5, <1>6 DEF BlocksInv, Prepared

\* A cycle complete that is taken leaves the registers of the interrupt.
LEMMA CompletedKeeps ==
    TypeOK /\ Completed => /\ st.complete /\ st'.complete = FALSE
                           /\ st'.block = st.block /\ st'.steps = st.steps
                           /\ st'.motion = st.motion
BY DEF TypeOK, Completed

\* What the state machine does with the rings as they are
LEMMA CycleStartKeeps == IInv /\ BlocksInv /\ CycleStart => BlocksInv'
<1> SUFFICES ASSUME IInv, BlocksInv, CycleStart PROVE BlocksInv'
    OBVIOUS
<1>1. /\ TypeOK /\ fg = "main" /\ state \in {"idle", "held", "parked"}
      /\ state' \in {"idle", "start"} /\ control' = NoControl
      /\ UNCHANGED <<plan, prep, blocks, ring, st, fg, count>>
    BY DEF IInv, CycleStart
<1>2. control.exSys = FALSE /\ control'.exSys = FALSE /\ ~control'.exHold /\ ~control'.endMotion
    BY <1>1 DEF IInv, TypeOK, SystemWhenParking, NoControl
<1>3. Segmented'
    BY <1>1, SameSegmented DEF BlocksInv, Begun
<1>4. BlockLoaded'
    BY <1>1, <1>2 DEF BlocksInv, Prepared, BlockLoaded, Begun, Current, Empty
<1>5. prep.flags.partial => prep.flags.velocity
    BY <1>1, <1>2 DEF BlocksInv, Prepared, ParkingKept, Ending, Resting
<1>6. ParkingKept'
    BY <1>1, <1>2, <1>5 DEF BlocksInv, Prepared, ParkingKept, NoControl
<1>7. Ending' /\ Resting'
    BY <1>1, <1>2 DEF BlocksInv, Prepared, Ending, Resting, Drained
<1> QED BY <1>3, <1>4, <1>6, <1>7 DEF BlocksInv, Prepared

LEMMA WakeUpKeeps == IInv /\ BlocksInv /\ WakeUp => BlocksInv'
<1> SUFFICES ASSUME IInv, BlocksInv, WakeUp PROVE BlocksInv'
    OBVIOUS
<1>1. /\ TypeOK /\ fg = "main" /\ state \in {"start", "park_start"}
      /\ state' = (IF state = "start" THEN "cycle" ELSE "park")
      /\ st' = [st EXCEPT !.stepping = TRUE]
      /\ UNCHANGED <<plan, prep, blocks, ring, control, fg, count>>
    BY DEF IInv, WakeUp
<1>2. /\ st'.block = st.block /\ st'.steps = st.steps /\ st'.motion = st.motion
      /\ st'.complete = st.complete
    BY <1>1 DEF TypeOK
<1>3. Segmented'
    BY <1>1, <1>2, SameSegmented DEF BlocksInv, Begun
<1>4. BlockLoaded' /\ ParkingKept'
    BY <1>1 DEF BlocksInv, Prepared, BlockLoaded, ParkingKept, Begun, Current, Empty
<1>5. Ending' /\ Resting'
    BY <1>1, <1>2 DEF BlocksInv, Prepared, Ending, Resting, Drained
<1> QED BY <1>3, <1>4, <1>5 DEF BlocksInv, Prepared

LEMMA CycleCompleteKeeps == IInv /\ BlocksInv /\ CycleComplete => BlocksInv'
<1> SUFFICES ASSUME IInv, BlocksInv, CycleComplete PROVE BlocksInv'
    OBVIOUS
<1>1. /\ TypeOK /\ fg = "main" /\ state = "cycle" /\ state' = "idle"
      /\ Completed /\ control' = NoControl
      /\ UNCHANGED <<plan, prep, blocks, ring, fg, count>>
    BY DEF IInv, CycleComplete, Main
<1>2. /\ st.complete /\ st'.block = st.block /\ st'.steps = st.steps /\ st'.motion = st.motion
      /\ ~st'.complete
    BY <1>1, CompletedKeeps
<1>3. control.exSys = FALSE /\ control'.exSys = FALSE /\ ~control'.exHold /\ ~control'.endMotion
    BY <1>1 DEF IInv, TypeOK, SystemWhenParking, NoControl
<1>4. Segmented'
    BY <1>1, <1>2, SameSegmented DEF BlocksInv, Begun
<1>5. BlockLoaded'
    BY <1>1, <1>3 DEF BlocksInv, Prepared, BlockLoaded, Begun, Current, Empty
<1>6. prep.flags.partial => prep.flags.velocity
    BY <1>1, <1>3 DEF BlocksInv, Prepared, ParkingKept, Ending
<1>7. ParkingKept'
    BY <1>1, <1>3, <1>6 DEF BlocksInv, Prepared, ParkingKept, NoControl
<1>8. Ending' /\ Resting'
    BY <1>1, <1>2, <1>3 DEF BlocksInv, Prepared, Ending, Resting, Drained
<1> QED BY <1>4, <1>5, <1>7, <1>8 DEF BlocksInv, Prepared

\* A hold, a retract that is restarted, a cancel: the plan is given up.
LEMMA DecelerationKeeps ==
    ASSUME IInv, BlocksInv, "fast" \notin Cancels,
           InitiateHold \/ RestartRetract \/ MotionCancel
    PROVE  BlocksInv'
<1>1. /\ TypeOK /\ prep \in PrepStates /\ fg = "main" /\ ~st.complete
      /\ prep' = Updated(prep) /\ control' = [control EXCEPT !.exHold = TRUE]
      /\ \/ state = "cycle" /\ state' \in {"hold", "cancel"}
         \/ state = "park" /\ state' = "park_stop"
      /\ UNCHANGED <<plan, blocks, ring, st, fg, count>>
    BY DEF IInv, TypeOK, PrepStates, InitiateHold, RestartRetract, MotionCancel, Main
<1>2. Replanned(prep, prep') /\ prep'.block = None
    BY <1>1, UpdatedReplans
<1>3. control'.exHold /\ control'.exSys = control.exSys /\ control'.endMotion = control.endMotion
    BY <1>1 DEF TypeOK
<1>4. BlockLoaded' /\ (Begun => Begun')
    BY <1>1, <1>2, <1>3, ReplanPrepares DEF BlocksInv, Prepared, Current, Empty
<1>5. Segmented'
    BY <1>1, <1>2, <1>4, SameSegmented DEF BlocksInv, Replanned
<1>6. ParkingKept'
    BY <1>1, <1>2, <1>3 DEF BlocksInv, Prepared, ParkingKept, Replanned, Empty
<1>7. Ending' /\ Resting'
    BY <1>1, <1>2, <1>3 DEF BlocksInv, Prepared, Ending, Resting, Drained
<1> QED BY <1>4, <1>5, <1>6, <1>7 DEF BlocksInv, Prepared

LEMMA HoldCompleteKeeps == IInv /\ BlocksInv /\ HoldComplete => BlocksInv'
<1> SUFFICES ASSUME IInv, BlocksInv, HoldComplete PROVE BlocksInv'
    OBVIOUS
<1>1. /\ TypeOK /\ prep \in PrepStates /\ fg = "main" /\ state \in {"hold", "idle"}
      /\ CycleReinitialize(prep) /\ control' = NoControl /\ state' = "held"
      /\ UNCHANGED <<blocks, ring, fg, count>>
    BY DEF IInv, TypeOK, PrepStates, HoldComplete, Main
<1>2. /\ st'.block = st.block /\ st'.steps = st.steps /\ st'.motion = st.motion
      /\ st.complete \/ state = "idle"
    BY <1>1, CompletedKeeps DEF HoldComplete, Main
<1>3. Replanned(prep, prep') /\ prep'.block = None
    BY <1>1, ReinitializedReplans
<1>4. plan'.slot = plan.slot /\ plan'.tail = plan.tail /\ plan'.head = plan.head
    BY <1>1, Reinitialized
<1>5. control.exSys = FALSE /\ control'.exSys = FALSE /\ ~control'.exHold /\ ~control'.endMotion
    BY <1>1 DEF IInv, TypeOK, SystemWhenParking, NoControl
<1>6. BlockLoaded' /\ (Begun => Begun')
    BY <1>1, <1>3, <1>4, <1>5, ReplanPrepares DEF BlocksInv, Prepared, Current, Empty
<1>7. Segmented'
    BY <1>1, <1>2, <1>3, <1>6, SameSegmented DEF BlocksInv, Replanned
<1>8. ParkingKept'
    BY <1>3, <1>5 DEF BlocksInv, Prepared, ParkingKept, Replanned
<1>9. Ending' /\ Resting'
    BY <1>1, <1>2, <1>3, <1>5 DEF BlocksInv, Prepared, Ending, Resting, Drained
<1> QED BY <1>6, <1>7, <1>8, <1>9 DEF BlocksInv, Prepared

\* A parking motion takes the blocks of the stepper when nothing is queued.
LEMMA ParkingMotionKeeps == IInv /\ BlocksInv /\ ParkingMotion => BlocksInv'
<1> SUFFICES ASSUME IInv, BlocksInv, ParkingMotion PROVE BlocksInv'
    OBVIOUS
<1> DEFINE saves == prep.flags.partial /\ ~prep.flags.parking
           saved == IF saves
                    THEN [prep EXCEPT !.lastSt = prep.st, !.copy = blocks[prep.st],
                                      !.lastLeft = prep.left]
                    ELSE prep
           flags == [prep.flags EXCEPT !.parking = TRUE, !.velocity = FALSE]
<1>1. PICK n \in 1 .. MaxSteps :
         plan' = [plan EXCEPT !.slot[plan.head] =
                    [motion |-> System, left |-> n, total |-> n]]
    BY DEF ParkingMotion
<1>2. /\ TypeOK /\ TypeOK' /\ prep \in PrepStates /\ plan \in PlanStates
      /\ ParkingEnabled /\ fg = "main" /\ state \in {"held", "parked"}
      /\ control' = [control EXCEPT !.exSys = TRUE, !.endMotion = FALSE]
      /\ state' = "park_start" /\ UNCHANGED <<blocks, ring, st, fg, count>>
    BY ParkingMotionStep DEF IInv, TypeOK, PrepStates, PlanStates, ParkingMotion
<1>3. prep' = [saved EXCEPT !.flags.parking = TRUE, !.flags.velocity = FALSE, !.block = None]
    BY DEF ParkingMotion
<1>4. control'.exSys = TRUE /\ ~control'.endMotion /\ control'.exHold = control.exHold
    BY <1>2 DEF TypeOK
<1>5. ~control.exSys /\ ~control.exHold /\ prep.block = None /\ Drained /\ ~prep.flags.parking
    BY <1>2 DEF IInv, SystemWhenParking, BlocksInv, Prepared, Ending, Resting, ParkingKept
<1>6. prep.flags.partial => ~Empty /\ blocks[prep.st] = plan.slot[plan.tail].motion
    BY <1>5 DEF BlocksInv, Prepared, ParkingKept, BlockLoaded, Begun, Current
<1>7. /\ saved.flags = prep.flags /\ saved \in PrepStates
      /\ saves => saved.copy = blocks[prep.st]
    BY <1>2 DEF PrepStates, TypeOK
<1>8. saves = prep.flags.partial
    <2>1. prep.flags.partial \in BOOLEAN
        BY <1>2 DEF PrepStates, Flags
    <2> QED BY Zenon, <1>5, <2>1
<1> HIDE DEF saves, saved
<1>9. prep' = [saved EXCEPT !.flags = flags, !.block = None]
    BY <1>3, <1>7 DEF PrepStates
<1>10. /\ flags.parking = TRUE /\ flags.velocity = FALSE /\ flags.partial = prep.flags.partial
    BY <1>2 DEF PrepStates, Flags
<1> HIDE DEF flags
<1>11. prep'.block = None /\ prep'.flags = flags /\ prep'.copy = saved.copy
    BY <1>7, <1>9 DEF PrepStates
<1>12. /\ plan'.tail = plan.tail /\ plan'.head = plan.head
       /\ plan.tail # plan.head => plan'.slot[plan.tail] = plan.slot[plan.tail]
    BY <1>1, <1>2 DEF PlanStates
<1>13. Segmented'
    BY <1>2, <1>5, DrainedSegmented DEF Drained
<1>14. BlockLoaded'
    BY <1>10, <1>11 DEF BlockLoaded, Begun
<1>15. ParkingKept'
    BY <1>2, <1>4, <1>6, <1>7, <1>8, <1>10, <1>11, <1>12 DEF ParkingKept, Empty
<1>16. Ending' /\ Resting'
    BY <1>2, <1>4, <1>5 DEF Ending, Resting, Drained
<1> QED BY <1>13, <1>14, <1>15, <1>16 DEF BlocksInv, Prepared

\* What is restored is the block of the interrupted motion, to be planned anew.
LEMMA RestoredKeeps ==
    ASSUME TypeOK, Prepared, control.exSys
    PROVE  LET r == RestoreBuffer(prep)
           IN /\ r \in PrepStates /\ r.block = None /\ r.flags.parking = FALSE
              /\ r.flags.velocity = r.flags.partial
              /\ r.flags.partial =>
                    ~Empty /\ RestoredBlocks(prep)[r.st] = plan.slot[plan.tail].motion
<1> DEFINE r == RestoreBuffer(prep)
<1>1. /\ r \in PrepStates /\ r.block = None /\ prep \in PrepStates
      /\ blocks \in [StBlocks -> Motions]
    BY RestoredIs DEF TypeOK, PrepStates
<1>2. CASE prep.flags.partial
    <2>1. /\ r.flags = Partial /\ r.st = prep.lastSt
          /\ RestoredBlocks(prep) = [blocks EXCEPT ![prep.lastSt] = prep.copy]
        BY <1>1, <1>2 DEF RestoreBuffer, RestoredBlocks, PrepStates
    <2>2. prep.lastSt \in StBlocks
        BY <1>1 DEF PrepStates
    <2>3. RestoredBlocks(prep)[r.st] = prep.copy
        BY <1>1, <2>1, <2>2
    <2>4. ~Empty /\ prep.copy = plan.slot[plan.tail].motion
        BY <1>2 DEF Prepared, ParkingKept
    <2> HIDE DEF r
    <2>5. r.flags.parking = FALSE /\ r.flags.velocity = r.flags.partial
        BY <2>1 DEF Partial, NoFlags
    <2> QED BY <1>1, <2>3, <2>4, <2>5 DEF r
<1>3. CASE ~prep.flags.partial
    <2>1. r.flags = NoFlags
        BY <1>1, <1>3 DEF RestoreBuffer, PrepStates
    <2> HIDE DEF r
    <2>2. r.flags.parking = FALSE /\ r.flags.velocity = r.flags.partial /\ ~r.flags.partial
        BY <2>1 DEF NoFlags
    <2> QED BY <1>1, <2>2 DEF r
<1> QED BY <1>2, <1>3

\* After a parking motion, also one that is interrupted
LEMMA ParkingEndKeeps ==
    ASSUME IInv, BlocksInv, ParkingComplete \/ RetractRestarted PROVE BlocksInv'
<1> DEFINE r == RestoreBuffer(prep)
<1>1. /\ TypeOK /\ TypeOK' /\ fg = "main" /\ state \in {"park", "park_stop"} /\ Completed
      /\ blocks' = RestoredBlocks(prep) /\ UNCHANGED <<ring, fg, count>>
      /\ \/ /\ prep' = r /\ UNCHANGED plan
            /\ control' = [control EXCEPT !.exSys = FALSE]
            /\ state = "park" /\ state' = "parked"
         \/ CycleReinitialize(r) /\ control' = NoControl /\ state' = "held"
    BY ParkingCompleteStep, RetractRestartedStep
       DEF IInv, ParkingComplete, RetractRestarted, Main
<1>2. /\ st.complete /\ ~st'.complete /\ st'.block = st.block /\ st'.steps = st.steps
    BY <1>1, CompletedKeeps
<1>3. control.exSys
    BY <1>1 DEF IInv, SystemWhenParking
<1>4. /\ r \in PrepStates /\ r.block = None /\ r.flags.parking = FALSE
      /\ r.flags.velocity = r.flags.partial
      /\ r.flags.partial => ~Empty /\ blocks'[r.st] = plan.slot[plan.tail].motion
    BY <1>1, <1>3, RestoredKeeps DEF BlocksInv
<1> HIDE DEF r
<1>5. /\ prep'.block = None /\ prep'.st = r.st /\ prep'.flags.parking = FALSE
      /\ prep'.flags.velocity = r.flags.velocity /\ prep'.flags.partial = r.flags.partial
    <2>1. CASE prep' = r
        BY <1>4, <2>1
    <2>2. CASE CycleReinitialize(r)
        BY <1>4, <2>2, ReinitializedReplans DEF Replanned
    <2> QED BY <1>1, <2>1, <2>2
<1>6. plan'.slot = plan.slot /\ plan'.tail = plan.tail /\ plan'.head = plan.head
    <2>1. CASE CycleReinitialize(r)
        BY <1>1, <1>4, <2>1, Reinitialized
    <2> QED BY <1>1, <2>1
<1>7. /\ control'.exSys = FALSE
      /\ control'.endMotion => state' = "parked"
      /\ control'.exHold => state = "park" /\ control.exHold
    BY <1>1 DEF TypeOK, NoControl
<1>8. Drained'
    BY <1>1, <1>2 DEF BlocksInv, Prepared, Resting, Drained
<1>9. Segmented'
    BY <1>1, <1>8, DrainedSegmented
<1>10. BlockLoaded'
    BY <1>4, <1>5, <1>6, <1>7 DEF BlockLoaded, Begun, Current, Empty
<1>11. ParkingKept'
    BY <1>4, <1>5, <1>7 DEF ParkingKept
<1>12. Ending'
    BY <1>1, <1>7 DEF BlocksInv, Prepared, Ending
<1>13. Resting'
    BY <1>1, <1>2, <1>5, <1>8 DEF Resting
<1> QED BY <1>9, <1>10, <1>11, <1>12, <1>13 DEF BlocksInv, Prepared

LEMMA FlushKeeps == IInv /\ (Flush \/ MotionCancelled) => BlocksInv'
<1> SUFFICES ASSUME IInv, Flush PROVE BlocksInv'
    BY DEF MotionCancelled
<1>1. /\ TypeOK' /\ fg' = "main" /\ state' = "idle" /\ control' = NoControl
      /\ ring' = NoRing /\ st' = AtRest
      /\ prep' = [block |-> None, st |-> 0, left |-> 0, flags |-> NoFlags,
                  lastSt |-> 0, lastLeft |-> 0, copy |-> System]
    BY FlushStep DEF IInv, Flush, StReset
<1>2. Drained' /\ ~st'.complete
    BY <1>1 DEF Drained, NoRing, AtRest
<1>3. prep'.block = None /\ prep'.flags = NoFlags
    BY <1>1
<1>4. Segmented'
    BY <1>1, <1>2, DrainedSegmented
<1>5. BlockLoaded' /\ ParkingKept'
    BY <1>1, <1>3 DEF BlockLoaded, ParkingKept, Begun, NoFlags, NoControl
<1>6. Ending' /\ Resting'
    BY <1>1, <1>2, <1>3 DEF Ending, Resting, NoControl
<1> QED BY <1>4, <1>5, <1>6 DEF BlocksInv, Prepared

LEMMA InitBlocks == Init => BlocksInv
<1> SUFFICES ASSUME Init PROVE BlocksInv
    OBVIOUS
<1>1. /\ fg = "main" /\ state = "idle" /\ control = NoControl /\ ring = NoRing /\ st = AtRest
      /\ prep.block = None /\ prep.flags = NoFlags
    BY DEF Init
<1>2. ring.tail = 0 /\ ring.head = 0 /\ 0 \in Segments
    BY <1>1, SizesAssumption DEF NoRing, Segments
<1>3. Queued = {}
    <2>1. SegmentsTo(0, 0) = 0 /\ \A i \in Segments : SegmentsTo(0, i) \in Nat
        BY <1>2, SegmentsToIs DEF Segments
    <2> QED BY <1>2, <2>1 DEF Queued
<1>4. Drained
    BY <1>1, <1>2 DEF Drained, AtRest
<1>5. Segmented
    BY <1>3, <1>4 DEF Segmented, InOrder, DataKept, Executed, Drained
<1>6. BlockLoaded /\ ParkingKept
    BY <1>1 DEF BlockLoaded, ParkingKept, Begun, NoFlags, NoControl
<1>7. Ending /\ Resting
    BY <1>1, <1>4 DEF Ending, Resting, NoControl
<1> QED BY <1>5, <1>6, <1>7 DEF BlocksInv, Prepared

LEMMA StepBlocks ==
    ASSUME "fast" \notin Cancels PROVE IInv /\ BlocksInv /\ [Next]_vars => BlocksInv'
<1> SUFFICES ASSUME IInv, BlocksInv, [Next]_vars PROVE BlocksInv'
    OBVIOUS
<1>1. CASE UNCHANGED vars
    <2>1. Segmented'
        BY <1>1, SameSegmented DEF IInv, BlocksInv, vars, Begun
    <2>2. BlockLoaded' /\ ParkingKept'
        BY <1>1 DEF BlocksInv, Prepared, vars, BlockLoaded, ParkingKept, Begun, Current, Empty
    <2>3. Ending' /\ Resting'
        BY <1>1 DEF BlocksInv, Prepared, vars, Ending, Resting, Drained, Preparing, Empty
    <2> QED BY <2>1, <2>2, <2>3 DEF BlocksInv, Prepared
<1>2. CASE BufferLine \/ FeedOverride
    BY <1>2, BufferLineKeeps, FeedOverrideKeeps
<1>3. CASE EnterPrep \/ LeavePrep \/ LoadBlock \/ BailOut \/ AddSegment
    BY <1>3, EnterOrLeaveKeeps, LoadBlockKeeps, BailOutKeeps, AddSegmentKeeps
<1>4. CASE StepInterrupt \/ SegmentsExhausted
    BY <1>4, StepInterruptKeeps, SegmentsExhaustedKeeps
<1>5. CASE CycleStart \/ WakeUp \/ CycleComplete \/ HoldComplete
    BY <1>5, CycleStartKeeps, WakeUpKeeps, CycleCompleteKeeps, HoldCompleteKeeps
<1>6. CASE InitiateHold \/ RestartRetract \/ MotionCancel
    BY <1>6, DecelerationKeeps
<1>7. CASE ParkingMotion \/ ParkingComplete \/ RetractRestarted
    BY <1>7, ParkingMotionKeeps, ParkingEndKeeps
<1>8. CASE MotionCancelled \/ Flush
    BY <1>8, FlushKeeps
<1> QED BY <1>1, <1>2, <1>3, <1>4, <1>5, <1>6, <1>7, <1>8 DEF Next, Foreground

\* The interrupt of stepper.c executes every segment with the data of the motion
\* it was made from: SEGMENT_BUFFER_SIZE - 1 blocks are enough (stepper.c:55-57),
\* also through holds, parking motions and replans at any moment.  A fast cancel
\* draws the head back without the block that is prepared, and is left out.
THEOREM BlocksStayIntact ==
    ASSUME "fast" \notin Cancels PROVE Spec => []BlocksIntact
<1>1. Init => IInv /\ BlocksInv
    BY InitIInv, InitBlocks
<1>2. IInv /\ BlocksInv /\ [Next]_vars => (IInv /\ BlocksInv)'
    BY StepIInv, StepBlocks
<1>3. IInv /\ BlocksInv => BlocksIntact
    BY DEF BlocksInv, Segmented, DataKept, Executed, BlocksIntact
<1> QED BY <1>1, <1>2, <1>3, PTL DEF Spec

=============================================================================
