----------------------------- MODULE ServiceProofs -----------------------------
(***************************************************************************)
(* Proofs about CanBus: for every set of messages and every size, both     *)
(* rings implement the queue of CommandFifo.  And about Kinematics: for    *)
(* every machine and every line of it, KinInv, which says of each phase of *)
(* a line how much is planned and what segment_line remembers, is kept.    *)
(* And about SpindleControl: for all spindles, speeds and overrides,       *)
(* SpindleSafe, which says what runs, what the core and the program know   *)
(* of it and which speeds its segments carry, is kept by every step.       *)
(***************************************************************************)
EXTENDS CanBus, Kinematics, SpindleControl, SequenceTheorems, TLAPS

Index == 0 .. BufferLen - 1
Content == Frames \cup {0}
IsRing(r) == r \in [buf : [Index -> Content], head : Index, tail : Index]

TypeOK == IsRing(tx) /\ IsRing(rx) /\ enabled \in BOOLEAN /\ calling \in BOOLEAN

\* The callback is called for a message, which stays in the ring until it has returned.
CalledForOne == calling => ~RingEmpty(rx)

IInv == TypeOK /\ CalledForOne

\* How many messages a ring holds, and the slot of the one that is i-th from the oldest.
Used(r) == IF r.head >= r.tail THEN r.head - r.tail ELSE r.head + BufferLen - r.tail
At(r, i) == IF r.tail + i < BufferLen THEN r.tail + i ELSE r.tail + i - BufferLen

-----------------------------------------------------------------------------
(* The remainders of the ring, as cases *)

LEMMA Remainder ==
    ASSUME NEW n \in Nat \ {0}, NEW k \in 0 .. 2 * n - 1
    PROVE  k % n = IF k < n THEN k ELSE k - n
<1>1. CASE k < n
    BY <1>1
<1>2. CASE ~(k < n)
    BY <1>2
<1> QED BY <1>1, <1>2

LEMMA Next1Is ==
    ASSUME BufferLen \in Nat, BufferLen > 1, NEW i \in Index
    PROVE  Next1(i) \in Index /\ Next1(i) = IF i = BufferLen - 1 THEN 0 ELSE i + 1
<1> DEFINE k == i + 1
<1>1. BufferLen \in Nat \ {0} /\ i \in Nat /\ k \in 0 .. 2 * BufferLen - 1 /\ k <= BufferLen
    BY DEF Index
<1>2. k % BufferLen = IF k < BufferLen THEN k ELSE k - BufferLen
    <2> HIDE DEF k
    <2> QED BY <1>1, Remainder
<1> QED BY <1>1, <1>2 DEF Next1, Index

\* A ring holds the sequence of the messages between tail and head.
LEMMA ContentsIs ==
    ASSUME BufferLen \in Nat, BufferLen > 1, NEW r, IsRing(r)
    PROVE  /\ Used(r) \in 0 .. BufferLen - 1
           /\ Contents(r) = [i \in 1 .. Used(r) |-> r.buf[At(r, i - 1)]]
           /\ Contents(r) \in Seq(Content)
           /\ Len(Contents(r)) = Used(r)
           /\ \A i \in 0 .. BufferLen - 1 : At(r, i) \in Index
<1>0. r.head \in Index /\ r.tail \in Index /\ r.buf \in [Index -> Content] /\ BufferLen \in Nat \ {0}
    BY DEF IsRing
<1>1. Used(r) \in 0 .. BufferLen - 1
    BY <1>0 DEF Used, Index
<1>2. (r.head + BufferLen - r.tail) % BufferLen = Used(r)
    <2>1. r.head + BufferLen - r.tail \in 0 .. 2 * BufferLen - 1
        BY <1>0 DEF Index
    <2> DEFINE k == r.head + BufferLen - r.tail
    <2>2. k % BufferLen = IF k < BufferLen THEN k ELSE k - BufferLen
        BY <1>0, <2>1, Remainder
    <2> QED BY <1>0, <2>2 DEF Used, Index
<1>3. ASSUME NEW i \in 1 .. Used(r)
      PROVE  (r.tail + i - 1) % BufferLen = At(r, i - 1)
    <2>1. r.tail + i - 1 \in 0 .. 2 * BufferLen - 1
        BY <1>0, <1>1 DEF Index
    <2> DEFINE k == r.tail + i - 1
    <2>2. k % BufferLen = IF k < BufferLen THEN k ELSE k - BufferLen
        BY <1>0, <2>1, Remainder
    <2> QED BY <1>0, <1>1, <2>2 DEF At, Index
<1>4. Contents(r) = [i \in 1 .. Used(r) |-> r.buf[At(r, i - 1)]]
    BY <1>2, <1>3 DEF Contents
<1>5. \A i \in 0 .. BufferLen - 1 : At(r, i) \in Index
    BY <1>0 DEF At, Index
<1>6. \A i \in 1 .. Used(r) : r.buf[At(r, i - 1)] \in Content
    BY <1>0, <1>1, <1>5
<1>7. Contents(r) \in Seq(Content) /\ Len(Contents(r)) = Used(r)
    BY <1>1, <1>4, <1>6
<1> QED BY <1>1, <1>4, <1>5, <1>7

\* A message put into a ring that is not full comes last.
LEMMA PutAppends ==
    ASSUME BufferLen \in Nat, BufferLen > 1, NEW r, IsRing(r), ~RingFull(r), NEW msg \in Frames
    PROVE  /\ IsRing(Put(r, msg))
           /\ ~RingEmpty(Put(r, msg))
           /\ Contents(Put(r, msg)) = Append(Contents(r), msg)
           /\ Len(Contents(r)) < BufferLen - 1
<1> DEFINE q == Put(r, msg)
           long == Append(Contents(r), msg)
<1>0. r.head \in Index /\ r.tail \in Index /\ r.buf \in [Index -> Content] /\ BufferLen \in Nat \ {0}
    BY DEF IsRing
<1>1. Next1(r.head) \in Index /\ Next1(r.head) = IF r.head = BufferLen - 1 THEN 0 ELSE r.head + 1
    BY <1>0, Next1Is
<1>2. q \in [buf : [Index -> Content], head : Index, tail : Index]
      /\ q.head = Next1(r.head) /\ q.tail = r.tail /\ q.buf = [r.buf EXCEPT ![r.head] = msg]
    BY <1>0, <1>1 DEF Put, Content, IsRing
<1>3. IsRing(q)
    BY <1>2 DEF IsRing
<1>4. Used(q) = Used(r) + 1 /\ Used(r) < BufferLen - 1 /\ Used(r) \in Nat
    <2> DEFINE h == r.head
               t == r.tail
               n == Next1(h)
    <2>1. /\ h \in 0 .. BufferLen - 1 /\ t \in 0 .. BufferLen - 1 /\ n # t
          /\ n = IF h = BufferLen - 1 THEN 0 ELSE h + 1
        BY <1>0, <1>1 DEF RingFull, Index
    <2>2. /\ Used(q) = IF n >= t THEN n - t ELSE n + BufferLen - t
          /\ Used(r) = IF h >= t THEN h - t ELSE h + BufferLen - t
        BY <1>2 DEF Used
    <2> HIDE DEF h, t, n
    <2>3. CASE h = BufferLen - 1
        BY <1>0, <2>1, <2>2, <2>3
    <2>4. CASE h # BufferLen - 1
        BY <1>0, <2>1, <2>2, <2>4
    <2> QED BY <2>3, <2>4
<1>5. ~RingEmpty(q)
    BY <1>0, <1>1, <1>2 DEF RingFull, RingEmpty
<1>6. /\ Contents(r) \in Seq(Content) /\ Len(Contents(r)) = Used(r)
      /\ Contents(r) = [i \in 1 .. Used(r) |-> r.buf[At(r, i - 1)]]
    BY ContentsIs
<1>7. /\ Contents(q) \in Seq(Content) /\ Len(Contents(q)) = Used(r) + 1
      /\ Contents(q) = [i \in 1 .. Used(r) + 1 |-> q.buf[At(q, i - 1)]]
    BY <1>3, <1>4, ContentsIs
<1>8. /\ long \in Seq(Content) /\ Len(long) = Used(r) + 1
      /\ \A i \in 1 .. Used(r) : long[i] = Contents(r)[i]
      /\ long[Used(r) + 1] = msg
    BY <1>4, <1>6 DEF Content
<1>9. ASSUME NEW i \in 1 .. Used(r) PROVE Contents(q)[i] = long[i]
    <2> DEFINE k == i - 1
    <2>0. k \in 0 .. Used(r) - 1
        BY <1>4
    <2>1. At(q, k) = At(r, k) /\ At(r, k) # r.head /\ At(r, k) \in Index
        <3> HIDE DEF k
        <3>1. k \in Nat /\ k < Used(r) /\ q.tail = r.tail
            BY <1>2, <1>4, <2>0
        <3>2. /\ At(q, k) = IF r.tail + k < BufferLen THEN r.tail + k ELSE r.tail + k - BufferLen
              /\ At(r, k) = IF r.tail + k < BufferLen THEN r.tail + k ELSE r.tail + k - BufferLen
            BY <3>1 DEF At
        <3>3. Used(r) = IF r.head >= r.tail THEN r.head - r.tail ELSE r.head + BufferLen - r.tail
            BY DEF Used
        <3>4. r.head \in 0 .. BufferLen - 1 /\ r.tail \in 0 .. BufferLen - 1
            BY <1>0 DEF Index
        <3>5. CASE r.head >= r.tail
            BY <1>0, <3>1, <3>2, <3>3, <3>4, <3>5 DEF Index
        <3>6. CASE ~(r.head >= r.tail)
            BY <1>0, <3>1, <3>2, <3>3, <3>4, <3>6 DEF Index
        <3> QED BY <3>5, <3>6
    <2>2. q.buf[At(q, k)] = r.buf[At(r, k)]
        <3> HIDE DEF k
        <3> QED BY <1>0, <1>2, <2>1
    <2>3. i \in 1 .. Used(r) + 1
        BY <1>4
    <2>4. Contents(q)[i] = q.buf[At(q, i - 1)]
        BY <1>7, <2>3
    <2>5. Contents(r)[i] = r.buf[At(r, i - 1)]
        BY <1>6
    <2> QED BY <1>8, <2>2, <2>4, <2>5
<1>10. Contents(q)[Used(r) + 1] = msg
    <2>1. Used(r) + 1 \in 1 .. Used(r) + 1 /\ (Used(r) + 1) - 1 = Used(r)
        BY <1>4
    <2>2. At(q, Used(r)) = r.head
        BY SMTT(30), <1>0, <1>2, <1>4 DEF At, Used, Index
    <2>3. Contents(q)[Used(r) + 1] = q.buf[At(q, (Used(r) + 1) - 1)]
        BY <1>7, <2>1
    <2>4. Contents(q)[Used(r) + 1] = q.buf[r.head]
        BY <2>1, <2>2, <2>3
    <2> QED BY <1>0, <1>2, <2>4
<1>11. \A i \in 1 .. Used(r) + 1 : Contents(q)[i] = long[i]
    BY <1>4, <1>8, <1>9, <1>10
<1>12. Contents(q) = long
    BY <1>7, <1>8, <1>11, <1>4, SeqEqual
<1> QED BY <1>3, <1>4, <1>5, <1>6, <1>12

\* What is taken from a ring that is not empty is the oldest message.
LEMMA TakenIsTail ==
    ASSUME BufferLen \in Nat, BufferLen > 1, NEW r, IsRing(r), ~RingEmpty(r)
    PROVE  /\ IsRing(Taken(r))
           /\ Contents(r) # << >>
           /\ Contents(Taken(r)) = Tail(Contents(r))
<1> DEFINE q == Taken(r)
           rest == Tail(Contents(r))
<1>0. r.head \in Index /\ r.tail \in Index /\ r.buf \in [Index -> Content] /\ BufferLen \in Nat \ {0}
    BY DEF IsRing
<1>1. Next1(r.tail) \in Index /\ Next1(r.tail) = IF r.tail = BufferLen - 1 THEN 0 ELSE r.tail + 1
    BY <1>0, Next1Is
<1>2. q \in [buf : [Index -> Content], head : Index, tail : Index]
      /\ q.head = r.head /\ q.tail = Next1(r.tail) /\ q.buf = r.buf
    BY <1>0, <1>1 DEF Taken, IsRing
<1>3. IsRing(q)
    BY <1>2 DEF IsRing
<1>4. Used(q) = Used(r) - 1 /\ Used(r) > 0 /\ Used(r) \in Nat
    BY SMTT(30), <1>0, <1>1, <1>2 DEF Used, RingEmpty, Index
<1>5. /\ Contents(r) \in Seq(Content) /\ Len(Contents(r)) = Used(r)
      /\ Contents(r) = [i \in 1 .. Used(r) |-> r.buf[At(r, i - 1)]]
    BY ContentsIs
<1>6. Contents(r) # << >>
    BY <1>4, <1>5
<1>7. /\ Contents(q) \in Seq(Content) /\ Len(Contents(q)) = Used(r) - 1
      /\ Contents(q) = [i \in 1 .. Used(r) - 1 |-> q.buf[At(q, i - 1)]]
    BY <1>3, <1>4, ContentsIs
<1>8. /\ rest \in Seq(Content) /\ Len(rest) = Used(r) - 1
      /\ \A i \in 1 .. Used(r) - 1 : rest[i] = Contents(r)[i + 1]
    BY <1>5, <1>6, HeadTailProperties
<1>9. ASSUME NEW i \in 1 .. Used(r) - 1 PROVE Contents(q)[i] = rest[i]
    <2>0. i + 1 \in 1 .. Used(r) /\ (i + 1) - 1 = i /\ i \in 1 .. BufferLen - 1
        BY <1>0, <1>4, ContentsIs
    <2>1. At(q, i - 1) = At(r, i)
        <3>1. CASE r.tail = BufferLen - 1
            BY <1>0, <1>1, <1>2, <2>0, <3>1 DEF At, Index
        <3>2. CASE r.tail # BufferLen - 1
            BY <1>0, <1>1, <1>2, <2>0, <3>2 DEF At, Index
        <3> QED BY <3>1, <3>2
    <2>2. Contents(r)[i + 1] = r.buf[At(r, (i + 1) - 1)]
        BY <1>5, <2>0
    <2>3. Contents(q)[i] = q.buf[At(q, i - 1)]
        BY <1>7
    <2> QED BY <1>2, <1>8, <2>0, <2>1, <2>2, <2>3
<1>10. Contents(q) = rest
    BY <1>7, <1>8, <1>9, SeqEqual
<1> QED BY <1>3, <1>6, <1>10

-----------------------------------------------------------------------------
\* The rings start empty.
LEMMA InitIInv ==
    ASSUME BufferLen \in Nat, BufferLen > 1, CanInit
    PROVE  IInv
<1>1. Ring \in [buf : [Index -> Content], head : Index, tail : Index]
    BY DEF Ring, Index, Content
<1> QED BY <1>1 DEF CanInit, IInv, TypeOK, IsRing, CalledForOne

\* What each step does to the two rings.
LEMMA Steps ==
    ASSUME BufferLen \in Nat, BufferLen > 1, IInv, [CanNext]_canVars
    PROVE  /\ IInv'
           /\ \/ UNCHANGED tx
              \/ \E msg \in Frames : ~RingFull(tx) /\ tx' = Put(tx, msg)
              \/ ~RingEmpty(tx) /\ tx' = Taken(tx)
           /\ \/ UNCHANGED rx
              \/ \E msg \in Frames : ~RingFull(rx) /\ rx' = Put(rx, msg)
              \/ ~RingEmpty(rx) /\ rx' = Taken(rx)
<1> USE DEF IInv, TypeOK, CalledForOne
<1>1. CASE Start
    BY <1>1 DEF Start
<1>2. CASE PollTx
    BY <1>2, TakenIsTail DEF PollTx
<1>3. CASE PollRx
    BY <1>3 DEF PollRx
<1>4. CASE PollRxEnd
    BY <1>4, TakenIsTail DEF PollRxEnd
<1>5. ASSUME NEW msg \in Frames, QueueTx(msg)
      PROVE  IInv' /\ ~RingFull(tx) /\ tx' = Put(tx, msg) /\ UNCHANGED rx
    BY <1>5, PutAppends DEF QueueTx
<1>6. ASSUME NEW msg \in Frames, QueueRx(msg)
      PROVE  IInv' /\ ~RingFull(rx) /\ rx' = Put(rx, msg) /\ UNCHANGED tx
    BY <1>6, PutAppends DEF QueueRx
<1>7. CASE UNCHANGED canVars
    BY <1>7 DEF canVars
<1> QED BY <1>1, <1>2, <1>3, <1>4, <1>5, <1>6, <1>7 DEF CanNext

\* Both rings, whatever the interrupt puts in between the accesses of the foreground and
\* whatever the callback queues: messages leave in the order they came, each once, and are
\* refused only when the ring is full.
THEOREM FifosRefined ==
    ASSUME BufferLen \in Nat, BufferLen > 1
    PROVE  CanSpec => ImplementsFifos
<1>1. CanInit => Received!FifoInit /\ Transmitted!FifoInit
    <2> SUFFICES ASSUME CanInit PROVE Contents(rx) = << >> /\ Contents(tx) = << >>
        BY DEF Received!FifoInit, Transmitted!FifoInit
    <2>1. IsRing(rx) /\ IsRing(tx)
        BY InitIInv DEF IInv, TypeOK
    <2>2. Used(rx) = 0 /\ Used(tx) = 0
        BY DEF CanInit, Ring, Used
    <2> QED BY <2>1, <2>2, ContentsIs
<1>2. IInv /\ [CanNext]_canVars => IInv'
    BY Steps
<1>3. IInv /\ [CanNext]_canVars => [Received!FifoNext]_(Received!fifoVars)
    <2> SUFFICES ASSUME IInv, [CanNext]_canVars PROVE [Received!FifoNext]_(Received!fifoVars)
        OBVIOUS
    <2> USE DEF Received!FifoNext, Received!fifoVars
    <2>1. CASE UNCHANGED rx
        BY <2>1 DEF Contents
    <2>2. ASSUME NEW msg \in Frames, ~RingFull(rx), rx' = Put(rx, msg) PROVE Received!Put(msg)
        BY <2>2, PutAppends DEF Received!Put, IInv, TypeOK
    <2>3. ASSUME ~RingEmpty(rx), rx' = Taken(rx) PROVE Received!Take
        BY <2>3, TakenIsTail DEF Received!Take, IInv, TypeOK
    <2> QED BY <2>1, <2>2, <2>3, Steps
<1>4. IInv /\ [CanNext]_canVars => [Transmitted!FifoNext]_(Transmitted!fifoVars)
    <2> SUFFICES ASSUME IInv, [CanNext]_canVars PROVE [Transmitted!FifoNext]_(Transmitted!fifoVars)
        OBVIOUS
    <2> USE DEF Transmitted!FifoNext, Transmitted!fifoVars
    <2>1. CASE UNCHANGED tx
        BY <2>1 DEF Contents
    <2>2. ASSUME NEW msg \in Frames, ~RingFull(tx), tx' = Put(tx, msg) PROVE Transmitted!Put(msg)
        BY <2>2, PutAppends DEF Transmitted!Put, IInv, TypeOK
    <2>3. ASSUME ~RingEmpty(tx), tx' = Taken(tx) PROVE Transmitted!Take
        BY <2>3, TakenIsTail DEF Transmitted!Take, IInv, TypeOK
    <2> QED BY <2>1, <2>2, <2>3, Steps
<1> QED BY InitIInv, <1>1, <1>2, <1>3, <1>4, PTL
        DEF CanSpec, ImplementsFifos, Received!FifoSpec, Transmitted!FifoSpec

-----------------------------------------------------------------------------
(* Lines in segments *)

Remembers == machine \in {"polar", "delta"}
Position == [at : Points, angle : Int]
LineType ==
    [state : {"next", "ready", "over"}, path : Paths, rapid : BOOLEAN, jog : BOOLEAN, segmented : BOOLEAN,
     iterations : Int, added : Int, target : Position, from : Position, rated : Int, planned : Int, late : Int,
     cut : BOOLEAN]

KinType ==
    /\ pos \in Position /\ trail \subseteq Position /\ pos \in trail /\ last_pos \in Position
    /\ line = NoLine \/ line \in LineType
    /\ jog_cancel \in BOOLEAN /\ halting \in BOOLEAN
    /\ motors \in [a : Int, b : Int] /\ axes \in [x : Int, y : Int]

ToMake == line # NoLine /\ line.state = "next"
ReadyLine == line # NoLine /\ line.state = "ready"

\* How far segment_line has come, by what is planned
Shape == /\ line.segmented => Len(line.path) > 2 /\ machine # "corexy"
         /\ machine = "delta" => \A i \in 1..Len(line.path) : line.path[i] \notin Unreachable
ToMakeCount ==
    /\ line.iterations \in 1 .. Pieces + 1 /\ line.planned = Pieces + 1 - line.iterations
    /\ line.segmented => line.added = IF line.iterations > 1 THEN line.planned ELSE Pieces - 1
ReadyCount ==
    /\ line.iterations \in 1 .. Pieces /\ line.planned = Pieces - line.iterations
    /\ line.segmented => line.added = IF line.iterations > 1 THEN line.planned + 1 ELSE Pieces - 1
CountInv == (InProgress => Shape) /\ (ToMake => ToMakeCount) /\ (ReadyLine => ReadyCount)

\* Where the machine is, and what segment_line remembers of it
ToMakePlace ==
    /\ line.planned = Pieces => pos.at = Goal(line.path)
    /\ line.planned # Pieces => pos.at = line.path[line.planned + 1]
    /\ Remembers => last_pos = pos
ReadyPlace ==
    /\ line.from = pos
    /\ Remembers => last_pos = line.target
    /\ line.target.at = IF line.segmented THEN line.path[line.planned + 2] ELSE Goal(line.path)
    /\ pos.at = line.path[line.planned + 1]
OverPlace == line.planned = Pieces /\ pos.at = Goal(line.path)
PlaceInv == Whole => (ToMake => ToMakePlace) /\ (ReadyLine => ReadyPlace) /\ (line.state = "over" => OverPlace)

Matches(p) == p.at # Center => p.angle % 360 = p.at

AngleInv ==
    machine = "polar" =>
        /\ \A p \in trail : Matches(p)
        /\ Matches(last_pos)
        /\ ReadyLine => Matches(line.target)
        /\ Whole /\ ReadyLine => line.target.angle - pos.angle \in -180 .. 180

Near(angle) == angle \in -360 .. 719
CenterAfter(i) == \E j \in i + 1 .. Len(line.path) : line.path[j] = Center

\* The table is near its zero when the center is ahead
CenterInv ==
    machine = "polar" /\ Whole =>
        /\ InProgress /\ line.planned < Pieces /\ CenterAfter(line.planned + 1) => Near(pos.angle)
        /\ ReadyLine /\ line.segmented /\ CenterAfter(line.planned + 2) => Near(line.target.angle)

FeedInv ==
    /\ ToMake => line.rated = IF line.planned = 0 /\ RatedFirst(line.rapid) THEN 1 ELSE 0
    /\ ReadyLine => line.rated = IF RatedFirst(line.rapid) \/ RatedEach THEN 1 ELSE 0

CancelInv ==
    /\ jog_cancel => machine # "corexy"
    /\ jog_cancel /\ InProgress => line.cut
    /\ halting /\ line # NoLine => line.cut
    /\ line # NoLine => line.late \in {0, 1}
    /\ InProgress /\ line.late = 1 => jog_cancel /\ line.state = "next"

KinInv == KinType /\ CountInv /\ PlaceInv /\ AngleInv /\ CenterInv /\ FeedInv /\ CancelInv /\ AxesKept

LEMMA PathFact ==
    ASSUME NEW path \in Paths
    PROVE  /\ Len(path) \in Nat /\ Len(path) > 1
           /\ \A i \in 1..Len(path) : path[i] \in Points
           /\ \A i, j \in 1..Len(path) : path[i] = Center /\ j < i => path[j] = path[1]
  BY KinematicsAssumption

LEMMA TurnedFact ==
    ASSUME NEW last \in Int, NEW point \in Points
    PROVE  /\ Turned(last, point) \in Int
           /\ point # Center => /\ Turned(last, point) % 360 = point
                                /\ Turned(last, point) - last \in -180 .. 180
                                /\ last % 360 = point => Turned(last, point) = last
           /\ point = Center /\ Near(last) => Turned(last, point) = last
  <1>1. last % 360 \in 0..359
    OBVIOUS
  <1>2. CASE point # Center
    <2>1. point \in 0..359
      BY <1>2 DEF Points, Center
    <2> QED
      BY <1>1, <1>2, <2>1 DEF Turned
  <1>3. CASE point = Center
    <2>1. last \in -360 .. -1 => last % 360 = last + 360
      OBVIOUS
    <2>2. last \in 0 .. 359 => last % 360 = last
      OBVIOUS
    <2>3. last \in 360 .. 719 => last % 360 = last - 360
      OBVIOUS
    <2>4. Near(last) => Turned(last, Center) = last
      BY <1>1, <2>1, <2>2, <2>3 DEF Turned, Near
    <2>5. Turned(last, Center) \in Int
      BY <1>1 DEF Turned
    <2> QED
      BY <1>3, <2>4, <2>5
  <1> QED
    BY <1>2, <1>3

LEMMA InitKeeps == KinInit => KinInv
  <1> SUFFICES ASSUME KinInit PROVE KinInv
    OBVIOUS
  <1>1. PICK point \in {path[1] : path \in Paths} : (machine = "polar" => point = Center) /\ pos = [at |-> point, angle |-> 0]
    BY DEF KinInit
  <1>2. point \in Points
    BY PathFact
  <1>3. pos \in Position
    BY <1>1, <1>2 DEF Position
  <1>4. KinType
    <2>1. motors \in [a : Int, b : Int] /\ axes \in [x : Int, y : Int]
      BY DEF KinInit
    <2> QED
      BY <1>3, <2>1 DEF KinInit, KinType
  <1> QED
    BY <1>1, <1>4 DEF KinInit, KinInv, CountInv, PlaceInv, AngleInv, Matches, CenterInv, FeedInv, CancelInv,
       AxesKept, ToMake, ReadyLine, Whole, InProgress, Axes, AxisX, AxisY

LEMMA InvSound == KinInv => LinesSound
  <1> SUFFICES ASSUME KinInv PROVE LinesSound
    OBVIOUS
  <1>1. Traced
    BY DEF KinInv, PlaceInv, ReadyPlace, OverPlace, Traced, Whole, ReadyLine
  <1>2. TurnsLittle
    BY DEF KinInv, KinType, AngleInv, Matches, TurnsLittle, Whole, ReadyLine
  <1>3. FeedRated
    BY DEF KinInv, PlaceInv, ReadyPlace, FeedInv, FeedRated, Whole, ReadyLine
  <1>4. CancelledSoon
    BY DEF KinInv, CancelInv, CancelledSoon
  <1> QED
    BY <1>1, <1>2, <1>3, <1>4 DEF KinInv, LinesSound

LEMMA LineShape ==
    ASSUME KinType, line # NoLine
    PROVE  line \in LineType /\ line.state \in {"next", "ready", "over"} /\ line.path \in Paths
  BY DEF KinType, LineType

LEMMA McLineKeeps ==
    ASSUME KinInv, LineWindows = {}, NEW path \in Paths, NEW rapid \in BOOLEAN, NEW jog \in BOOLEAN,
           McLine(path, rapid, jog)
    PROVE  KinInv'
  <1> DEFINE seg == Segmented(path, rapid)
  <1> DEFINE new == [state |-> "next", path |-> path, rapid |-> rapid, jog |-> jog,
                segmented |-> seg,
                iterations |-> IF seg THEN Len(path) ELSE 2,
                added |-> 0, target |-> pos, from |-> pos,
                rated |-> IF RatedFirst(rapid) THEN 1 ELSE 0,
                planned |-> 0, late |-> 0, cut |-> FALSE]
  <1>1. /\ line' = new /\ jog_cancel' = FALSE /\ path[1] = pos.at /\ ~halting
        /\ Remembers => last_pos = pos
        /\ (\E i \in 1..Len(path) : path[i] = Center) => Near(last_pos.angle)
        /\ machine = "delta" => \A i \in 1..Len(path) : path[i] \notin Unreachable
        /\ UNCHANGED <<machine, limited, pos, trail, last_pos, halting, motors, axes>>
    BY DEF McLine, Allow, Remembers, Near, coreVars
  <1>2. Len(path) \in Nat /\ Len(path) > 1
    BY PathFact
  <1>3. seg \in BOOLEAN /\ (seg => Len(path) > 2 /\ machine # "corexy")
    BY DEF Segmented
  <1>4. pos \in Position /\ last_pos \in Position
    BY DEF KinInv, KinType
  <1>5. line' \in LineType
    <2> HIDE DEF seg
    <2> QED
      BY <1>1, <1>2, <1>3, <1>4 DEF LineType
  <1>6. KinType'
    BY <1>1, <1>5 DEF KinInv, KinType, Position
  <1>7. /\ line'.state = "next" /\ line'.path = path /\ line'.rapid = rapid /\ line'.segmented = seg
        /\ line'.iterations = (IF seg THEN Len(path) ELSE 2) /\ line'.added = 0 /\ line'.planned = 0
        /\ line'.rated = (IF RatedFirst(rapid) THEN 1 ELSE 0) /\ line'.late = 0 /\ line'.cut = FALSE
        /\ line' # NoLine
    <2> HIDE DEF seg
    <2>1. line'.state # NoLine.state
      BY <1>1 DEF NoLine
    <2> QED
      BY <1>1, <2>1
  <1> HIDE DEF new, seg
  <1>8. CountInv'
    <2>1. Shape'
      BY <1>1, <1>3, <1>7 DEF Shape
    <2>2. ToMakeCount'
      BY <1>2, <1>3, <1>7 DEF ToMakeCount, Pieces
    <2>3. ~ReadyLine'
      BY <1>7 DEF ReadyLine
    <2> QED
      BY <2>1, <2>2, <2>3 DEF CountInv
  <1>9. PlaceInv'
    <2>1. ToMakePlace'
      <3>1. line'.path[line'.planned + 1] = path[1]
        BY <1>7
      <3>2. line'.planned # Pieces'
        <4>1. Pieces' = Len(path) - 1 \/ Pieces' = 1
          BY <1>7 DEF Pieces
        <4> QED
          BY <1>2, <1>7, <4>1
      <3>3. (Remembers => last_pos = pos)'
        BY <1>1 DEF Remembers
      <3> QED
        BY <1>1, <3>1, <3>2, <3>3 DEF ToMakePlace
    <2> QED
      BY <1>7, <2>1 DEF PlaceInv, ReadyLine
  <1>10. AngleInv'
    BY <1>1, <1>7 DEF KinInv, AngleInv, Matches, ReadyLine
  <1>11. CenterInv'
    <2>1. CenterAfter(1)' => Near(last_pos.angle)
      BY <1>1, <1>2, <1>7 DEF CenterAfter
    <2> QED
      BY <1>1, <1>7, <2>1 DEF CenterInv, ReadyLine, InProgress, Near, Remembers
  <1>12. FeedInv'
    BY <1>1, <1>7 DEF FeedInv, ToMake, ReadyLine, RatedFirst
  <1>13. CancelInv'
    BY <1>1, <1>7 DEF CancelInv, InProgress
  <1>14. AxesKept'
    BY <1>1 DEF KinInv, AxesKept, Axes, AxisX, AxisY
  <1> QED
    BY <1>6, <1>8, <1>9, <1>10, <1>11, <1>12, <1>13, <1>14 DEF KinInv

LEMMA SegmentLineKeeps ==
    ASSUME KinInv, SegmentLine
    PROVE  KinInv'
  <1> DEFINE left == line.iterations - 1
             adds == line.segmented /\ left > 1
             point == IF adds THEN line.path[line.added + 2] ELSE Goal(line.path)
             cpos == Motors(point)
             ends == left = 0 \/ jog_cancel
             new == [line EXCEPT !.state = IF ends THEN "over" ELSE "ready",
                       !.iterations = left,
                       !.added = IF adds THEN @ + 1 ELSE @,
                       !.target = cpos,
                       !.from = IF Remembers THEN last_pos ELSE pos,
                       !.rated = IF ends THEN 0 ELSE IF RatedEach THEN @ + 1 ELSE @]
  <1>1. /\ line # NoLine /\ line \in LineType /\ line.path \in Paths /\ ToMake /\ line.state = "next" /\ InProgress
    BY LineShape DEF SegmentLine, KinInv, ToMake, InProgress
  <1>0. Shape /\ ToMakeCount /\ (~line.cut => ToMakePlace /\ Whole /\ ~jog_cancel)
    BY <1>1 DEF KinInv, CountInv, PlaceInv, CancelInv, Whole
  <1>2. /\ Len(line.path) \in Nat /\ Len(line.path) > 1
        /\ \A i \in 1..Len(line.path) : line.path[i] \in Points
        /\ \A i, j \in 1..Len(line.path) : line.path[i] = Center /\ j < i => line.path[j] = line.path[1]
    BY <1>1, PathFact
  <1>3. /\ line.segmented \in BOOLEAN /\ line.iterations \in Int /\ line.added \in Int /\ line.planned \in Int
        /\ line.rated \in Int
    BY <1>1 DEF LineType
  <1>4. /\ line.segmented => Len(line.path) > 2 /\ machine # "corexy"
        /\ machine = "delta" => \A i \in 1..Len(line.path) : line.path[i] \notin Unreachable
        /\ line.iterations \in 1 .. Pieces + 1 /\ line.planned = Pieces + 1 - line.iterations
        /\ line.segmented => line.added = IF line.iterations > 1 THEN line.planned ELSE Pieces - 1
    BY <1>0 DEF Shape, ToMakeCount
  <1>5. /\ adds => line.added + 2 \in 1..Len(line.path) /\ line.added = line.planned
        /\ left = 0 <=> line.planned = Pieces
        /\ line.segmented /\ ~adds /\ left # 0 => line.planned + 2 = Len(line.path) /\ line.added = line.planned
        /\ ~line.segmented /\ left # 0 => line.planned = 0
    BY <1>2, <1>3, <1>4 DEF Pieces
  <1>6. /\ point \in Points
        /\ left # 0 => point = IF line.segmented THEN line.path[line.planned + 2] ELSE Goal(line.path)
    BY <1>2, <1>3, <1>5 DEF Goal
  <1>7. machine = "delta" => point \notin Unreachable
    BY <1>2, <1>3, <1>4, <1>5 DEF Goal
  <1>8. /\ line' = new /\ last_pos' = IF Remembers THEN cpos ELSE last_pos
        /\ UNCHANGED <<machine, limited, pos, trail, jog_cancel, halting, motors, axes>>
    <2> HIDE DEF left, adds, point
    <2> QED
      BY <1>7 DEF SegmentLine, Remembers, coreVars, left, adds, point
  <1>9. cpos \in Position /\ cpos.at = point
    <2>1. Turned(last_pos.angle, point) \in Int
      <3> HIDE DEF point
      <3> QED
        BY <1>6, TurnedFact DEF KinInv, KinType, Position
    <2> HIDE DEF point
    <2> QED
      BY <1>6, <2>1 DEF Motors, Position
  <1>10. pos \in Position /\ last_pos \in Position
    BY DEF KinInv, KinType
  <1>11. machine = "polar" =>
            /\ Matches(cpos)
            /\ point # Center => cpos.angle - last_pos.angle \in -180 .. 180
            /\ point = Center /\ Near(last_pos.angle) => cpos.angle = last_pos.angle
            /\ point # Center /\ last_pos.angle % 360 = point => cpos.angle = last_pos.angle
    <2> HIDE DEF point
    <2>1. last_pos.angle \in Int
      BY <1>10 DEF Position
    <2>2. PICK turned \in Int : turned = Turned(last_pos.angle, point)
      BY <1>6, <2>1, TurnedFact
    <2>3. machine = "polar" => cpos.at = point /\ cpos.angle = turned
      BY <2>2 DEF Motors
    <2>4. point # Center => /\ turned % 360 = point
                            /\ turned - last_pos.angle \in -180 .. 180
                            /\ last_pos.angle % 360 = point => turned = last_pos.angle
      BY <1>6, <2>1, <2>2, TurnedFact
    <2>5. point = Center /\ Near(last_pos.angle) => turned = last_pos.angle
      BY <1>6, <2>1, <2>2, TurnedFact
    <2> HIDE DEF cpos, point
    <2>6. machine = "polar" => Matches(cpos)
      BY <2>3, <2>4 DEF Matches
    <2>7. machine = "polar" => /\ point # Center => cpos.angle - last_pos.angle \in -180 .. 180
                               /\ point = Center /\ Near(last_pos.angle) => cpos.angle = last_pos.angle
                               /\ point # Center /\ last_pos.angle % 360 = point => cpos.angle = last_pos.angle
      BY <2>1, <2>3, <2>4, <2>5
    <2> QED
      BY <2>6, <2>7
  <1>12. line' \in LineType
    <2>1. left \in Int /\ (IF adds THEN line.added + 1 ELSE line.added) \in Int
      BY <1>3
    <2>2. (IF ends THEN 0 ELSE IF RatedEach THEN line.rated + 1 ELSE line.rated) \in Int
      <3> HIDE DEF ends
      <3> QED
        BY <1>3
    <2>3. (IF Remembers THEN last_pos ELSE pos) \in Position
      BY <1>10
    <2> HIDE DEF left, adds, point, cpos, ends
    <2> QED
      BY <1>1, <1>8, <1>9, <2>1, <2>2, <2>3 DEF LineType
  <1>13. KinType'
    <2> HIDE DEF cpos, new
    <2> QED
      BY <1>8, <1>9, <1>10, <1>12 DEF KinInv, KinType
  <1>14. /\ line'.state = (IF ends THEN "over" ELSE "ready") /\ line'.path = line.path /\ line'.rapid = line.rapid
         /\ line'.segmented = line.segmented /\ line'.iterations = left
         /\ line'.added = (IF adds THEN line.added + 1 ELSE line.added) /\ line'.planned = line.planned
         /\ line'.target = cpos /\ line'.from = (IF Remembers THEN last_pos ELSE pos)
         /\ line'.rated = (IF ends THEN 0 ELSE IF RatedEach THEN line.rated + 1 ELSE line.rated)
         /\ line'.late = line.late /\ line'.cut = line.cut /\ line' # NoLine
    <2> HIDE DEF left, adds, point, cpos, ends
    <2>1. line' \in LineType /\ line' = new
      BY <1>8, <1>12
    <2>2. line'.state # NoLine.state
      BY <2>1 DEF NoLine, LineType
    <2>3. /\ line'.state = (IF ends THEN "over" ELSE "ready") /\ line'.iterations = left
          /\ line'.target = cpos /\ line'.from = (IF Remembers THEN last_pos ELSE pos)
      BY <1>1, <2>1 DEF LineType
    <2>4. line'.added = (IF adds THEN line.added + 1 ELSE line.added)
      BY <1>1, <2>1 DEF LineType
    <2>5. line'.rated = (IF ends THEN 0 ELSE IF RatedEach THEN line.rated + 1 ELSE line.rated)
      BY <1>1, <2>1 DEF LineType
    <2>6. /\ line'.path = line.path /\ line'.rapid = line.rapid /\ line'.segmented = line.segmented
          /\ line'.planned = line.planned /\ line'.late = line.late /\ line'.cut = line.cut
      BY <1>1, <2>1 DEF LineType
    <2> QED
      BY <2>2, <2>3, <2>4, <2>5, <2>6
  <1> HIDE DEF new
  <1>15. CountInv'
    <2> HIDE DEF point, cpos
    <2>1. Shape' /\ ~ToMake'
      BY <1>4, <1>8, <1>14 DEF Shape, ToMake
    <2>2. Pieces' = Pieces /\ Pieces \in Nat /\ Pieces > 0
      BY <1>2, <1>3, <1>14 DEF Pieces
    <2>3. ASSUME ReadyLine' PROVE ReadyCount'
      <3>1. left # 0 /\ left \in 1..Pieces /\ line.planned = Pieces - left
        BY <1>3, <1>4, <1>14, <2>2, <2>3 DEF ReadyLine
      <3>2. line.segmented => (IF adds THEN line.added + 1 ELSE line.added) = IF left > 1 THEN line.planned + 1 ELSE Pieces - 1
        BY <1>3, <1>4, <2>2, <3>1
      <3> HIDE DEF left, adds
      <3> QED
        BY <1>14, <2>2, <3>1, <3>2 DEF ReadyCount
    <2> QED
      BY <2>1, <2>3 DEF CountInv
  <1>16. PlaceInv'
    <2>1. line.planned = Pieces /\ ~line.cut => pos.at = Goal(line.path)
      BY <1>0 DEF ToMakePlace
    <2>2. ~line.cut => /\ line.planned # Pieces => pos.at = line.path[line.planned + 1]
                       /\ Remembers => last_pos = pos
                       /\ ~jog_cancel
      BY <1>0 DEF ToMakePlace
    <2>3. Pieces' = Pieces /\ Goal(line'.path) = Goal(line.path)
      BY <1>14 DEF Pieces, Goal
    <2> HIDE DEF left, adds, point, cpos
    <2> QED
      BY <1>5, <1>6, <1>8, <1>9, <1>14, <2>1, <2>2, <2>3 DEF PlaceInv, ToMakePlace, ReadyPlace, OverPlace, ToMake, ReadyLine, Remembers, Whole
  <1>17. AngleInv'
    <2> HIDE DEF left, adds, point, cpos, ends
    <2>1. machine = "polar" => Matches(last_pos) /\ Matches(cpos) /\ \A p \in trail : Matches(p)
      BY <1>11 DEF KinInv, AngleInv
    <2>2. ASSUME machine = "polar", ~line.cut, ~ends
          PROVE  cpos.angle - pos.angle \in -180 .. 180
      <3>1. last_pos = pos /\ (line.planned # Pieces => pos.at = line.path[line.planned + 1])
        BY <1>0, <2>2 DEF ToMakePlace, Remembers
      <3>2. left # 0 /\ line.planned # Pieces
        BY <1>5, <2>2 DEF ends
      <3>3. point = Center => Near(pos.angle)
        <4>1. ASSUME point = Center PROVE CenterAfter(line.planned + 1)
          <5>1. CASE line.segmented
            <6>1. line.planned + 2 \in 1..Len(line.path) /\ line.planned \in Nat
              BY <1>2, <1>3, <1>4, <1>5, <3>2, <5>1 DEF Pieces, left
            <6>2. line.path[line.planned + 2] = Center
              BY <1>6, <3>2, <4>1, <5>1
            <6>3. line.planned + 2 \in (line.planned + 1) + 1 .. Len(line.path)
              BY <6>1
            <6> QED
              BY <6>2, <6>3 DEF CenterAfter
          <5>2. CASE ~line.segmented
            <6>1. Len(line.path) \in 2 .. Len(line.path) /\ line.path[Len(line.path)] = Center /\ line.planned = 0
              BY <1>2, <1>5, <1>6, <3>2, <4>1, <5>2 DEF Goal
            <6> QED
              BY <6>1 DEF CenterAfter
          <5> QED
            BY <1>3, <5>1, <5>2
        <4>2. line.planned < Pieces
          BY <1>2, <1>3, <1>4, <3>2 DEF Pieces
        <4> QED
          BY <1>1, <2>2, <4>1, <4>2 DEF KinInv, CenterInv, Whole
      <3>4. pos.angle \in Int
        BY <1>10 DEF Position
      <3>5. CASE point = Center
        BY <1>11, <2>2, <3>1, <3>3, <3>4, <3>5
      <3>6. CASE point # Center
        BY <1>11, <2>2, <3>1, <3>6
      <3> QED
        BY <3>5, <3>6
    <2> QED
      BY <1>8, <1>14, <2>1, <2>2 DEF AngleInv, Matches, ReadyLine, Whole, Remembers
  <1>18. CenterInv'
    <2> HIDE DEF left, adds, point, cpos, ends
    <2> SUFFICES ASSUME machine = "polar", ~line.cut
                 PROVE  /\ InProgress' /\ line.planned < Pieces /\ CenterAfter(line.planned + 1) => Near(pos.angle)
                        /\ ReadyLine' /\ line.segmented /\ CenterAfter(line.planned + 2) => Near(cpos.angle)
      BY <1>8, <1>14 DEF CenterInv, Whole, Pieces, CenterAfter, Near
    <2>1. line.planned < Pieces /\ CenterAfter(line.planned + 1) => Near(pos.angle)
      BY <1>1 DEF KinInv, CenterInv, Whole
    <2>2. ASSUME ReadyLine', line.segmented, CenterAfter(line.planned + 2) PROVE Near(cpos.angle)
      <3>1. last_pos = pos /\ (line.planned # Pieces => pos.at = line.path[line.planned + 1])
        BY <1>0 DEF ToMakePlace, Remembers
      <3>2. left # 0 /\ line.planned # Pieces
        BY <1>5, <1>14, <2>2 DEF ReadyLine, ends
      <3>3. PICK j \in (line.planned + 2) + 1 .. Len(line.path) : line.path[j] = Center
        BY <2>2 DEF CenterAfter
      <3>4. line.planned \in Nat /\ line.planned < Pieces
        BY <1>2, <1>3, <1>4, <3>2 DEF Pieces
      <3>5. j \in 1..Len(line.path) /\ line.planned + 1 < j /\ line.planned + 2 < j /\ j \in (line.planned + 1) + 1 .. Len(line.path)
        BY <1>2, <3>3, <3>4
      <3>6. line.planned + 1 \in 1..Len(line.path) /\ line.planned + 2 \in 1..Len(line.path)
        BY <1>2, <3>4, <3>5
      <3>7. line.path[line.planned + 1] = line.path[1] /\ line.path[line.planned + 2] = line.path[1]
        BY <1>2, <3>3, <3>5, <3>6
      <3>8. point = pos.at
        BY <1>6, <2>2, <3>1, <3>2, <3>7
      <3>9. Near(pos.angle)
        BY <2>1, <3>3, <3>4, <3>5 DEF CenterAfter
      <3>10. Matches(pos)
        BY DEF KinInv, KinType, AngleInv
      <3>11. cpos.angle = pos.angle
        BY <1>11, <3>1, <3>8, <3>9, <3>10 DEF Matches
      <3> QED
        BY <3>9, <3>11
    <2> QED
      BY <2>1, <2>2
  <1>19. FeedInv'
    <2>1. RatedFirst(line.rapid) => ~RatedEach
      BY DEF RatedFirst, RatedEach
    <2>2. line.rated = IF line.planned = 0 /\ RatedFirst(line.rapid) THEN 1 ELSE 0
      BY <1>1 DEF KinInv, FeedInv
    <2>3. RatedFirst(line.rapid) => ~line.segmented
      BY <1>4 DEF RatedFirst
    <2>4. RatedEach' = RatedEach /\ RatedFirst(line.rapid)' = RatedFirst(line.rapid)
      BY <1>8, <1>14 DEF RatedEach, RatedFirst
    <2>5. ~ends => left # 0
      OBVIOUS
    <2> HIDE DEF left, adds, point, cpos, ends
    <2> QED
      BY <1>3, <1>5, <1>14, <2>1, <2>2, <2>3, <2>4, <2>5 DEF FeedInv, ToMake, ReadyLine
  <1>20. CancelInv'
    <2> HIDE DEF left, adds, point, cpos
    <2> QED
      BY <1>1, <1>8, <1>14 DEF KinInv, CancelInv, InProgress
  <1>21. AxesKept'
    BY <1>8 DEF KinInv, AxesKept, Axes, AxisX, AxisY
  <1> QED
    BY <1>13, <1>15, <1>16, <1>17, <1>18, <1>19, <1>20, <1>21 DEF KinInv

LEMMA McLineRefusedKeeps ==
    ASSUME KinInv, line' = NoLine, jog_cancel' \in BOOLEAN, jog_cancel' => jog_cancel,
           UNCHANGED <<machine, pos, trail, last_pos, halting, motors, axes>>
    PROVE  KinInv'
  <1>1. ~InProgress' /\ ~ToMake' /\ ~ReadyLine' /\ ~Whole'
    BY DEF InProgress, ToMake, ReadyLine, Whole
  <1>2. KinType'
    BY DEF KinInv, KinType
  <1>3. AngleInv'
    BY <1>1 DEF KinInv, AngleInv, Matches
  <1>4. CancelInv'
    BY <1>1 DEF KinInv, CancelInv
  <1>5. AxesKept'
    BY DEF KinInv, AxesKept, Axes, AxisX, AxisY
  <1> QED
    BY <1>1, <1>2, <1>3, <1>4, <1>5 DEF KinInv, CountInv, PlaceInv, CenterInv, FeedInv

LEMMA LineUpdated ==
    ASSUME NEW l \in LineType, NEW planned \in Int, NEW late \in Int
    PROVE  [l EXCEPT !.state = "next", !.rated = 0, !.planned = planned, !.late = late] \in LineType
  <1>1. PICK state \in {"next", "ready", "over"} : state = "next"
    OBVIOUS
  <1>2. PICK rated \in Int : rated = 0
    OBVIOUS
  <1>3. [l EXCEPT !.state = state, !.rated = rated, !.planned = planned, !.late = late] \in LineType
    BY DEF LineType
  <1> QED
    BY <1>1, <1>2, <1>3

LEMMA PlanSegmentKeeps ==
    ASSUME KinInv, PlanSegment
    PROVE  KinInv'
  <1>1. /\ line # NoLine /\ line \in LineType /\ line.path \in Paths /\ ReadyLine /\ line.state = "ready" /\ InProgress
        /\ ~ToMake
    BY LineShape DEF PlanSegment, KinInv, ReadyLine, ToMake, InProgress
  <1>2. Shape /\ ReadyCount /\ (~line.cut => ReadyPlace /\ Whole /\ ~jog_cancel) /\ line.late = 0
    BY <1>1 DEF KinInv, CountInv, PlaceInv, CancelInv, Whole
  <1>3. /\ Len(line.path) \in Nat /\ Len(line.path) > 1
        /\ \A i \in 1..Len(line.path) : line.path[i] \in Points
        /\ \A i, j \in 1..Len(line.path) : line.path[i] = Center /\ j < i => line.path[j] = line.path[1]
    BY <1>1, PathFact
  <1>4. /\ line.segmented \in BOOLEAN /\ line.iterations \in Int /\ line.added \in Int /\ line.planned \in Int
        /\ line.target \in Position
    BY <1>1 DEF LineType
  <1>5. Pieces \in Nat /\ Pieces > 0 /\ (line.segmented => Pieces = Len(line.path) - 1) /\ (~line.segmented => Pieces = 1)
    BY <1>2, <1>3, <1>4 DEF Pieces
  <1>6. /\ line.iterations \in 1 .. Pieces /\ line.planned = Pieces - line.iterations
        /\ line.segmented => line.added = IF line.iterations > 1 THEN line.planned + 1 ELSE Pieces - 1
    BY <1>2 DEF ReadyCount
  <1> DEFINE new == [line EXCEPT !.state = "next", !.rated = 0, !.planned = @ + 1,
                            !.late = IF jog_cancel THEN @ + 1 ELSE @]
  <1>7. /\ line' = new /\ pos' = line.target /\ trail' = trail \cup {line.target}
        /\ UNCHANGED <<machine, limited, last_pos, jog_cancel, halting, motors, axes>>
    BY DEF PlanSegment, coreVars
  <1>8. line' \in LineType
    <2>1. PICK late \in Int : late = IF jog_cancel THEN line.late + 1 ELSE line.late
      BY <1>2
    <2>2. PICK planned \in Int : planned = line.planned + 1
      BY <1>4
    <2>3. line' = [line EXCEPT !.state = "next", !.rated = 0, !.planned = planned, !.late = late]
      BY <1>7, <2>1, <2>2
    <2> HIDE DEF new
    <2> QED
      BY <1>1, <2>3, LineUpdated
  <1>9. /\ line'.state = "next" /\ line'.rated = 0 /\ line'.planned = line.planned + 1
        /\ line'.late = IF jog_cancel THEN 1 ELSE 0
    BY <1>1, <1>2, <1>7 DEF LineType
  <1>10. /\ line'.path = line.path /\ line'.rapid = line.rapid /\ line'.segmented = line.segmented
         /\ line'.iterations = line.iterations /\ line'.added = line.added /\ line'.target = line.target
         /\ line'.cut = line.cut
    BY <1>1, <1>7 DEF LineType
  <1>11. line' # NoLine
    <2>1. line'.state # NoLine.state
      BY <1>9 DEF NoLine
    <2> QED
      BY <2>1
  <1>12. Pieces' = Pieces /\ Goal(line'.path) = Goal(line.path)
    BY <1>10 DEF Pieces, Goal
  <1>13. ToMake' /\ ~ReadyLine' /\ InProgress'
    BY <1>9, <1>11 DEF ToMake, ReadyLine, InProgress
  <1> HIDE DEF new
  <1>14. KinType'
    BY <1>4, <1>7, <1>8 DEF KinInv, KinType
  <1>15. CountInv'
    <2>1. Shape'
      BY <1>2, <1>7, <1>10 DEF Shape
    <2>2. ToMakeCount'
      <3>1. line.segmented => line.added = IF line.iterations > 1 THEN line.planned + 1 ELSE Pieces - 1
        BY <1>6
      <3> QED
        BY <1>4, <1>5, <1>6, <1>9, <1>10, <1>12, <3>1 DEF ToMakeCount
    <2> QED
      BY <1>13, <2>1, <2>2 DEF CountInv
  <1>16. PlaceInv'
    <2>1. ASSUME ~line.cut PROVE ToMakePlace'
      <3>1. /\ Remembers => last_pos = line.target
            /\ line.segmented => line.target.at = line.path[line.planned + 2]
            /\ ~line.segmented => line.target.at = Goal(line.path)
        BY <1>2, <2>1 DEF ReadyPlace
      <3>2. (Remembers => last_pos = pos)'
        BY <1>7, <3>1 DEF Remembers
      <3>3. line.planned + 1 = Pieces => line.target.at = Goal(line.path)
        <4>1. line.planned + 1 = Pieces /\ line.segmented => line.planned + 2 = Len(line.path)
          BY <1>3, <1>4, <1>5
        <4> QED
          BY <3>1, <4>1 DEF Goal
      <3>4. line.planned + 1 # Pieces => line.target.at = line.path[(line.planned + 1) + 1]
        <4>1. line.planned + 1 # Pieces => line.segmented
          BY <1>4, <1>5, <1>6
        <4>2. (line.planned + 1) + 1 = line.planned + 2
          BY <1>4
        <4> QED
          BY <3>1, <4>1, <4>2
      <3> QED
        BY <1>7, <1>9, <1>10, <1>12, <3>2, <3>3, <3>4 DEF ToMakePlace
    <2> QED
      BY <1>9, <1>10, <1>13, <2>1 DEF PlaceInv, Whole
  <1>17. AngleInv'
    BY <1>1, <1>7, <1>13 DEF KinInv, AngleInv, Matches
  <1>18. CenterInv'
    <2> SUFFICES ASSUME machine = "polar", ~line.cut, line.planned + 1 < Pieces,
                        \E j \in (line.planned + 1 + 1) + 1 .. Len(line.path) : line.path[j] = Center
                 PROVE  Near(line.target.angle)
      BY <1>7, <1>9, <1>10, <1>12, <1>13 DEF CenterInv, Whole, CenterAfter, Near
    <2>1. line.segmented
      BY <1>4, <1>5, <1>6
    <2>2. line.planned + 1 + 1 = line.planned + 2
      BY <1>4
    <2>3. CenterAfter(line.planned + 2)
      BY <2>2 DEF CenterAfter
    <2> QED
      BY <1>1, <1>2, <2>1, <2>3 DEF KinInv, CenterInv
  <1>19. FeedInv'
    <2>1. line'.planned # 0
      BY <1>5, <1>6, <1>9
    <2> QED
      BY <1>9, <1>13, <2>1 DEF FeedInv
  <1>20. CancelInv'
    BY <1>1, <1>7, <1>9, <1>10, <1>11 DEF KinInv, CancelInv
  <1>21. AxesKept'
    BY <1>7 DEF KinInv, AxesKept, Axes, AxisX, AxisY
  <1> QED
    BY <1>14, <1>15, <1>16, <1>17, <1>18, <1>19, <1>20, <1>21 DEF KinInv

\* What does not touch the line that is made
LEMMA LineKept ==
    ASSUME KinInv, UNCHANGED <<machine, line>>,
           ~Whole \/ UNCHANGED <<pos, last_pos>>, last_pos' \in {last_pos, pos'},
           pos' \in trail', trail' \subseteq trail, 
           jog_cancel' = jog_cancel, halting' \in BOOLEAN, halting' => halting,
           UNCHANGED <<motors, axes>>
    PROVE  KinInv'
  <1>1. /\ InProgress' = InProgress /\ ToMake' = ToMake /\ ReadyLine' = ReadyLine /\ Whole' = Whole
        /\ Pieces' = Pieces /\ RatedEach' = RatedEach
    BY DEF InProgress, ToMake, ReadyLine, Whole, Pieces, RatedEach
  <1>2. KinType'
    BY DEF KinInv, KinType
  <1>3. CountInv'
    <2>1. Shape' = Shape /\ ToMakeCount' = ToMakeCount /\ ReadyCount' = ReadyCount
      BY <1>1 DEF Shape, ToMakeCount, ReadyCount
    <2> QED
      BY <1>1, <2>1 DEF KinInv, CountInv
  <1>4. PlaceInv'
    BY <1>1 DEF KinInv, PlaceInv, ToMakePlace, ReadyPlace, OverPlace, Remembers
  <1>5. AngleInv'
    BY <1>1 DEF KinInv, AngleInv, Matches
  <1>6. CenterInv'
    BY <1>1 DEF KinInv, CenterInv, CenterAfter, Near
  <1>7. FeedInv'
    BY <1>1 DEF KinInv, FeedInv, RatedFirst
  <1>8. CancelInv'
    BY <1>1 DEF KinInv, CancelInv
  <1>9. AxesKept'
    BY DEF KinInv, AxesKept, Axes, AxisX, AxisY
  <1> QED
    BY <1>2, <1>3, <1>4, <1>5, <1>6, <1>7, <1>8, <1>9 DEF KinInv

\* A line that is cancelled or cut off says nothing more of where it ends
LEMMA LineCut ==
    ASSUME KinInv, line # NoLine, NEW state \in {"next", "ready", "over"}, NEW cut \in BOOLEAN,
           line' = [line EXCEPT !.state = state, !.cut = cut], state \in {line.state, "over"},
           cut \/ (line.state = "over" /\ ~line.cut /\ UNCHANGED <<pos, halting>>),
           jog_cancel' \in BOOLEAN, jog_cancel => jog_cancel' \/ state = "over",
           jog_cancel' => machine # "corexy",
           pos' \in trail', trail' \subseteq trail, halting' \in BOOLEAN, halting' => cut,
           UNCHANGED <<machine, last_pos, motors, axes>>
    PROVE  KinInv'
  <1>1. line \in LineType /\ line.path \in Paths
    BY LineShape DEF KinInv
  <1>2. line' \in LineType
    BY <1>1 DEF LineType
  <1>3. /\ line'.state = state /\ line'.cut = cut /\ line'.path = line.path /\ line'.rapid = line.rapid
        /\ line'.segmented = line.segmented
    BY <1>1 DEF LineType
  <1>4. /\ line'.iterations = line.iterations /\ line'.added = line.added /\ line'.target = line.target
        /\ line'.rated = line.rated /\ line'.planned = line.planned /\ line'.late = line.late
    BY <1>1 DEF LineType
  <1>5. line' # NoLine
    <2>1. line'.state # NoLine.state
      BY <1>3 DEF NoLine
    <2> QED
      BY <2>1
  <1>6. /\ InProgress' => InProgress
        /\ ToMake' => ToMake
        /\ ReadyLine' => ReadyLine
    BY <1>3 DEF InProgress, ToMake, ReadyLine
  <1>7. Pieces' = Pieces /\ RatedEach' = RatedEach /\ Goal(line'.path) = Goal(line.path)
    BY <1>3 DEF Pieces, RatedEach, Goal
  <1>8. KinType'
    BY <1>2 DEF KinInv, KinType
  <1>9. CountInv'
    <2>1. Shape' = Shape
      BY <1>3 DEF Shape
    <2>2. ToMakeCount' = ToMakeCount /\ ReadyCount' = ReadyCount
      BY <1>3, <1>4, <1>7 DEF ToMakeCount, ReadyCount
    <2> QED
      BY <1>6, <2>1, <2>2 DEF KinInv, CountInv
  <1>10. PlaceInv'
    <2>1. CASE cut
      BY <1>3, <2>1 DEF PlaceInv, Whole
    <2>2. CASE line.state = "over" /\ ~line.cut /\ UNCHANGED <<pos, halting>>
      <3>1. OverPlace'
        BY <1>4, <1>7, <2>2 DEF KinInv, PlaceInv, OverPlace, Whole
      <3>2. ~ToMake' /\ ~ReadyLine'
        BY <1>3, <2>2 DEF ToMake, ReadyLine
      <3> QED
        BY <3>1, <3>2 DEF PlaceInv
    <2> QED
      BY <2>1, <2>2
  <1>11. AngleInv'
    <2>1. ~Whole' \/ ~ReadyLine'
      BY <1>3 DEF Whole, ReadyLine
    <2> QED
      BY <1>4, <1>6, <2>1 DEF KinInv, AngleInv, Matches
  <1>12. CenterInv'
    BY <1>3 DEF CenterInv, Whole, InProgress, ReadyLine
  <1>13. FeedInv'
    BY <1>3, <1>4, <1>6, <1>7 DEF KinInv, FeedInv, RatedFirst
  <1>14. CancelInv'
    BY <1>3, <1>4, <1>5, <1>6 DEF KinInv, CancelInv, InProgress
  <1>15. AxesKept'
    BY DEF KinInv, AxesKept, Axes, AxisX, AxisY
  <1> QED
    BY <1>8, <1>9, <1>10, <1>11, <1>12, <1>13, <1>14, <1>15 DEF KinInv

LEMMA JogCancelKeeps == ASSUME KinInv, JogCancel PROVE KinInv'
  <1>1. line # NoLine /\ line \in LineType /\ line.state \in {"next", "ready", "over"}
    BY LineShape DEF JogCancel, KinInv
  <1> DEFINE cut == line.cut \/ InProgress \/ halting'
  <1>2. line' = [line EXCEPT !.cut = cut]
    BY <1>1 DEF JogCancel
  <1>3. line' = [line EXCEPT !.state = line.state, !.cut = cut]
    BY <1>1, <1>2 DEF LineType
  <1>4. cut \in BOOLEAN
    BY DEF JogCancel
  <1>5. UNCHANGED <<machine, pos, trail, last_pos, motors, axes>> /\ jog_cancel' = (machine # "corexy")
        /\ halting' = (halting \/ (line.jog /\ trail # {pos}))
    BY DEF JogCancel, coreVars
  <1>6. jog_cancel' \in BOOLEAN /\ halting' \in BOOLEAN /\ halting \in BOOLEAN
        /\ (jog_cancel => jog_cancel') /\ (jog_cancel' => machine # "corexy")
    BY <1>5 DEF KinInv, KinType, CancelInv
  <1>7. pos' \in trail' /\ trail' \subseteq trail
    BY <1>5 DEF KinInv, KinType
  <1>8. cut \/ (line.state = "over" /\ ~line.cut /\ UNCHANGED <<pos, halting>>)
    <2>1. ~cut => ~halting' /\ ~halting /\ ~line.cut /\ line.state = "over"
      BY <1>1, <1>5 DEF InProgress
    <2> QED
      BY <1>5, <1>6, <2>1
  <1>9. halting' => cut
    OBVIOUS
  <1> HIDE DEF cut
  <1> QED
    BY <1>1, <1>3, <1>4, <1>5, <1>6, <1>7, <1>8, <1>9, LineCut

LEMMA ResetKeeps == ASSUME KinInv, Reset PROVE KinInv'
  <1>1. PICK stop \in trail : pos' = stop /\ trail' = {stop}
    BY DEF Reset
  <1>2. UNCHANGED <<machine, last_pos, jog_cancel, motors, axes>> /\ halting' = FALSE
    BY DEF Reset, coreVars
  <1>3. CASE line = NoLine
    <2>1. UNCHANGED line /\ ~Whole
      BY <1>3 DEF Reset, Whole
    <2> QED
      BY <1>1, <1>2, <2>1, LineKept
  <1>4. CASE line # NoLine
    <2>1. line' = [line EXCEPT !.state = "over", !.cut = TRUE]
      BY <1>4 DEF Reset
    <2>2. jog_cancel' \in BOOLEAN /\ (jog_cancel' => machine # "corexy")
      BY <1>2 DEF KinInv, KinType, CancelInv
    <2>3. PICK state \in {"next", "ready", "over"} : state = "over"
      OBVIOUS
    <2>4. PICK cut \in BOOLEAN : cut = TRUE
      OBVIOUS
    <2> QED
      BY <1>1, <1>2, <1>4, <2>1, <2>2, <2>3, <2>4, LineCut
  <1> QED
    BY <1>3, <1>4

LEMMA JogStoppedKeeps == ASSUME KinInv, JogStopped PROVE KinInv'
  <1>1. PICK stop \in trail : pos' = stop /\ trail' = {stop}
    BY DEF JogStopped
  <1>2. UNCHANGED <<machine, last_pos, line, jog_cancel, motors, axes>> /\ halting' = FALSE /\ halting
    BY DEF JogStopped, coreVars
  <1>3. ~Whole
    BY <1>2 DEF KinInv, CancelInv, Whole
  <1> QED
    BY <1>1, <1>2, <1>3, LineKept

LEMMA ArriveKeeps == ASSUME KinInv, Arrive PROVE KinInv'
  <1>1. UNCHANGED <<machine, pos, last_pos, line, jog_cancel, halting, motors, axes>> /\ trail' = {pos}
    BY DEF Arrive, coreVars
  <1>2. pos \in trail /\ halting \in BOOLEAN
    BY DEF KinInv, KinType
  <1> QED
    BY <1>1, <1>2, LineKept

LEMMA ProgramCompletedKeeps == ASSUME KinInv, ProgramCompleted PROVE KinInv'
  <1> DEFINE cpos == [at |-> pos.at, angle |-> Turned(0, pos.at)]
  <1>1. /\ pos' = cpos /\ last_pos' = cpos /\ trail' = {cpos} /\ line' = NoLine /\ ~halting
        /\ UNCHANGED <<machine, jog_cancel, halting, motors, axes>>
    BY DEF ProgramCompleted, coreVars
  <1>2. pos.at \in Points
    BY DEF KinInv, KinType, Position
  <1>3. PICK turned \in Int : turned = Turned(0, pos.at) /\ (pos.at # Center => turned % 360 = pos.at)
    <2>1. PICK zero \in Int : zero = 0
      OBVIOUS
    <2> QED
      BY <1>2, <2>1, TurnedFact
  <1>4. cpos \in Position /\ cpos.at = pos.at /\ cpos.angle = turned
    BY <1>2, <1>3 DEF Position
  <1>5. Matches(cpos)
    <2> HIDE DEF cpos
    <2> QED
      BY <1>3, <1>4 DEF Matches
  <1> HIDE DEF cpos
  <1>6. ~InProgress' /\ ~ToMake' /\ ~ReadyLine' /\ ~Whole'
    BY <1>1 DEF InProgress, ToMake, ReadyLine, Whole
  <1>7. KinType'
    BY <1>1, <1>4 DEF KinInv, KinType
  <1>8. AngleInv'
    BY <1>1, <1>5, <1>6 DEF AngleInv, Matches
  <1>9. CancelInv'
    BY <1>1, <1>6 DEF KinInv, CancelInv
  <1>10. AxesKept'
    BY <1>1 DEF KinInv, AxesKept, Axes, AxisX, AxisY
  <1> QED
    BY <1>6, <1>7, <1>8, <1>9, <1>10 DEF KinInv, CountInv, PlaceInv, CenterInv, FeedInv

\* CoreXY: what the motors say of the axes
LEMMA CoreInverse ==
    ASSUME NEW x \in Int, NEW y \in Int
    PROVE  Axes([a |-> x + y, b |-> x - y]) = [x |-> x, y |-> y]
  <1>1. ((x + y) + (x - y)) \div 2 = x
    OBVIOUS
  <1>2. ((x + y) - (x - y)) \div 2 = y
    OBVIOUS
  <1> QED
    BY <1>1, <1>2 DEF Axes, AxisX, AxisY

LEMMA CoreKeeps ==
    ASSUME KinInv, UNCHANGED lineVars, motors' \in [a : Int, b : Int], axes' \in [x : Int, y : Int], AxesKept'
    PROVE  KinInv'
  <1>1. /\ InProgress' = InProgress /\ ToMake' = ToMake /\ ReadyLine' = ReadyLine /\ Whole' = Whole
        /\ Pieces' = Pieces /\ RatedEach' = RatedEach
    BY DEF InProgress, ToMake, ReadyLine, Whole, Pieces, RatedEach, lineVars
  <1>2. KinType'
    BY DEF KinInv, KinType, lineVars
  <1>3. CountInv'
    <2>1. Shape' = Shape /\ ToMakeCount' = ToMakeCount /\ ReadyCount' = ReadyCount
      BY <1>1 DEF Shape, ToMakeCount, ReadyCount, lineVars
    <2> QED
      BY <1>1, <2>1 DEF KinInv, CountInv
  <1>4. PlaceInv'
    BY <1>1 DEF KinInv, PlaceInv, ToMakePlace, ReadyPlace, OverPlace, Remembers, lineVars
  <1>5. AngleInv'
    BY <1>1 DEF KinInv, AngleInv, Matches, lineVars
  <1>6. CenterInv'
    BY <1>1 DEF KinInv, CenterInv, CenterAfter, Near, lineVars
  <1>7. FeedInv'
    BY <1>1 DEF KinInv, FeedInv, RatedFirst, lineVars
  <1>8. CancelInv'
    BY <1>1 DEF KinInv, CancelInv, lineVars
  <1> QED
    BY <1>2, <1>3, <1>4, <1>5, <1>6, <1>7, <1>8 DEF KinInv

LEMMA CoreMovedKeeps ==
    ASSUME KinInv, NEW a \in CoreSteps, NEW b \in CoreSteps, CoreMoved(a, b)
    PROVE  KinInv'
  <1>1. a \in Int /\ b \in Int
    BY KinematicsAssumption
  <1>2. UNCHANGED lineVars /\ motors' = [a |-> a, b |-> b] /\ axes' = Axes(motors')
    BY DEF CoreMoved
  <1>3. motors' \in [a : Int, b : Int] /\ axes' \in [x : Int, y : Int]
    BY <1>1, <1>2 DEF Axes, AxisX, AxisY
  <1>4. AxesKept'
    BY <1>2 DEF AxesKept, Axes, AxisX, AxisY
  <1> QED
    BY <1>2, <1>3, <1>4, CoreKeeps

LEMMA CoreHomedKeeps ==
    ASSUME KinInv, NEW axis \in {"x", "y"}, NEW position \in CoreSteps, CoreHomed(axis, position)
    PROVE  KinInv'
  <1>1. position \in Int /\ motors \in [a : Int, b : Int] /\ axes \in [x : Int, y : Int] /\ Axes(motors) = axes
    BY KinematicsAssumption DEF KinInv, KinType, AxesKept
  <1>2. PICK x \in Int, y \in Int : x = AxisX(motors) /\ y = AxisY(motors) /\ axes = [x |-> x, y |-> y]
    BY <1>1 DEF Axes, AxisX, AxisY
  <1>3. UNCHANGED lineVars /\ axes' = [axes EXCEPT ![axis] = position]
    BY DEF CoreHomed
  <1>4. CASE axis = "x"
    <2>1. motors' = [a |-> position + y, b |-> position - y]
      BY <1>2, <1>4 DEF CoreHomed
    <2>2. axes' = [x |-> position, y |-> y]
      BY <1>2, <1>3, <1>4
    <2>3. Axes(motors') = axes'
      BY <1>1, <2>1, <2>2, CoreInverse
    <2>4. motors' \in [a : Int, b : Int] /\ axes' \in [x : Int, y : Int]
      BY <1>1, <2>1, <2>2
    <2> QED
      BY <1>3, <2>3, <2>4, CoreKeeps DEF AxesKept, Axes, AxisX, AxisY
  <1>5. CASE axis = "y"
    <2>1. motors' = [a |-> x + position, b |-> x - position]
      BY <1>2, <1>5 DEF CoreHomed
    <2>2. axes' = [x |-> x, y |-> position]
      BY <1>2, <1>3, <1>5
    <2>3. Axes(motors') = axes'
      BY <1>1, <2>1, <2>2, CoreInverse
    <2>4. motors' \in [a : Int, b : Int] /\ axes' \in [x : Int, y : Int]
      BY <1>1, <2>1, <2>2
    <2> QED
      BY <1>3, <2>3, <2>4, CoreKeeps DEF AxesKept, Axes, AxisX, AxisY
  <1> QED
    BY <1>4, <1>5

LEMMA KinStep ==
    ASSUME KinInv, LineWindows = {}, [KinNext]_kinVars
    PROVE  KinInv'
  <1>1. ASSUME NEW path \in Paths, NEW rapid \in BOOLEAN, NEW jog \in BOOLEAN, McLine(path, rapid, jog)
        PROVE  KinInv'
    BY <1>1, McLineKeeps
  <1>2. ASSUME NEW path \in Paths, NEW jog \in BOOLEAN, McLineRefused(path, jog)
        PROVE  KinInv'
    BY <1>2, McLineRefusedKeeps DEF McLineRefused, coreVars
  <1>3. ASSUME NEW a \in CoreSteps, NEW b \in CoreSteps, CoreMoved(a, b)
        PROVE  KinInv'
    BY <1>3, CoreMovedKeeps
  <1>4. ASSUME NEW axis \in {"x", "y"}, NEW position \in CoreSteps, CoreHomed(axis, position)
        PROVE  KinInv'
    BY <1>4, CoreHomedKeeps
  <1>5. ASSUME UNCHANGED kinVars PROVE KinInv'
    BY <1>5, CoreKeeps DEF kinVars, lineVars, coreVars, KinInv, KinType, AxesKept, Axes, AxisX, AxisY
  <1>6. CASE SegmentLine \/ PlanSegment
    BY <1>6, SegmentLineKeeps, PlanSegmentKeeps
  <1>7. CASE Arrive \/ JogCancel \/ JogStopped \/ Reset \/ ProgramCompleted
    BY <1>7, ArriveKeeps, JogCancelKeeps, JogStoppedKeeps, ResetKeeps, ProgramCompletedKeeps
  <1> QED
    BY <1>1, <1>2, <1>3, <1>4, <1>5, <1>6, <1>7 DEF KinNext

\* Lines are traced as they should be, and CoreXY keeps its axes, as long as nobody does what
\* LineWindows names.
THEOREM LinesAreSound ==
    ASSUME LineWindows = {}
    PROVE  KinSpec => []LinesSound
  <1>1. KinInit => KinInv
    BY InitKeeps
  <1>2. KinInv /\ [KinNext]_kinVars => KinInv'
    BY KinStep
  <1>3. KinInv => LinesSound
    BY InvSound
  <1> QED
    BY <1>1, <1>2, <1>3, PTL DEF KinSpec

-----------------------------------------------------------------------------
(* Spindles *)

SpindleFields ==
    {"reg", "pwm", "started", "hw", "id", "rpm", "over", "pct", "on", "disable", "gc", "disabled",
     "state", "wait", "target", "update", "current", "queue", "looked"}

Rates == Speeds \cup {0}
Pcts == Percents \cup {Default}
Kinds == {"pwm", "basic", "null"}

\* Off and at a speed, as a program asks for it and as a spindle is.
SpindleShape(x) ==
    /\ DOMAIN x = SpindleFields
    /\ x.reg \in Seq([type : Kinds, ok : BOOLEAN]) /\ Len(x.reg) =< Len(Types) + 1
    /\ x.pwm \in {None} \cup DOMAIN x.reg /\ x.id \in {None} \cup DOMAIN x.reg
    /\ x.hw \in [Ids -> [on : BOOLEAN, rpm : Int]]
    /\ x.rpm \in Rates /\ x.pct \in Pcts \cup {0} /\ x.over \in Int /\ x.current \in Int
    /\ x.gc \in [on : BOOLEAN, rpm : Rates] /\ x.target \in [on : BOOLEAN, rpm : Rates]
    /\ x.started \in BOOLEAN /\ x.on \in BOOLEAN /\ x.update \in BOOLEAN /\ x.looked \in BOOLEAN
    /\ x.disable \in BOOLEAN /\ x.disabled \in BOOLEAN
    /\ x.state \in {"idle", "run", "hold"} /\ x.wait \in Nat /\ x.queue \in Seq(Int)

\* Before the controller has started no spindle is selected, and after that one is.
Chosen(x) ==
    IF x.started THEN x.id # None /\ x.pct # 0
    ELSE /\ x.id = None /\ x.state = "idle" /\ x.wait = None /\ ~x.disabled
         /\ ~x.gc.on /\ Len(x.reg) =< Len(Types) /\ \A i \in DOMAIN x.reg : x.reg[i].type # "null"

\* What runs is what the core has selected and knows to run.
Obeys(x) ==
    \A i \in Ids : x.hw[i].on => x.started /\ x.id = i /\ x.on /\ x.reg[i].type # "null"

\* The program's speed is the spindle's, and while it waits for it what it asked for.
Agrees(x) ==
    LET asked == IF x.wait = None THEN x.gc ELSE x.target
    IN x.started /\ x.reg[x.id].type # "null" =>
          asked.on = x.hw[x.id].on /\ (asked.on => asked.rpm = x.rpm)

\* Nothing is left to be prepared, or prepared, for a machine at rest.
Rests(x) ==
    /\ x.state # "run" => x.queue = << >> /\ ~x.update
    /\ x.wait # None => x.state = "idle" /\ ~x.disabled
    /\ x.disabled => x.disable /\ x.pct = Default

\* The speed that was or is to be prepared; a spindle told to turn at no speed gets none.
Paced(x) ==
    LET rpm == Overridden(x.rpm, x.pct)
    IN x.started /\ x.hw[x.id].on =>
        /\ x.hw[x.id].rpm = 0 <=> x.rpm = 0
        /\ \A i \in DOMAIN x.queue : x.queue[i] = 0 <=> x.rpm = 0
        /\ IF x.update /\ ~x.looked THEN rpm # x.current \/ rpm = Final(x) ELSE rpm = Final(x)

SpindleSafe(x) == SpindleShape(x) /\ Chosen(x) /\ Obeys(x) /\ Agrees(x) /\ Rests(x) /\ Paced(x)

\* Settings of the spindles are sound, and a spindle that is to turn is told to: no
\* override makes its speed zero.
SpindleAssumptions ==
    /\ Types \in Seq({"pwm", "basic"})
    /\ Speeds \subseteq Nat /\ Percents \subseteq Nat \ {0} /\ Timeout \in Nat \ {0}
    /\ LowSpeed \in Int /\ HighSpeed \in Int
    /\ \A rpm \in Speeds \ {0}, pct \in Percents \cup {Default} : Overridden(rpm, pct) # 0

LEMMA OverriddenIs ==
    ASSUME SpindleAssumptions, NEW rpm \in Rates, NEW pct \in Pcts
    PROVE  Overridden(rpm, pct) \in Int /\ (Overridden(rpm, pct) = 0 <=> rpm = 0)
<1>1. rpm \in Nat /\ pct \in Nat
    BY DEF SpindleAssumptions, Rates, Pcts, Default
<1>2. rpm * pct \in Nat
    BY <1>1
<1>3. (rpm * pct) \div 100 \in Int
    BY <1>2
<1>4. Overridden(rpm, pct) \in Int
    BY <1>3 DEF Overridden, Clamp, SpindleAssumptions
<1>5. rpm = 0 => Overridden(rpm, pct) = 0
    BY DEF Overridden
<1>6. rpm # 0 => Overridden(rpm, pct) # 0
    BY DEF SpindleAssumptions, Rates, Pcts
<1> QED BY <1>4, <1>5, <1>6

\* A machine at rest whose spindles are off is safe.
Quiet(x) == /\ \A i \in Ids : ~x.hw[i].on
            /\ ~x.gc.on /\ x.state = "idle" /\ x.wait = None /\ x.queue = << >> /\ ~x.update

LEMMA QuietIsSafe ==
    ASSUME NEW x, SpindleShape(x), Chosen(x), Quiet(x), ~x.disabled
    PROVE  SpindleSafe(x)
<1>1. x.started => x.id \in Ids
    BY DEF SpindleShape, Chosen, Ids, None
<1>2. Obeys(x) /\ Rests(x) /\ Paced(x)
    BY <1>1 DEF Quiet, Obeys, Rests, Paced
<1>3. Agrees(x)
    <2>1. x.started => x.gc.on = FALSE /\ x.hw[x.id].on = FALSE
        BY <1>1 DEF Quiet, SpindleShape
    <2> QED BY <2>1 DEF Quiet, Agrees
<1> QED BY <1>2, <1>3 DEF SpindleSafe

\* What selecting and switching off leave alone.
SameCourse(y, x) ==
    /\ y.started = x.started /\ y.disabled = x.disabled /\ y.state = x.state /\ y.wait = x.wait
    /\ y.target = x.target /\ y.update = x.update /\ y.current = x.current /\ y.queue = x.queue
    /\ y.looked = x.looked

LEMMA AllOffIs ==
    ASSUME NEW x, SpindleShape(x)
    PROVE  LET y == AllOff(x)
           IN /\ SpindleShape(y) /\ SameCourse(y, x) /\ y.gc = x.gc /\ y.reg = x.reg
              /\ y.id = x.id /\ y.pct = x.pct /\ y.pwm = x.pwm
              /\ \A i \in Ids : y.hw[i].on <=> (x.hw[i].on /\ i # x.id)
<1> DEFINE hw == [i \in Ids |-> IF i = x.id THEN Off ELSE x.hw[i]]
           y == [x EXCEPT !.hw = hw, !.rpm = 0, !.over = 0, !.on = FALSE, !.disable = FALSE]
<1>1. AllOff(x) = y
    BY DEF AllOff, SpindleShape, SpindleFields
<1>2. hw \in [Ids -> [on : BOOLEAN, rpm : Int]] /\ \A i \in Ids : hw[i].on <=> (x.hw[i].on /\ i # x.id)
    BY DEF SpindleShape, Off
<1> HIDE DEF hw
<1>3. /\ SameCourse(y, x) /\ y.gc = x.gc /\ y.reg = x.reg /\ y.id = x.id /\ y.pct = x.pct /\ y.pwm = x.pwm
      /\ y.hw = hw /\ y.rpm = 0 /\ y.over = 0 /\ y.on = FALSE /\ y.disable = FALSE
      /\ DOMAIN y = SpindleFields
    BY DEF SpindleShape, SpindleFields, SameCourse
<1> HIDE DEF y
<1>4. SpindleShape(y)
    <2>1. 0 \in Rates /\ 0 \in Int /\ FALSE \in BOOLEAN
        BY DEF Rates
    <2> QED BY <1>2, <1>3, <2>1 DEF SpindleShape, SameCourse
<1> QED BY <1>1, <1>2, <1>3, <1>4

LEMMA GcSpindleOffIs ==
    ASSUME NEW x, SpindleShape(x)
    PROVE  LET y == GcSpindleOff(x)
           IN /\ SpindleShape(y) /\ SameCourse(y, x) /\ y.gc = Off /\ y.reg = x.reg
              /\ y.id = x.id /\ y.pct = x.pct /\ y.pwm = x.pwm
              /\ \A i \in Ids : y.hw[i].on <=> (x.hw[i].on /\ i # x.id)
<1> DEFINE z == AllOff(x)
           y == [z EXCEPT !.gc = Off]
<1>1. GcSpindleOff(x) = y
    BY DEF GcSpindleOff
<1>2. /\ SpindleShape(z) /\ SameCourse(z, x) /\ z.reg = x.reg /\ z.id = x.id /\ z.pct = x.pct /\ z.pwm = x.pwm
      /\ \A i \in Ids : z.hw[i].on <=> (x.hw[i].on /\ i # x.id)
    BY AllOffIs
<1> HIDE DEF z
<1>3. /\ SameCourse(y, z) /\ y.reg = z.reg /\ y.id = z.id /\ y.pct = z.pct /\ y.pwm = z.pwm
      /\ y.hw = z.hw /\ y.rpm = z.rpm /\ y.over = z.over /\ y.on = z.on /\ y.disable = z.disable
      /\ y.gc = Off /\ DOMAIN y = SpindleFields
    BY <1>2 DEF SpindleShape, SpindleFields, SameCourse
<1> HIDE DEF y
<1>4. Off \in [on : BOOLEAN, rpm : Rates]
    BY DEF Off, Rates
<1>5. SpindleShape(y)
    BY <1>2, <1>3, <1>4 DEF SpindleShape, SameCourse
<1>6. SameCourse(y, x)
    BY <1>2, <1>3 DEF SameCourse
<1> QED BY <1>1, <1>2, <1>3, <1>5, <1>6

-----------------------------------------------------------------------------
(* The selection of a spindle *)

\* The same spindles, of which those that are configured are off.
SameSpindles(y, x) ==
    /\ Len(y.reg) = Len(x.reg) /\ \A i \in DOMAIN x.reg : y.reg[i].type = x.reg[i].type
    /\ \A i \in Ids : y.hw[i].on => x.hw[i].on

LEMMA EntrySet ==
    ASSUME NEW reg \in Seq([type : Kinds, ok : BOOLEAN]), NEW id \in DOMAIN reg, NEW ok \in BOOLEAN
    PROVE  LET new == [reg EXCEPT ![id].ok = ok]
           IN /\ new \in Seq([type : Kinds, ok : BOOLEAN]) /\ Len(new) = Len(reg)
              /\ \A i \in DOMAIN reg : new[i].type = reg[i].type
<1> DEFINE S == [type : Kinds, ok : BOOLEAN]
           e == [reg[id] EXCEPT !.ok = ok]
<1>1. reg[id] \in S
    <2> HIDE DEF S
    <2>1. reg \in Seq(S)
        BY DEF S
    <2> QED BY <2>1
<1>2. e \in S /\ e.type = reg[id].type
    BY <1>1
<1>3. [reg EXCEPT ![id].ok = ok] = [reg EXCEPT ![id] = e]
    BY Zenon
<1> HIDE DEF S, e
<1>4. [reg EXCEPT ![id] = e] \in Seq(S) /\ Len([reg EXCEPT ![id] = e]) = Len(reg)
    <2>1. reg \in Seq(S)
        BY DEF S
    <2> QED BY <1>2, <2>1
<1>5. \A i \in DOMAIN reg : [reg EXCEPT ![id] = e][i].type = reg[i].type
    BY <1>2
<1> QED BY <1>3, <1>4, <1>5 DEF S

LEMMA ConfiguredIs ==
    ASSUME NEW x, SpindleShape(x), NEW id \in DOMAIN x.reg, NEW ok \in BOOLEAN
    PROVE  LET y == Configured(x, id, ok)
           IN SpindleShape(y) /\ SameCourse(y, x) /\ SameSpindles(y, x) /\ y.id = x.id /\ y.gc = x.gc
              /\ y.pct = x.pct
<1> DEFINE reg == [x.reg EXCEPT ![id].ok = ok]
           hw == [x.hw EXCEPT ![id] = IF ok THEN Off ELSE x.hw[id]]
           y == [x EXCEPT !.reg = reg, !.hw = hw]
<1>1. Configured(x, id, ok) = y
    BY DEF Configured, SpindleShape, SpindleFields
<1>2. /\ reg \in Seq([type : Kinds, ok : BOOLEAN]) /\ Len(reg) = Len(x.reg)
      /\ \A i \in DOMAIN x.reg : reg[i].type = x.reg[i].type
    BY EntrySet DEF SpindleShape
<1>3. /\ hw \in [Ids -> [on : BOOLEAN, rpm : Int]] /\ \A i \in Ids : hw[i].on => x.hw[i].on
    <2>1. Off \in [on : BOOLEAN, rpm : Int] /\ ~Off.on
        BY DEF Off
    <2>2. x.hw \in [Ids -> [on : BOOLEAN, rpm : Int]]
        BY DEF SpindleShape
    <2>3. CASE ok
        BY <2>1, <2>2, <2>3
    <2>4. CASE ~ok
        BY <2>2, <2>4
    <2> QED BY <2>3, <2>4
<1> HIDE DEF reg, hw
<1>4. /\ SameCourse(y, x) /\ y.gc = x.gc /\ y.id = x.id /\ y.pct = x.pct /\ y.pwm = x.pwm
      /\ y.hw = hw /\ y.reg = reg /\ y.rpm = x.rpm /\ y.over = x.over /\ y.on = x.on /\ y.disable = x.disable
      /\ DOMAIN y = SpindleFields
    BY DEF SpindleShape, SpindleFields, SameCourse
<1> HIDE DEF y
<1>5. DOMAIN y.reg = DOMAIN x.reg
    BY <1>2, <1>4 DEF SpindleShape
<1>6. SpindleShape(y)
    BY <1>2, <1>3, <1>4, <1>5 DEF SpindleShape, SameCourse
<1> QED BY <1>1, <1>2, <1>3, <1>4, <1>6 DEF SameSpindles

LEMMA PwmFirstIs ==
    ASSUME NEW x, SpindleShape(x), NEW id, NEW ok \in BOOLEAN
    PROVE  LET y == PwmFirst(x, id, ok)
           IN SpindleShape(y) /\ SameCourse(y, x) /\ SameSpindles(y, x) /\ y.id = x.id /\ y.gc = x.gc
              /\ y.pct = x.pct
<1> DEFINE z == IF x.pwm \notin {None, id} THEN Configured(x, x.pwm, ok) ELSE x
           y == [z EXCEPT !.pwm = None]
<1>1. PwmFirst(x, id, ok) = y
    BY DEF PwmFirst
<1>2. /\ SpindleShape(z) /\ SameCourse(z, x) /\ SameSpindles(z, x) /\ z.id = x.id /\ z.gc = x.gc
      /\ z.pct = x.pct
    <2>1. CASE x.pwm \notin {None, id}
        <3>1. x.pwm \in DOMAIN x.reg
            BY <2>1 DEF SpindleShape
        <3>2. z = Configured(x, x.pwm, ok)
            BY <2>1
        <3> HIDE DEF z
        <3> QED BY <3>1, <3>2, ConfiguredIs
    <2>2. CASE x.pwm \in {None, id}
        <3>1. z = x
            BY <2>2
        <3> HIDE DEF z
        <3> QED BY <3>1 DEF SameCourse, SameSpindles
    <2> QED BY <2>1, <2>2
<1> HIDE DEF z
<1>3. /\ SameCourse(y, z) /\ y.gc = z.gc /\ y.id = z.id /\ y.pct = z.pct /\ y.pwm = None
      /\ y.hw = z.hw /\ y.reg = z.reg /\ y.rpm = z.rpm /\ y.over = z.over /\ y.on = z.on
      /\ y.disable = z.disable /\ DOMAIN y = SpindleFields
    BY <1>2 DEF SpindleShape, SpindleFields, SameCourse
<1> HIDE DEF y
<1>4. SpindleShape(y)
    BY <1>2, <1>3 DEF SpindleShape, SameCourse
<1>5. SameCourse(y, x) /\ SameSpindles(y, x)
    BY <1>2, <1>3 DEF SameCourse, SameSpindles
<1> QED BY <1>1, <1>2, <1>3, <1>4, <1>5

\* When another spindle is selected none runs, and the new one is in use unless its
\* configuration failed.
LEMMA ActivateIs ==
    ASSUME NEW x, SpindleShape(x), Obeys(x), NEW id \in DOMAIN x.reg, NEW ok \in BOOLEAN, id # x.id
    PROVE  LET y == Activate(x, id, ok)
           IN /\ SpindleShape(y) /\ SameCourse(y, x) /\ Len(y.reg) = Len(x.reg)
              /\ \A i \in DOMAIN x.reg : y.reg[i].type = x.reg[i].type
              /\ \A i \in Ids : ~y.hw[i].on
              /\ x.id # None => ~y.gc.on
              /\ y.id \in {x.id, id} /\ (ok => y.id = id)
              /\ y.id # x.id => y.pct # 0
              /\ x.pct # 0 => y.pct = x.pct
              /\ x.id = None => y.gc = x.gc
<1> DEFINE v == PwmFirst(x, id, ok)
           z == IF v.id \notin {None, id} THEN GcSpindleOff(v) ELSE v
           y == [z EXCEPT !.reg[id].ok = TRUE, !.id = id, !.pct = IF @ = 0 THEN Default ELSE @]
<1>1. Activate(x, id, ok) = IF z.reg[id].ok \/ ok THEN y ELSE z
    BY DEF Activate
<1>2. /\ SpindleShape(v) /\ SameCourse(v, x) /\ SameSpindles(v, x) /\ v.id = x.id /\ v.gc = x.gc
      /\ v.pct = x.pct
    BY PwmFirstIs
<1> HIDE DEF v
<1>3. /\ SpindleShape(z) /\ SameCourse(z, x) /\ Len(z.reg) = Len(x.reg)
      /\ \A i \in DOMAIN x.reg : z.reg[i].type = x.reg[i].type
      /\ \A i \in Ids : ~z.hw[i].on
      /\ z.id = x.id /\ z.pct = x.pct /\ (x.id # None => ~z.gc.on) /\ (x.id = None => z.gc = x.gc)
    <2>1. CASE x.id = None
        <3>1. z = v
            BY <1>2, <2>1
        <3> HIDE DEF z
        <3>2. \A i \in Ids : ~x.hw[i].on
            BY <2>1 DEF Obeys, Ids, None
        <3> QED BY <1>2, <2>1, <3>1, <3>2 DEF SameSpindles
    <2>2. CASE x.id # None
        <3>1. z = GcSpindleOff(v)
            BY <1>2, <2>2
        <3> HIDE DEF z
        <3>2. /\ SpindleShape(z) /\ SameCourse(z, v) /\ z.gc = Off /\ z.reg = v.reg
              /\ z.id = v.id /\ z.pct = v.pct
              /\ \A i \in Ids : z.hw[i].on <=> (v.hw[i].on /\ i # v.id)
            BY <1>2, <3>1, GcSpindleOffIs
        <3>3. \A i \in Ids : ~z.hw[i].on
            BY <1>2, <3>2 DEF Obeys, SameSpindles
        <3>4. SameCourse(z, x)
            BY <1>2, <3>2 DEF SameCourse
        <3> QED BY <1>2, <2>2, <3>2, <3>3, <3>4 DEF SameSpindles, Off
    <2> QED BY <2>1, <2>2
<1> HIDE DEF z
<1>4. id \in DOMAIN z.reg
    BY <1>3 DEF SpindleShape
<1>5. CASE z.reg[id].ok \/ ok
    <2> DEFINE reg == [z.reg EXCEPT ![id].ok = TRUE]
               pct == IF z.pct = 0 THEN Default ELSE z.pct
    <2>1. y = [z EXCEPT !.reg = reg, !.id = id, !.pct = pct]
        BY <1>3 DEF SpindleShape, SpindleFields
    <2>2. /\ reg \in Seq([type : Kinds, ok : BOOLEAN]) /\ Len(reg) = Len(z.reg)
          /\ \A i \in DOMAIN z.reg : reg[i].type = z.reg[i].type
        BY <1>3, <1>4, EntrySet DEF SpindleShape
    <2>3. pct \in Pcts /\ pct # 0
        BY <1>3 DEF SpindleShape, Pcts, Default
    <2> HIDE DEF y, reg, pct
    <2>4. /\ SameCourse(y, z) /\ y.gc = z.gc /\ y.id = id /\ y.pct = pct /\ y.pwm = z.pwm
          /\ y.hw = z.hw /\ y.reg = reg /\ y.rpm = z.rpm /\ y.over = z.over /\ y.on = z.on
          /\ y.disable = z.disable /\ DOMAIN y = SpindleFields
        BY <1>3, <2>1 DEF SpindleShape, SpindleFields, SameCourse
    <2>5. DOMAIN reg = DOMAIN z.reg /\ DOMAIN z.reg = DOMAIN x.reg
        BY <1>3, <2>2 DEF SpindleShape
    <2>6. SpindleShape(y)
        BY <1>3, <2>2, <2>3, <2>4, <2>5 DEF SpindleShape, SameCourse
    <2>7. SameCourse(y, x)
        BY <1>3, <2>4 DEF SameCourse
    <2>8. Activate(x, id, ok) = y
        BY <1>1, <1>5
    <2>9. y.pct # 0 /\ (x.pct # 0 => y.pct = x.pct)
        BY <1>3, <2>3, <2>4 DEF pct
    <2> QED BY <1>3, <2>2, <2>4, <2>5, <2>6, <2>7, <2>8, <2>9
<1>6. CASE ~(z.reg[id].ok \/ ok)
    <2>1. Activate(x, id, ok) = z
        BY <1>1, <1>6
    <2> QED BY <1>3, <1>6, <2>1
<1> QED BY <1>5, <1>6

LEMMA RegisteredIs ==
    ASSUME SpindleAssumptions, NEW x, SpindleShape(x), ~IsNull(x), NEW type \in Kinds,
           Len(x.reg) =< Len(Types)
    PROVE  LET y == Registered(x, type)
           IN /\ SpindleShape(y) /\ SameCourse(y, x) /\ y.reg = Append(x.reg, [type |-> type, ok |-> FALSE])
              /\ y.id = x.id /\ y.gc = x.gc /\ y.pct = x.pct /\ y.hw = x.hw
<1> DEFINE reg == Append(x.reg, [type |-> type, ok |-> FALSE])
           z == [x EXCEPT !.reg = reg]
           pwm == IF type = "pwm" /\ x.pwm = None THEN Len(reg) ELSE x.pwm
           y == [x EXCEPT !.reg = reg, !.pwm = pwm]
<1>1. /\ reg \in Seq([type : Kinds, ok : BOOLEAN]) /\ Len(reg) = Len(x.reg) + 1
      /\ DOMAIN reg = 1 .. Len(reg) /\ DOMAIN x.reg = 1 .. Len(x.reg) /\ Len(x.reg) \in Nat
    <2> DEFINE S == [type : Kinds, ok : BOOLEAN]
               e == [type |-> type, ok |-> FALSE]
    <2>1. e \in S /\ x.reg \in Seq(S)
        BY DEF SpindleShape
    <2> HIDE DEF S, e
    <2>2. Append(x.reg, e) \in Seq(S) /\ Len(Append(x.reg, e)) = Len(x.reg) + 1
          /\ DOMAIN Append(x.reg, e) = 1 .. Len(Append(x.reg, e)) /\ DOMAIN x.reg = 1 .. Len(x.reg)
          /\ Len(x.reg) \in Nat
        BY <2>1
    <2> QED BY <2>2 DEF S, e
<1> HIDE DEF reg
<1>2. z.reg = reg /\ z.pwm = x.pwm /\ DOMAIN z = SpindleFields
    BY DEF SpindleShape, SpindleFields
<1>3. Registered(x, type) = [z EXCEPT !.pwm = IF type = "pwm" /\ @ = None THEN Len(reg) ELSE @]
    BY <1>2 DEF Registered, Entry, reg
<1>4. Registered(x, type) = y
    BY <1>2, <1>3 DEF SpindleShape, SpindleFields
<1>5. pwm \in {None} \cup DOMAIN reg /\ x.id \in {None} \cup DOMAIN reg
    BY <1>1 DEF SpindleShape, None
<1> HIDE DEF z, pwm
<1>6. /\ SameCourse(y, x) /\ y.reg = reg /\ y.id = x.id /\ y.gc = x.gc /\ y.pct = x.pct /\ y.hw = x.hw
      /\ y.pwm = pwm /\ y.rpm = x.rpm /\ y.over = x.over /\ y.on = x.on /\ y.disable = x.disable
      /\ DOMAIN y = SpindleFields
    BY DEF SpindleShape, SpindleFields, SameCourse
<1> HIDE DEF y
<1>7. Len(reg) =< Len(Types) + 1
    <2>1. Len(Types) \in Nat
        BY DEF SpindleAssumptions
    <2> QED BY <1>1, <2>1
<1>8. SpindleShape(y)
    BY <1>1, <1>5, <1>6, <1>7 DEF SpindleShape, SameCourse
<1> QED BY <1>4, <1>6, <1>8 DEF reg

LEMMA RegisterKept ==
    ASSUME SpindleAssumptions, Windows = {}, SpindleSafe(s), Register
    PROVE  SpindleSafe(s')
<1> DEFINE type == Types[Registrations + 1]
<1>1. /\ ~s.started /\ SpindleShape(s) /\ Chosen(s) /\ Obeys(s) /\ Rests(s)
      /\ Registrations < Len(Types) /\ s' = Registered(s, type)
    BY DEF Register, SpindleSafe
<1>2. Len(s.reg) \in Nat /\ Len(Types) \in Nat /\ DOMAIN s.reg = 1 .. Len(s.reg)
    BY <1>1 DEF SpindleShape, SpindleAssumptions
<1>3. Registrations = Len(s.reg) /\ ~IsNull(s)
    <2>1. s.reg # << >> => 1 \in DOMAIN s.reg
        BY <1>1, <1>2 DEF SpindleShape
    <2>2. s.reg # << >> => s.reg[1].type # "null"
        BY <1>1, <2>1 DEF Chosen
    <2>3. Len(s.reg) = 1 => s.reg[1].type # "null"
        BY <1>1, <1>2 DEF Chosen
    <2>4. ~(s.reg # << >> /\ s.reg[1].type = "null") /\ ~IsNull(s)
        BY <2>2, <2>3 DEF IsNull
    <2>5. Registrations = Len(s.reg) - 0
        BY <2>4 DEF Registrations
    <2> QED BY <1>2, <2>4, <2>5
<1>4. type \in {"pwm", "basic"} /\ type # "null" /\ type \in Kinds
    <2>1. Registrations + 1 \in 1 .. Len(Types)
        BY <1>1, <1>2, <1>3
    <2>2. \A i \in 1 .. Len(Types) : Types[i] \in {"pwm", "basic"}
        BY DEF SpindleAssumptions
    <2> QED BY <2>1, <2>2 DEF Kinds
<1> HIDE DEF type
<1> DEFINE e == [type |-> type, ok |-> FALSE]
<1>5. /\ SpindleShape(s') /\ SameCourse(s', s) /\ s'.reg = Append(s.reg, e)
      /\ s'.id = s.id /\ s'.gc = s.gc /\ s'.pct = s.pct /\ s'.hw = s.hw
    <2>1. Len(s.reg) =< Len(Types)
        BY <1>1 DEF Chosen
    <2> QED BY <1>1, <1>3, <1>4, <2>1, RegisteredIs
<1>6. Len(s'.reg) =< Len(Types) /\ \A i \in DOMAIN s'.reg : s'.reg[i].type # "null"
    <2> DEFINE S == [type : Kinds, ok : BOOLEAN]
    <2>1. e \in S /\ e.type # "null" /\ s.reg \in Seq(S)
        BY <1>1, <1>4 DEF SpindleShape, Kinds
    <2>2. \A i \in DOMAIN s.reg : s.reg[i].type # "null"
        BY <1>1 DEF Chosen
    <2> HIDE DEF S, e
    <2>3. Len(s'.reg) = Len(s.reg) + 1 /\ DOMAIN s'.reg = 1 .. (Len(s.reg) + 1)
          /\ \A i \in 1 .. Len(s.reg) + 1 : s'.reg[i] = IF i = Len(s.reg) + 1 THEN e ELSE s.reg[i]
        BY <1>5, <2>1
    <2> QED BY <1>1, <1>2, <1>3, <2>1, <2>2, <2>3
<1>7. Chosen(s')
    BY <1>1, <1>5, <1>6 DEF Chosen, SameCourse
<1>8. Quiet(s') /\ ~s'.disabled
    BY <1>1, <1>5 DEF Chosen, SameCourse, Quiet, Obeys, Rests
<1> QED BY <1>5, <1>7, <1>8, QuietIsSafe

LEMMA SelectKept ==
    ASSUME SpindleAssumptions, Windows = {}, SpindleSafe(s), Select
    PROVE  SpindleSafe(s')
<1>1. PICK id \in DOMAIN s.reg, ok \in BOOLEAN : s' = Selected(s, id, ok)
    BY DEF Select
<1>2. /\ SpindleShape(s) /\ Chosen(s) /\ Obeys(s) /\ Rests(s)
      /\ s.started /\ s.state = "idle" /\ s.wait = None /\ ~s.disabled
    BY DEF Select, Ready, MayStop, SpindleSafe
<1>3. s.reg # << >>
    BY <1>1, <1>2 DEF SpindleShape
<1>4. CASE s.id = id
    <2>1. s' = s
        BY <1>1, <1>3, <1>4 DEF Selected
    <2> QED BY <2>1
<1>5. CASE s.id # id
    <2>1. s' = Activate(s, id, ok)
        BY <1>1, <1>3, <1>5 DEF Selected
    <2>2. /\ SpindleShape(s') /\ SameCourse(s', s)
          /\ \A i \in Ids : ~s'.hw[i].on
          /\ s.id # None => ~s'.gc.on
          /\ s'.id \in {s.id, id}
          /\ s.pct # 0 => s'.pct = s.pct
        BY <1>2, <1>5, <2>1, ActivateIs
    <2>3. id # None
        BY <1>2 DEF SpindleShape, None
    <2>4. Chosen(s') /\ Quiet(s') /\ ~s'.disabled
        BY <1>2, <2>2, <2>3 DEF Chosen, SameCourse, Quiet, Rests
    <2> QED BY <2>2, <2>4, QuietIsSafe
<1> QED BY <1>4, <1>5

LEMMA BootIs ==
    ASSUME NEW y, SpindleShape(y), y.id # None, y.pct # 0, Quiet(y), ~y.disabled
    PROVE  SpindleSafe([AllOff(y) EXCEPT !.started = TRUE])
<1> DEFINE z == AllOff(y)
           w == [z EXCEPT !.started = TRUE]
<1>1. /\ SpindleShape(z) /\ SameCourse(z, y) /\ z.gc = y.gc /\ z.reg = y.reg
      /\ z.id = y.id /\ z.pct = y.pct /\ z.pwm = y.pwm
      /\ \A i \in Ids : z.hw[i].on <=> (y.hw[i].on /\ i # y.id)
    BY AllOffIs
<1> HIDE DEF z
<1>2. /\ DOMAIN w = SpindleFields /\ w.started = TRUE /\ w.reg = z.reg /\ w.pwm = z.pwm /\ w.hw = z.hw
      /\ w.id = z.id /\ w.rpm = z.rpm /\ w.over = z.over /\ w.pct = z.pct /\ w.on = z.on
      /\ w.disable = z.disable /\ w.gc = z.gc /\ w.disabled = z.disabled /\ w.state = z.state
      /\ w.wait = z.wait /\ w.target = z.target /\ w.update = z.update /\ w.current = z.current
      /\ w.queue = z.queue /\ w.looked = z.looked
    BY <1>1 DEF SpindleShape, SpindleFields
<1> HIDE DEF w
<1>3. SpindleShape(w)
    BY <1>1, <1>2 DEF SpindleShape
<1>4. Chosen(w) /\ Quiet(w) /\ ~w.disabled
    BY <1>1, <1>2 DEF Chosen, Quiet, SameCourse
<1>5. SpindleSafe(w)
    BY <1>3, <1>4, QuietIsSafe
<1> QED BY <1>5 DEF w, z

LEMMA BootKept ==
    ASSUME SpindleAssumptions, SpindleSafe(s), Boot
    PROVE  SpindleSafe(s')
<1>1. PICK id \in 1 .. Len(Types), ok \in BOOLEAN :
        LET x == Selected(s, IF id \in DOMAIN s.reg THEN id ELSE 1, ok)
            y == IF x.id # None THEN x
                 ELSE LET z == Registered(x, "null") IN Activate(z, Len(z.reg), TRUE)
        IN s' = [AllOff(y) EXCEPT !.started = TRUE]
    BY DEF Boot
<1> DEFINE first == IF id \in DOMAIN s.reg THEN id ELSE 1
           x == Selected(s, first, ok)
           z == Registered(x, "null")
           y == IF x.id # None THEN x ELSE Activate(z, Len(z.reg), TRUE)
<1>2. /\ ~s.started /\ SpindleShape(s) /\ Chosen(s) /\ Obeys(s) /\ Rests(s)
      /\ s.id = None /\ s.state = "idle" /\ s.wait = None /\ ~s.disabled /\ ~s.gc.on
      /\ s.queue = << >> /\ ~s.update /\ \A i \in Ids : ~s.hw[i].on
    BY DEF Boot, SpindleSafe, Chosen, Obeys, Rests
<1>3. Len(s.reg) \in Nat /\ Len(Types) \in Nat /\ DOMAIN s.reg = 1 .. Len(s.reg) /\ Len(s.reg) =< Len(Types)
    BY <1>2 DEF SpindleShape, SpindleAssumptions, Chosen
<1>4. /\ SpindleShape(x) /\ SameCourse(x, s) /\ x.gc = s.gc /\ \A i \in Ids : ~x.hw[i].on
      /\ x.id # None => x.pct # 0
      /\ x.id = None => ~IsNull(x) /\ Len(x.reg) =< Len(Types)
    <2>1. CASE s.reg = << >>
        <3> DEFINE v == Registered(s, "null")
        <3>1. x = Activate(v, 1, TRUE)
            BY <2>1 DEF Selected
        <3>2. ~IsNull(s)
            BY <2>1 DEF IsNull
        <3>3. /\ SpindleShape(v) /\ SameCourse(v, s) /\ v.reg = Append(s.reg, [type |-> "null", ok |-> FALSE])
              /\ v.id = s.id /\ v.gc = s.gc /\ v.pct = s.pct /\ v.hw = s.hw
            BY <1>2, <1>3, <3>2, RegisteredIs DEF Kinds
        <3>4. 1 \in DOMAIN v.reg /\ 1 # v.id /\ Obeys(v)
            <4>1. Len(v.reg) = 1
                <5> HIDE DEF v
                <5>1. v.reg = << [type |-> "null", ok |-> FALSE] >>
                    BY <2>1, <3>3
                <5> QED BY <5>1
            <4> HIDE DEF v
            <4> QED BY <1>2, <3>3, <4>1 DEF SpindleShape, Obeys, None
        <3> HIDE DEF v, x
        <3>5. /\ SpindleShape(x) /\ SameCourse(x, v) /\ \A i \in Ids : ~x.hw[i].on
              /\ x.id = 1 /\ (x.id # v.id => x.pct # 0) /\ (v.id = None => x.gc = v.gc)
            BY <3>1, <3>3, <3>4, ActivateIs
        <3>6. SameCourse(x, s)
            BY <3>3, <3>5 DEF SameCourse
        <3> QED BY <1>2, <3>3, <3>4, <3>5, <3>6 DEF None
    <2>2. CASE s.reg # << >>
        <3>1. first \in DOMAIN s.reg /\ first # s.id
            BY <1>2, <1>3, <2>2 DEF None, SpindleShape
        <3> HIDE DEF first
        <3>2. x = Activate(s, first, ok)
            BY <2>2, <3>1 DEF Selected
        <3> HIDE DEF x
        <3>3. /\ SpindleShape(x) /\ SameCourse(x, s) /\ Len(x.reg) = Len(s.reg)
              /\ \A i \in DOMAIN s.reg : x.reg[i].type = s.reg[i].type
              /\ \A i \in Ids : ~x.hw[i].on
              /\ (x.id # s.id => x.pct # 0) /\ (s.id = None => x.gc = s.gc)
            BY <1>2, <3>1, <3>2, ActivateIs
        <3>4. Len(x.reg) = 1 => x.reg[1].type # "null"
            BY <1>2, <1>3, <3>3 DEF Chosen
        <3> QED BY <1>2, <1>3, <3>3, <3>4 DEF IsNull
    <2> QED BY <2>1, <2>2
<1> HIDE DEF x, first
<1>5. /\ SpindleShape(y) /\ SameCourse(y, s) /\ y.gc = s.gc /\ \A i \in Ids : ~y.hw[i].on
      /\ y.id # None /\ y.pct # 0
    <2>1. CASE x.id # None
        <3>1. y = x
            BY <2>1
        <3> HIDE DEF y
        <3> QED BY <1>4, <2>1, <3>1
    <2>2. CASE x.id = None
        <3>1. y = Activate(z, Len(z.reg), TRUE)
            BY <2>2
        <3> HIDE DEF y
        <3>2. /\ SpindleShape(z) /\ SameCourse(z, x) /\ z.reg = Append(x.reg, [type |-> "null", ok |-> FALSE])
              /\ z.id = x.id /\ z.gc = x.gc /\ z.pct = x.pct /\ z.hw = x.hw
            BY <1>4, <2>2, RegisteredIs DEF Kinds
        <3> HIDE DEF z
        <3>3. Len(z.reg) \in DOMAIN z.reg /\ Len(z.reg) # None
            <4> DEFINE S == [type : Kinds, ok : BOOLEAN]
                       e == [type |-> "null", ok |-> FALSE]
            <4>1. x.reg \in Seq(S) /\ e \in S
                BY <1>4 DEF SpindleShape, Kinds
            <4> HIDE DEF S, e
            <4>2. z.reg = Append(x.reg, e)
                BY <3>2 DEF e
            <4> QED BY <4>1, <4>2 DEF None
        <3>4. Obeys(z) /\ Len(z.reg) # z.id
            BY <1>4, <2>2, <3>2, <3>3 DEF Obeys
        <3>5. /\ SpindleShape(y) /\ SameCourse(y, z) /\ \A i \in Ids : ~y.hw[i].on
              /\ y.id = Len(z.reg) /\ (y.id # z.id => y.pct # 0) /\ (z.id = None => y.gc = z.gc)
            BY <3>1, <3>2, <3>3, <3>4, ActivateIs
        <3>6. SameCourse(y, s)
            BY <1>4, <3>2, <3>5 DEF SameCourse
        <3> QED BY <1>4, <2>2, <3>2, <3>3, <3>4, <3>5, <3>6
    <2> QED BY <2>1, <2>2
<1>6. s' = [AllOff(y) EXCEPT !.started = TRUE]
    BY <1>1 DEF x, first
<1> HIDE DEF y
<1>7. Quiet(y) /\ ~y.disabled
    BY <1>2, <1>5 DEF Quiet, SameCourse
<1> QED BY <1>5, <1>6, <1>7, BootIs

-----------------------------------------------------------------------------
(* Programs *)

\* A change of the spindle's state leaves what was planned alone.
SamePlan(y, x) ==
    /\ y.started = x.started /\ y.reg = x.reg /\ y.pwm = x.pwm /\ y.id = x.id /\ y.pct = x.pct
    /\ y.gc = x.gc /\ y.disable = x.disable /\ y.disabled = x.disabled /\ y.state = x.state
    /\ y.wait = x.wait /\ y.target = x.target /\ y.update = x.update /\ y.queue = x.queue
    /\ y.looked = x.looked

LEMMA SelectedId ==
    ASSUME NEW x, SpindleShape(x), Chosen(x), x.started
    PROVE  x.id \in DOMAIN x.reg /\ x.id \in Ids /\ x.pct \in Pcts
BY DEF SpindleShape, Chosen, Ids, None

LEMMA SetStateIs ==
    ASSUME SpindleAssumptions, NEW x, SpindleShape(x), Chosen(x), Obeys(x), x.started,
           NEW on \in BOOLEAN, NEW rpm \in Rates
    PROVE  LET y == SetState(x, on, rpm)
           IN /\ SpindleShape(y) /\ SamePlan(y, x) /\ y.on = on /\ y.rpm = (IF on THEN rpm ELSE 0)
              /\ \A i \in Ids : y.hw[i].on = (i = x.id /\ on /\ x.reg[i].type # "null")
              /\ y.hw[x.id].on => y.hw[x.id].rpm = Overridden(rpm, x.pct)
<1> DEFINE over == IF on THEN Overridden(rpm, x.pct) ELSE x.over
           v == IF on THEN [x EXCEPT !.over = Overridden(rpm, x.pct)] ELSE x
           e == IF x.reg[x.id].type = "null" THEN x.hw[x.id]
                ELSE IF on THEN [on |-> TRUE, rpm |-> over] ELSE Off
           hw == [x.hw EXCEPT ![x.id] = e]
           r == IF on THEN rpm ELSE 0
           y == [v EXCEPT !.hw = hw, !.rpm = r, !.on = on, !.current = r]
<1>1. x.id \in DOMAIN x.reg /\ x.id \in Ids /\ x.pct \in Pcts
    BY SelectedId
<1>2. SamePlan(v, x) /\ v.over = over /\ v.hw = x.hw /\ DOMAIN v = SpindleFields
    <2>1. CASE on
        <3>1. over = Overridden(rpm, x.pct) /\ v = [x EXCEPT !.over = Overridden(rpm, x.pct)]
            BY <2>1
        <3> HIDE DEF over, v
        <3> QED BY <3>1 DEF SpindleShape, SpindleFields, SamePlan
    <2>2. CASE ~on
        <3>1. over = x.over /\ v = x
            BY <2>2
        <3> HIDE DEF over, v
        <3> QED BY <3>1 DEF SpindleShape, SamePlan
    <2> QED BY <2>1, <2>2
<1>3. SetState(x, on, rpm) = [v EXCEPT !.hw = hw, !.rpm = r, !.on = on, !.current = r]
    <2> DEFINE w == [v EXCEPT !.hw[x.id] = IF x.reg[x.id].type = "null" THEN @
                                           ELSE IF on THEN [on |-> TRUE, rpm |-> v.over] ELSE Off,
                              !.rpm = r, !.on = on, !.current = r]
    <2>1. SetState(x, on, rpm) = w
        BY DEF SetState
    <2>2. v.hw = x.hw /\ v.over = over /\ DOMAIN v = SpindleFields
        BY <1>2
    <2> HIDE DEF v
    <2>3. w = [v EXCEPT !.hw = hw, !.rpm = r, !.on = on, !.current = r]
        BY <2>2 DEF SpindleFields
    <2> QED BY <2>1, <2>3
<1>4. over \in Int /\ r \in Rates /\ r \in Int
    BY <1>1, OverriddenIs DEF SpindleShape, Rates, SpindleAssumptions
<1>5. e \in [on : BOOLEAN, rpm : Int]
    <2>1. Off \in [on : BOOLEAN, rpm : Int]
        BY DEF Off
    <2> QED BY <1>1, <1>4, <2>1 DEF SpindleShape
<1>6. e.on = (on /\ x.reg[x.id].type # "null")
    <2>1. x.reg[x.id].type = "null" => x.hw[x.id].on = FALSE
        BY <1>1 DEF Obeys, SpindleShape
    <2>2. CASE x.reg[x.id].type = "null"
        BY <2>1, <2>2
    <2>3. CASE x.reg[x.id].type # "null" /\ on
        BY <2>3
    <2>4. CASE x.reg[x.id].type # "null" /\ ~on
        BY <2>4 DEF Off
    <2> QED BY <2>2, <2>3, <2>4
<1>7. e.on => e.rpm = Overridden(rpm, x.pct)
    <2> SUFFICES ASSUME e.on PROVE e.rpm = Overridden(rpm, x.pct)
        OBVIOUS
    <2>1. on /\ x.reg[x.id].type # "null"
        BY <1>6
    <2> QED BY <2>1
<1> HIDE DEF e, over, v, r
<1>9. /\ hw \in [Ids -> [on : BOOLEAN, rpm : Int]] /\ hw[x.id] = e
      /\ \A i \in Ids : i # x.id => hw[i] = x.hw[i]
    BY <1>1, <1>5 DEF SpindleShape
<1> HIDE DEF hw
<1>10. /\ SamePlan(y, x) /\ y.over = over /\ y.hw = hw /\ y.rpm = r /\ y.on = on /\ y.current = r
       /\ DOMAIN y = SpindleFields
    BY <1>2 DEF SpindleFields, SamePlan
<1> HIDE DEF y
<1>11. SpindleShape(y)
    BY <1>4, <1>9, <1>10 DEF SpindleShape, SamePlan
<1>12. \A i \in Ids : y.hw[i].on = (i = x.id /\ on /\ x.reg[i].type # "null")
    <2> SUFFICES ASSUME NEW i \in Ids
                 PROVE  y.hw[i].on = (i = x.id /\ on /\ x.reg[i].type # "null")
        OBVIOUS
    <2>1. CASE i = x.id
        BY <1>6, <1>9, <1>10, <2>1
    <2>2. CASE i # x.id
        <3>1. x.hw[i].on = FALSE
            BY <2>2 DEF Obeys, SpindleShape
        <3> QED BY <1>9, <1>10, <2>2, <3>1
    <2> QED BY <2>1, <2>2
<1>13. r = (IF on THEN rpm ELSE 0)
    BY DEF r
<1>14. SetState(x, on, rpm) = y
    BY <1>3 DEF y
<1> QED BY <1>7, <1>9, <1>10, <1>11, <1>12, <1>13, <1>14

LEMMA ProgramKept ==
    ASSUME SpindleAssumptions, Windows = {}, SpindleSafe(s), Program
    PROVE  SpindleSafe(s')
<1>1. PICK on \in BOOLEAN, rpm \in Speeds :
        s' = [SetState(s, on, rpm) EXCEPT
                !.wait = IF s.reg[s.id].type = "pwm" THEN Timeout ELSE 1,
                !.target = IF on THEN [on |-> TRUE, rpm |-> rpm] ELSE Off]
    BY DEF Program
<1> DEFINE y == SetState(s, on, rpm)
           wait == IF s.reg[s.id].type = "pwm" THEN Timeout ELSE 1
           target == IF on THEN [on |-> TRUE, rpm |-> rpm] ELSE Off
<1>2. /\ SpindleShape(s) /\ Chosen(s) /\ Obeys(s) /\ Rests(s)
      /\ s.started /\ s.state = "idle" /\ s.wait = None /\ ~s.disabled /\ s.queue = << >> /\ ~s.update
    BY DEF Program, Ready, MayStop, SpindleSafe, Rests
<1>3. rpm \in Rates /\ s.id \in Ids /\ s.pct \in Pcts
    BY <1>2, SelectedId DEF Rates
<1>4. /\ SpindleShape(y) /\ SamePlan(y, s) /\ y.on = on /\ y.rpm = (IF on THEN rpm ELSE 0)
      /\ \A i \in Ids : y.hw[i].on = (i = s.id /\ on /\ s.reg[i].type # "null")
      /\ y.hw[s.id].on => y.hw[s.id].rpm = Overridden(rpm, s.pct)
    BY <1>2, <1>3, SetStateIs
<1> HIDE DEF y
<1>5. wait \in Nat \ {0}
    BY DEF SpindleAssumptions
<1>6. target \in [on : BOOLEAN, rpm : Rates] /\ target.on = on /\ (on => target.rpm = rpm)
    <2>1. CASE on
        BY <1>3, <2>1
    <2>2. CASE ~on
        BY <2>2 DEF Off, Rates
    <2> QED BY <2>1, <2>2
<1>7. s' = [y EXCEPT !.wait = wait, !.target = target]
    BY <1>1 DEF y
<1> HIDE DEF wait, target
<1>8. /\ DOMAIN s' = SpindleFields /\ s'.wait = wait /\ s'.target = target
      /\ s'.started = s.started /\ s'.reg = s.reg /\ s'.pwm = s.pwm /\ s'.id = s.id /\ s'.pct = s.pct
      /\ s'.gc = s.gc /\ s'.disable = s.disable /\ s'.disabled = s.disabled /\ s'.state = s.state
      /\ s'.update = s.update /\ s'.queue = s.queue /\ s'.looked = s.looked
      /\ s'.hw = y.hw /\ s'.rpm = y.rpm /\ s'.over = y.over /\ s'.on = y.on /\ s'.current = y.current
    BY <1>4, <1>7 DEF SpindleShape, SpindleFields, SamePlan
<1>9. SpindleShape(s')
    BY <1>2, <1>4, <1>5, <1>6, <1>8 DEF SpindleShape
<1>10. Chosen(s') /\ Rests(s')
    BY <1>2, <1>8 DEF Chosen, Rests
<1>11. Obeys(s')
    BY <1>2, <1>4, <1>8 DEF Obeys
<1>12. Agrees(s')
    <2>1. s'.wait # None
        BY <1>5, <1>8 DEF None
    <2>2. s.reg[s.id].type # "null" => s'.target.on = s'.hw[s'.id].on
        BY <1>3, <1>4, <1>6, <1>8
    <2>3. s'.target.on => s'.target.rpm = s'.rpm
        BY <1>4, <1>6, <1>8
    <2> QED BY <1>8, <2>1, <2>2, <2>3 DEF Agrees
<1>13. Paced(s')
    <2> SUFFICES ASSUME s'.hw[s'.id].on
                 PROVE  /\ s'.hw[s'.id].rpm = 0 <=> s'.rpm = 0
                        /\ Overridden(s'.rpm, s'.pct) = s'.hw[s'.id].rpm
        BY <1>2, <1>8 DEF Paced, Final
    <2>1. on /\ s'.rpm = rpm /\ s'.hw[s'.id].rpm = Overridden(rpm, s.pct)
        BY <1>3, <1>4, <1>8
    <2> QED BY <1>3, <1>8, <2>1, OverriddenIs
<1> QED BY <1>9, <1>10, <1>11, <1>12, <1>13 DEF SpindleSafe

LEMMA AtSpeedKept ==
    ASSUME SpindleSafe(s), AtSpeed
    PROVE  SpindleSafe(s')
<1>1. /\ SpindleShape(s) /\ Chosen(s) /\ Obeys(s) /\ Agrees(s) /\ Rests(s) /\ Paced(s)
      /\ s.wait # None /\ s.started /\ s.state = "idle" /\ ~s.disabled
    BY DEF AtSpeed, SpindleSafe, Rests, Chosen
<1>2. s.id \in Ids
    BY <1>1, SelectedId
<1>3. /\ DOMAIN s' = SpindleFields /\ s'.wait = None /\ s'.gc = s.target /\ s'.on = s.target.on
      /\ s'.disable = FALSE
      /\ s'.target = s.target /\ s'.started = s.started /\ s'.reg = s.reg /\ s'.pwm = s.pwm /\ s'.id = s.id
      /\ s'.pct = s.pct /\ s'.disabled = s.disabled /\ s'.state = s.state
      /\ s'.update = s.update /\ s'.queue = s.queue /\ s'.looked = s.looked
      /\ s'.hw = s.hw /\ s'.rpm = s.rpm /\ s'.over = s.over /\ s'.current = s.current
    BY <1>1 DEF AtSpeed, SpindleShape, SpindleFields
<1>4. SpindleShape(s')
    <2>1. s.target.on \in BOOLEAN /\ None \in Nat
        BY <1>1 DEF SpindleShape, None
    <2> QED BY <1>1, <1>3, <2>1 DEF SpindleShape
<1>5. Chosen(s') /\ Rests(s')
    BY <1>1, <1>3 DEF Chosen, Rests
<1>6. Obeys(s')
    <2> SUFFICES ASSUME NEW i \in Ids, s.hw[i].on
                 PROVE  s.id = i /\ s.target.on /\ s.reg[i].type # "null"
        BY <1>1, <1>3 DEF Obeys
    <2>1. s.id = i /\ s.reg[i].type # "null"
        BY <1>1 DEF Obeys
    <2>2. s.target.on = s.hw[s.id].on
        BY <1>1, <2>1 DEF Agrees
    <2> QED BY <2>1, <2>2
<1>7. Agrees(s')
    BY <1>1, <1>3 DEF Agrees
<1>8. Paced(s')
    BY <1>1, <1>3 DEF Paced, Final
<1> QED BY <1>4, <1>5, <1>6, <1>7, <1>8 DEF SpindleSafe

LEMMA NotAtSpeedKept ==
    ASSUME SpindleSafe(s), NotAtSpeed
    PROVE  SpindleSafe(s')
<1>1. /\ SpindleShape(s) /\ Chosen(s) /\ Obeys(s) /\ Agrees(s) /\ Rests(s) /\ Paced(s)
      /\ s.wait # None /\ s.started /\ s.state = "idle" /\ ~s.disabled /\ s.queue = << >> /\ ~s.update
    BY DEF NotAtSpeed, SpindleSafe, Rests, Chosen
<1>2. CASE s.wait > 1
    <2>1. s' = [s EXCEPT !.wait = s.wait - 1]
        BY <1>1, <1>2 DEF NotAtSpeed, SpindleShape, SpindleFields
    <2>2. /\ DOMAIN s' = SpindleFields /\ s'.wait = s.wait - 1 /\ s'.gc = s.gc /\ s'.on = s.on
          /\ s'.disable = s.disable
          /\ s'.target = s.target /\ s'.started = s.started /\ s'.reg = s.reg /\ s'.pwm = s.pwm
          /\ s'.id = s.id /\ s'.pct = s.pct /\ s'.disabled = s.disabled /\ s'.state = s.state
          /\ s'.update = s.update /\ s'.queue = s.queue /\ s'.looked = s.looked
          /\ s'.hw = s.hw /\ s'.rpm = s.rpm /\ s'.over = s.over /\ s'.current = s.current
        BY <1>1, <2>1 DEF SpindleShape, SpindleFields
    <2>3. s'.wait \in Nat /\ s'.wait # None
        BY <1>1, <1>2, <2>2 DEF SpindleShape, None
    <2>4. SpindleShape(s')
        BY <1>1, <2>2, <2>3 DEF SpindleShape
    <2>5. Chosen(s') /\ Rests(s') /\ Obeys(s')
        BY <1>1, <2>2, <2>3 DEF Chosen, Rests, Obeys
    <2>6. Agrees(s')
        BY <1>1, <2>2, <2>3 DEF Agrees
    <2>7. Paced(s')
        BY <1>1, <2>2 DEF Paced, Final
    <2> QED BY <2>4, <2>5, <2>6, <2>7 DEF SpindleSafe
<1>3. CASE ~(s.wait > 1)
    <2> DEFINE z == GcSpindleOff(s)
    <2>1. s' = [z EXCEPT !.wait = None]
        BY <1>3 DEF NotAtSpeed
    <2>2. /\ SpindleShape(z) /\ SameCourse(z, s) /\ z.gc = Off /\ z.reg = s.reg
          /\ z.id = s.id /\ z.pct = s.pct /\ z.pwm = s.pwm
          /\ \A i \in Ids : z.hw[i].on <=> (s.hw[i].on /\ i # s.id)
        BY <1>1, GcSpindleOffIs
    <2> HIDE DEF z
    <2>3. /\ DOMAIN s' = SpindleFields /\ s'.wait = None /\ s'.gc = z.gc /\ s'.on = z.on
          /\ s'.disable = z.disable
          /\ s'.target = z.target /\ s'.started = z.started /\ s'.reg = z.reg /\ s'.pwm = z.pwm
          /\ s'.id = z.id /\ s'.pct = z.pct /\ s'.disabled = z.disabled /\ s'.state = z.state
          /\ s'.update = z.update /\ s'.queue = z.queue /\ s'.looked = z.looked
          /\ s'.hw = z.hw /\ s'.rpm = z.rpm /\ s'.over = z.over /\ s'.current = z.current
        BY <2>1, <2>2 DEF SpindleShape, SpindleFields
    <2>4. SpindleShape(s')
        <3>1. None \in Nat
            BY DEF None
        <3> QED BY <2>2, <2>3, <3>1 DEF SpindleShape
    <2>5. Chosen(s') /\ ~s'.disabled
        BY <1>1, <2>2, <2>3 DEF Chosen, SameCourse
    <2>6. Quiet(s')
        BY <1>1, <2>2, <2>3 DEF Quiet, SameCourse, Obeys, Off
    <2> QED BY <2>4, <2>5, <2>6, QuietIsSafe
<1> QED BY <1>2, <1>3

LEMMA SpeedWordKept ==
    ASSUME SpindleAssumptions, SpindleSafe(s), Speed
    PROVE  SpindleSafe(s')
<1>1. PICK rpm \in Speeds, on \in BOOLEAN : on /\ s' = [SetState(s, on, rpm) EXCEPT !.gc.rpm = rpm]
    BY DEF Speed
<1> DEFINE y == SetState(s, on, rpm)
           gc == [y.gc EXCEPT !.rpm = rpm]
<1>2. /\ SpindleShape(s) /\ Chosen(s) /\ Obeys(s) /\ Agrees(s) /\ Rests(s)
      /\ s.started /\ s.state = "idle" /\ s.wait = None /\ s.queue = << >> /\ ~s.update /\ s.gc.on
    BY DEF Speed, Ready, SpindleSafe, Rests
<1>3. rpm \in Rates /\ s.id \in Ids /\ s.pct \in Pcts
    BY <1>2, SelectedId DEF Rates
<1>4. /\ SpindleShape(y) /\ SamePlan(y, s) /\ y.on = TRUE /\ y.rpm = rpm
      /\ \A i \in Ids : y.hw[i].on = (i = s.id /\ on /\ s.reg[i].type # "null")
      /\ y.hw[s.id].on => y.hw[s.id].rpm = Overridden(rpm, s.pct)
    <2>1. /\ SpindleShape(y) /\ SamePlan(y, s) /\ y.on = on /\ y.rpm = (IF on THEN rpm ELSE 0)
          /\ \A i \in Ids : y.hw[i].on = (i = s.id /\ on /\ s.reg[i].type # "null")
          /\ y.hw[s.id].on => y.hw[s.id].rpm = Overridden(rpm, s.pct)
        BY <1>2, <1>3, SetStateIs
    <2> HIDE DEF y
    <2>2. y.on = TRUE /\ y.rpm = rpm
        BY <1>1, <2>1
    <2> QED BY <2>1, <2>2
<1> HIDE DEF y
<1>5. gc \in [on : BOOLEAN, rpm : Rates] /\ gc.on = TRUE /\ gc.rpm = rpm
    BY <1>2, <1>3, <1>4 DEF SpindleShape, SamePlan
<1>6. s' = [y EXCEPT !.gc = gc]
    BY <1>1, <1>4 DEF y, SpindleShape, SpindleFields
<1> HIDE DEF gc
<1>7. /\ DOMAIN s' = SpindleFields /\ s'.wait = s.wait /\ s'.target = s.target
      /\ s'.started = s.started /\ s'.reg = s.reg /\ s'.pwm = s.pwm /\ s'.id = s.id /\ s'.pct = s.pct
      /\ s'.gc = gc /\ s'.disable = s.disable /\ s'.disabled = s.disabled /\ s'.state = s.state
      /\ s'.update = s.update /\ s'.queue = s.queue /\ s'.looked = s.looked
      /\ s'.hw = y.hw /\ s'.rpm = y.rpm /\ s'.over = y.over /\ s'.on = y.on /\ s'.current = y.current
    BY <1>4, <1>6 DEF SpindleShape, SpindleFields, SamePlan
<1>8. SpindleShape(s')
    BY <1>2, <1>4, <1>5, <1>7 DEF SpindleShape
<1>9. Chosen(s') /\ Rests(s')
    BY <1>2, <1>7 DEF Chosen, Rests
<1>10. Obeys(s')
    BY <1>2, <1>4, <1>7 DEF Obeys
<1>11. Agrees(s')
    <2>1. s.reg[s.id].type # "null" => s'.gc.on = s'.hw[s'.id].on
        BY <1>1, <1>3, <1>4, <1>5, <1>7
    <2> QED BY <1>2, <1>4, <1>5, <1>7, <2>1 DEF Agrees
<1>12. Paced(s')
    <2> SUFFICES ASSUME s'.hw[s'.id].on
                 PROVE  /\ s'.hw[s'.id].rpm = 0 <=> s'.rpm = 0
                        /\ Overridden(s'.rpm, s'.pct) = s'.hw[s'.id].rpm
        BY <1>2, <1>7 DEF Paced, Final
    <2>1. s'.rpm = rpm /\ s'.hw[s'.id].rpm = Overridden(rpm, s.pct)
        BY <1>3, <1>4, <1>7
    <2> QED BY <1>3, <1>7, <2>1, OverriddenIs
<1> QED BY <1>8, <1>9, <1>10, <1>11, <1>12 DEF SpindleSafe

-----------------------------------------------------------------------------
(* Overrides and motion *)

LEMMA SetOverrideKept ==
    ASSUME SpindleAssumptions, NEW x, SpindleSafe(x), x.started, NEW pct \in Pcts,
           \/ x.state = "idle"
           \/ x.state = "run" /\ (\/ Overridden(x.rpm, pct) # x.current
                                  \/ Overridden(x.rpm, pct) = Final(x))
    PROVE  LET y == SetOverride(x, pct)
           IN SpindleSafe(y) /\ y.wait = x.wait /\ y.started /\ (pct = Default => y.pct = Default)
<1> DEFINE over == Overridden(x.rpm, pct)
           y == [x EXCEPT !.pct = pct, !.over = over]
           e == [x.hw[x.id] EXCEPT !.rpm = IF x.hw[x.id].rpm = 0 THEN 0 ELSE over]
           hw == [x.hw EXCEPT ![x.id] = e]
           idle == [y EXCEPT !.hw = hw]
           run == [y EXCEPT !.update = TRUE, !.looked = FALSE]
<1>1. SpindleShape(x) /\ Chosen(x) /\ Obeys(x) /\ Agrees(x) /\ Rests(x) /\ Paced(x)
    BY DEF SpindleSafe
<1>2. x.id \in Ids /\ x.rpm \in Rates /\ x.pct \in Pcts
    BY <1>1, SelectedId DEF SpindleShape
<1>3. over \in Int /\ (over = 0 <=> x.rpm = 0)
    BY <1>2, OverriddenIs
<1>4. CASE pct = x.pct \/ (pct # Default /\ x.disable)
    <2>1. SetOverride(x, pct) = x
        BY <1>4 DEF SetOverride
    <2>2. pct = Default => x.pct = Default
        BY <1>4
    <2> QED BY <2>1, <2>2
<1>5. CASE ~(pct = x.pct \/ (pct # Default /\ x.disable))
    <2>1. x.disabled => pct = Default
        BY <1>1, <1>5 DEF Rests
    <2>2. pct # 0
        BY DEF SpindleAssumptions, Pcts, Default
    <2>3. CASE x.state = "idle"
        <3>1. /\ e \in [on : BOOLEAN, rpm : Int] /\ e.on = x.hw[x.id].on
              /\ e.rpm = IF x.hw[x.id].rpm = 0 THEN 0 ELSE over
            BY <1>1, <1>2, <1>3 DEF SpindleShape
        <3>2. SetOverride(x, pct) = idle
            <4>1. y.state = "idle" /\ y.hw = x.hw /\ y.over = over /\ DOMAIN y = SpindleFields
                BY <1>1, <2>3 DEF SpindleShape, SpindleFields
            <4>2. SetOverride(x, pct) =
                    [y EXCEPT !.hw[x.id].rpm = IF @ = 0 THEN 0 ELSE y.over]
                BY <1>5, <2>3 DEF SetOverride
            <4> HIDE DEF y
            <4>3. [y EXCEPT !.hw[x.id].rpm = IF @ = 0 THEN 0 ELSE y.over] = idle
                BY <4>1 DEF SpindleFields
            <4> QED BY <4>2, <4>3
        <3> HIDE DEF e
        <3>3. /\ hw \in [Ids -> [on : BOOLEAN, rpm : Int]] /\ hw[x.id] = e
              /\ \A i \in Ids : i # x.id => hw[i] = x.hw[i]
            BY <1>1, <1>2, <3>1 DEF SpindleShape
        <3> HIDE DEF hw, over
        <3>4. /\ SameCourse(idle, x) /\ idle.gc = x.gc /\ idle.reg = x.reg /\ idle.id = x.id /\ idle.pct = pct
              /\ idle.pwm = x.pwm /\ idle.hw = hw /\ idle.rpm = x.rpm /\ idle.over = over
              /\ idle.on = x.on /\ idle.disable = x.disable /\ DOMAIN idle = SpindleFields
            BY <1>1 DEF SpindleShape, SpindleFields, SameCourse
        <3> HIDE DEF idle
        <3>5. SpindleShape(idle)
            BY <1>1, <1>3, <3>3, <3>4 DEF SpindleShape, SameCourse
        <3>6. Chosen(idle) /\ Rests(idle)
            BY <1>1, <2>1, <2>2, <3>4 DEF Chosen, Rests, SameCourse
        <3>7. \A i \in Ids : idle.hw[i].on = x.hw[i].on
            BY <3>1, <3>3, <3>4
        <3>8. Obeys(idle) /\ Agrees(idle)
            BY <1>1, <1>2, <3>4, <3>7 DEF Obeys, Agrees, SameCourse
        <3>9. Paced(idle)
            <4>1. idle.queue = << >> /\ ~idle.update
                BY <1>1, <2>3, <3>4 DEF Rests, SameCourse
            <4> SUFFICES ASSUME idle.hw[idle.id].on
                         PROVE  /\ idle.hw[idle.id].rpm = 0 <=> idle.rpm = 0
                                /\ Overridden(idle.rpm, idle.pct) = idle.hw[idle.id].rpm
                BY <4>1 DEF Paced, Final
            <4>2. x.hw[x.id].rpm = 0 <=> x.rpm = 0
                BY <1>1, <1>2, <3>4, <3>7 DEF Paced
            <4>3. idle.hw[idle.id].rpm = IF x.hw[x.id].rpm = 0 THEN 0 ELSE over
                BY <3>1, <3>3, <3>4
            <4> QED BY <1>3, <3>4, <4>2, <4>3 DEF over
        <3>10. SpindleSafe(idle)
            BY <3>5, <3>6, <3>8, <3>9 DEF SpindleSafe
        <3> QED BY <3>2, <3>4, <3>10 DEF SameCourse
    <2>4. CASE x.state = "run"
        <3>1. SetOverride(x, pct) = run
            <4>1. ~Held(x)
                BY <2>4 DEF Held
            <4>2. SetOverride(x, pct) = [y EXCEPT !.update = ~Held(x), !.looked = FALSE]
                BY <1>5, <2>4 DEF SetOverride
            <4>3. (~Held(x)) = TRUE
                BY <4>1
            <4> HIDE DEF y
            <4> QED BY <4>2, <4>3, Zenon
        <3> HIDE DEF over
        <3>2. /\ run.gc = x.gc /\ run.reg = x.reg /\ run.id = x.id /\ run.pct = pct
              /\ run.pwm = x.pwm /\ run.hw = x.hw /\ run.rpm = x.rpm /\ run.over = over
              /\ run.on = x.on /\ run.disable = x.disable /\ DOMAIN run = SpindleFields
              /\ run.started = x.started /\ run.disabled = x.disabled /\ run.state = x.state
              /\ run.wait = x.wait /\ run.target = x.target /\ run.current = x.current
              /\ run.queue = x.queue /\ run.update = TRUE /\ run.looked = FALSE
            BY <1>1 DEF SpindleShape, SpindleFields
        <3> HIDE DEF run
        <3>3. SpindleShape(run)
            BY <1>1, <1>3, <3>2 DEF SpindleShape
        <3>4. Chosen(run) /\ Rests(run) /\ Obeys(run)
            BY <1>1, <2>1, <2>2, <2>4, <3>2 DEF Chosen, Rests, Obeys
        <3>5. Agrees(run)
            BY <1>1, <3>2 DEF Agrees
        <3>6. Paced(run)
            <4>1. Final(run) = Final(x)
                BY <3>2 DEF Final
            <4>2. over # x.current \/ over = Final(x)
                BY <2>4 DEF over
            <4> QED BY <1>1, <3>2, <4>1, <4>2 DEF Paced, over
        <3> QED BY <3>1, <3>2, <3>3, <3>4, <3>5, <3>6 DEF SpindleSafe
    <2> QED BY <2>3, <2>4
<1> QED BY <1>4, <1>5

LEMMA OverrideKept ==
    ASSUME SpindleAssumptions, Windows = {}, SpindleSafe(s), Override
    PROVE  SpindleSafe(s')
<1>1. PICK pct \in Percents :
        /\ s.state # "hold"
        /\ \/ s.state = "idle"
           \/ Overridden(s.rpm, pct) # s.current \/ Overridden(s.rpm, pct) = Final(s)
        /\ s' = SetOverride(s, pct)
    BY DEF Override
<1>2. s.state \in {"idle", "run"} /\ pct \in Pcts /\ s.started
    BY <1>1 DEF Override, SpindleSafe, SpindleShape, Pcts
<1>3. \/ s.state = "idle"
      \/ s.state = "run" /\ (\/ Overridden(s.rpm, pct) # s.current
                             \/ Overridden(s.rpm, pct) = Final(s))
    BY <1>1, <1>2
<1>4. SpindleSafe(SetOverride(s, pct))
    BY <1>2, <1>3, SetOverrideKept
<1> QED BY <1>1, <1>4

LEMMA OverrideControlKept ==
    ASSUME SpindleAssumptions, SpindleSafe(s), OverrideControl
    PROVE  SpindleSafe(s')
<1>1. PICK disable \in BOOLEAN :
        s' = [(IF disable THEN SetOverride(s, Default) ELSE s) EXCEPT !.disable = disable, !.disabled = disable]
    BY DEF OverrideControl
<1> DEFINE y == IF disable THEN SetOverride(s, Default) ELSE s
<1>2. SpindleSafe(y) /\ y.wait = None /\ y.started /\ (disable => y.pct = Default)
    <2>1. s.started /\ s.state = "idle" /\ s.wait = None /\ Default \in Pcts
        BY DEF OverrideControl, Ready, Pcts
    <2>2. CASE disable
        <3>1. y = SetOverride(s, Default)
            BY <2>2
        <3> HIDE DEF y
        <3> QED BY <2>1, <3>1, SetOverrideKept
    <2>3. CASE ~disable
        BY <2>1, <2>3
    <2> QED BY <2>2, <2>3
<1> HIDE DEF y
<1>3. s' = [y EXCEPT !.disable = disable, !.disabled = disable]
    BY <1>1 DEF y
<1>4. SpindleShape(y) /\ Chosen(y) /\ Obeys(y) /\ Agrees(y) /\ Rests(y) /\ Paced(y)
    BY <1>2 DEF SpindleSafe
<1>5. /\ DOMAIN s' = SpindleFields /\ s'.disable = disable /\ s'.disabled = disable
      /\ s'.wait = y.wait /\ s'.gc = y.gc /\ s'.on = y.on
      /\ s'.target = y.target /\ s'.started = y.started /\ s'.reg = y.reg /\ s'.pwm = y.pwm
      /\ s'.id = y.id /\ s'.pct = y.pct /\ s'.state = y.state
      /\ s'.update = y.update /\ s'.queue = y.queue /\ s'.looked = y.looked
      /\ s'.hw = y.hw /\ s'.rpm = y.rpm /\ s'.over = y.over /\ s'.current = y.current
    BY <1>3, <1>4 DEF SpindleShape, SpindleFields
<1>6. SpindleShape(s')
    BY <1>4, <1>5 DEF SpindleShape
<1>8. Chosen(s') /\ Rests(s') /\ Obeys(s')
    BY <1>2, <1>4, <1>5 DEF Chosen, Rests, Obeys
<1>7. Agrees(s') /\ Paced(s')
    BY <1>4, <1>5 DEF Agrees, Paced, Final
<1> QED BY <1>6, <1>7, <1>8 DEF SpindleSafe

\* What a machine that moves plans and executes leaves alone.
SameCall(y, x) ==
    /\ y.started = x.started /\ y.reg = x.reg /\ y.pwm = x.pwm /\ y.id = x.id /\ y.pct = x.pct
    /\ y.gc = x.gc /\ y.on = x.on /\ y.disable = x.disable /\ y.disabled = x.disabled
    /\ y.wait = x.wait /\ y.target = x.target

\* A segment more, and one less.
LEMMA Appended ==
    ASSUME NEW q \in Seq(Int), NEW r \in Int
    PROVE  /\ Append(q, r) \in Seq(Int) /\ Len(Append(q, r)) = Len(q) + 1 /\ Len(q) \in Nat
           /\ DOMAIN Append(q, r) = 1 .. Len(q) + 1 /\ DOMAIN q = 1 .. Len(q)
           /\ Append(q, r)[Len(q) + 1] = r /\ \A i \in DOMAIN q : Append(q, r)[i] = q[i]
           /\ Append(q, r) # << >>
<1>1. Append(q, r) \in Seq(Int) /\ Len(Append(q, r)) = Len(q) + 1 /\ Len(q) \in Nat
    OBVIOUS
<1>2. DOMAIN Append(q, r) = 1 .. Len(q) + 1 /\ DOMAIN q = 1 .. Len(q)
    BY <1>1
<1>3. Append(q, r)[Len(q) + 1] = r /\ \A i \in DOMAIN q : Append(q, r)[i] = q[i]
    OBVIOUS
<1>4. Append(q, r) # << >>
    BY <1>1
<1> QED BY <1>1, <1>2, <1>3, <1>4

LEMMA Dropped ==
    ASSUME NEW q \in Seq(Int), q # << >>
    PROVE  /\ Tail(q) \in Seq(Int) /\ Len(Tail(q)) = Len(q) - 1 /\ Len(q) \in Nat \ {0}
           /\ DOMAIN Tail(q) = 1 .. Len(q) - 1 /\ DOMAIN q = 1 .. Len(q)
           /\ \A i \in DOMAIN Tail(q) : Tail(q)[i] = q[i + 1]
           /\ q[1] \in Int
           /\ Tail(q) = << >> <=> Len(Tail(q)) = 0
<1>1. Len(q) \in Nat \ {0} /\ DOMAIN q = 1 .. Len(q)
    OBVIOUS
<1>2. Tail(q) \in Seq(Int) /\ Len(Tail(q)) = Len(q) - 1
    BY <1>1
<1>3. DOMAIN Tail(q) = 1 .. Len(q) - 1
    BY <1>1, <1>2
<1>4. \A i \in DOMAIN Tail(q) : Tail(q)[i] = q[i + 1]
    BY <1>1, <1>3
<1>5. q[1] \in Int
    BY <1>1
<1>6. Tail(q) = << >> <=> Len(Tail(q)) = 0
    BY <1>2, EmptySeq
<1> QED BY <1>1, <1>2, <1>3, <1>4, <1>5, <1>6

LEMMA PrepKept ==
    ASSUME SpindleAssumptions, SpindleSafe(s), Prep
    PROVE  SpindleSafe(s')
<1>1. /\ SpindleShape(s) /\ Chosen(s) /\ Obeys(s) /\ Agrees(s) /\ Rests(s) /\ Paced(s)
      /\ s.state = "run" /\ s.update /\ s.started /\ s.wait = None
    BY DEF Prep, SpindleSafe, Chosen, Rests
<1>2. s.id \in Ids /\ s.pct \in Pcts /\ s.gc.rpm \in Rates /\ s.gc.on \in BOOLEAN
    BY <1>1, SelectedId DEF SpindleShape
<1> DEFINE r == IF s.gc.on THEN Overridden(s.gc.rpm, s.pct) ELSE 0
           x == IF s.gc.on THEN [s EXCEPT !.over = r] ELSE [s EXCEPT !.rpm = 0]
<1>3. s' = PrepChanged(x, r)
    BY <1>1, <1>2 DEF Prep
<1>4. r \in Int
    BY <1>2, OverriddenIs
<1>5. /\ SpindleShape(x) /\ SameCall(x, s) /\ x.state = s.state /\ x.hw = s.hw /\ x.update = s.update
      /\ x.current = s.current /\ x.queue = s.queue /\ x.looked = s.looked
      /\ x.rpm = IF s.gc.on THEN s.rpm ELSE 0
    <2>1. CASE s.gc.on
        <3>1. x = [s EXCEPT !.over = r]
            BY <2>1
        <3> HIDE DEF x, r
        <3>2. /\ SameCall(x, s) /\ x.state = s.state /\ x.hw = s.hw /\ x.update = s.update
              /\ x.current = s.current /\ x.queue = s.queue /\ x.looked = s.looked
              /\ x.rpm = s.rpm /\ x.over = r /\ DOMAIN x = SpindleFields
            BY <1>1, <3>1 DEF SpindleShape, SpindleFields, SameCall
        <3>3. SpindleShape(x)
            BY <1>1, <1>4, <3>2 DEF SpindleShape, SameCall
        <3> QED BY <2>1, <3>2, <3>3
    <2>2. CASE ~s.gc.on
        <3>1. x = [s EXCEPT !.rpm = 0]
            BY <2>2
        <3> HIDE DEF x, r
        <3>2. /\ SameCall(x, s) /\ x.state = s.state /\ x.hw = s.hw /\ x.update = s.update
              /\ x.current = s.current /\ x.queue = s.queue /\ x.looked = s.looked
              /\ x.rpm = 0 /\ x.over = s.over /\ DOMAIN x = SpindleFields
            BY <1>1, <3>1 DEF SpindleShape, SpindleFields, SameCall
        <3>3. 0 \in Rates
            BY DEF Rates
        <3>4. SpindleShape(x)
            BY <1>1, <3>2, <3>3 DEF SpindleShape, SameCall
        <3> QED BY <2>2, <3>2, <3>4
    <2> QED BY <2>1, <2>2
<1>6. s.hw[s.id].on => s.gc.on /\ s.gc.rpm = s.rpm /\ r = Overridden(s.rpm, s.pct) /\ (r = 0 <=> s.rpm = 0)
    <2> SUFFICES ASSUME s.hw[s.id].on
                 PROVE  s.gc.on /\ s.gc.rpm = s.rpm /\ r = Overridden(s.rpm, s.pct) /\ (r = 0 <=> s.rpm = 0)
        OBVIOUS
    <2>1. s.reg[s.id].type # "null"
        BY <1>1, <1>2 DEF Obeys
    <2>2. s.gc.on = s.hw[s.id].on /\ (s.gc.on => s.gc.rpm = s.rpm)
        BY <1>1, <2>1 DEF Agrees
    <2>3. s.gc.on /\ s.gc.rpm = s.rpm
        BY <2>2
    <2> QED BY <1>2, <2>3, OverriddenIs
<1> HIDE DEF x, r
<1>7. Agrees(x)
    BY <1>1, <1>5 DEF Agrees, SameCall
<1>8. CASE r = x.current
    <2>1. s' = [x EXCEPT !.looked = TRUE]
        BY <1>3, <1>8 DEF PrepChanged
    <2>2. /\ SameCall(s', x) /\ s'.state = x.state /\ s'.hw = x.hw /\ s'.update = x.update
          /\ s'.current = x.current /\ s'.queue = x.queue /\ s'.looked = TRUE
          /\ s'.rpm = x.rpm /\ s'.over = x.over /\ DOMAIN s' = SpindleFields
        BY <1>5, <2>1 DEF SpindleShape, SpindleFields, SameCall
    <2>3. SpindleShape(s')
        BY <1>5, <2>2 DEF SpindleShape, SameCall
    <2>4. Chosen(s') /\ Rests(s') /\ Obeys(s') /\ Agrees(s')
        BY <1>1, <1>5, <1>7, <2>2 DEF Chosen, Rests, Obeys, Agrees, SameCall
    <2>5. Paced(s')
        <3> SUFFICES ASSUME s.hw[s.id].on
                     PROVE  /\ s.hw[s.id].rpm = 0 <=> s'.rpm = 0
                            /\ \A i \in DOMAIN s.queue : s.queue[i] = 0 <=> s'.rpm = 0
                            /\ Overridden(s'.rpm, s'.pct) = Final(s)
            BY <1>5, <2>2 DEF Paced, Final, SameCall
        <3>1. s'.rpm = s.rpm /\ s'.pct = s.pct /\ r = Overridden(s.rpm, s.pct)
            BY <1>5, <1>6, <2>2 DEF SameCall
        <3>2. r = Final(s)
            BY <1>1, <1>5, <1>8, <3>1 DEF Paced
        <3> QED BY <1>1, <3>1, <3>2 DEF Paced
    <2> QED BY <2>3, <2>4, <2>5 DEF SpindleSafe
<1>9. CASE r # x.current
    <2> DEFINE queue == Append(x.queue, r)
    <2>1. s' = [x EXCEPT !.queue = queue, !.current = r, !.update = FALSE, !.looked = TRUE]
        BY <1>3, <1>5, <1>9 DEF PrepChanged, SpindleShape, SpindleFields
    <2>2. /\ queue \in Seq(Int) /\ Len(queue) = Len(x.queue) + 1 /\ Len(x.queue) \in Nat
          /\ DOMAIN queue = 1 .. Len(queue) /\ DOMAIN x.queue = 1 .. Len(x.queue)
          /\ \A i \in DOMAIN queue : queue[i] = IF i = Len(queue) THEN r ELSE x.queue[i]
          /\ queue # << >>
        <3>1. x.queue \in Seq(Int)
            BY <1>5 DEF SpindleShape
        <3> QED BY <1>4, <3>1, Appended
    <2> HIDE DEF queue
    <2>3. /\ SameCall(s', x) /\ s'.state = x.state /\ s'.hw = x.hw /\ s'.update = FALSE
          /\ s'.current = r /\ s'.queue = queue /\ s'.looked = TRUE
          /\ s'.rpm = x.rpm /\ s'.over = x.over /\ DOMAIN s' = SpindleFields
        BY <1>5, <2>1 DEF SpindleShape, SpindleFields, SameCall
    <2>4. SpindleShape(s')
        BY <1>4, <1>5, <2>2, <2>3 DEF SpindleShape, SameCall
    <2>5. Chosen(s') /\ Rests(s') /\ Obeys(s') /\ Agrees(s')
        BY <1>1, <1>5, <1>7, <2>3 DEF Chosen, Rests, Obeys, Agrees, SameCall
    <2>6. Paced(s')
        <3> SUFFICES ASSUME s.hw[s.id].on
                     PROVE  /\ s.hw[s.id].rpm = 0 <=> s'.rpm = 0
                            /\ \A i \in DOMAIN queue : queue[i] = 0 <=> s'.rpm = 0
                            /\ Overridden(s'.rpm, s'.pct) = Final(s')
            BY <1>5, <2>3 DEF Paced, SameCall
        <3>1. s'.rpm = s.rpm /\ s'.pct = s.pct /\ r = Overridden(s.rpm, s.pct) /\ (r = 0 <=> s.rpm = 0)
            BY <1>5, <1>6, <2>3 DEF SameCall
        <3>2. Final(s') = r
            BY <2>2, <2>3 DEF Final
        <3>3. \A i \in DOMAIN queue : queue[i] = 0 <=> s.rpm = 0
            <4>1. \A i \in DOMAIN s.queue : s.queue[i] = 0 <=> s.rpm = 0
                BY <1>1 DEF Paced
            <4> QED BY <1>5, <2>2, <3>1, <4>1
        <3> QED BY <1>1, <3>1, <3>2, <3>3 DEF Paced
    <2> QED BY <2>4, <2>5, <2>6 DEF SpindleSafe
<1> QED BY <1>8, <1>9

LEMMA SegmentKept ==
    ASSUME SpindleSafe(s), Segment
    PROVE  SpindleSafe(s')
<1>1. /\ SpindleShape(s) /\ Chosen(s) /\ Obeys(s) /\ Agrees(s) /\ Rests(s) /\ Paced(s)
      /\ s.queue # << >> /\ s.state = "run" /\ s.started
    BY DEF Segment, SpindleSafe, Chosen, Rests
<1>2. s.id \in Ids /\ s.queue \in Seq(Int)
    BY <1>1, SelectedId DEF SpindleShape
<1> DEFINE e == [s.hw[s.id] EXCEPT !.rpm = IF s.hw[s.id].rpm = 0 THEN 0 ELSE s.queue[1]]
           hw == [s.hw EXCEPT ![s.id] = e]
           queue == Tail(s.queue)
<1>3. /\ queue \in Seq(Int) /\ Len(queue) = Len(s.queue) - 1 /\ Len(s.queue) \in Nat \ {0}
      /\ DOMAIN queue = 1 .. Len(queue) /\ DOMAIN s.queue = 1 .. Len(s.queue)
      /\ \A i \in DOMAIN queue : queue[i] = s.queue[i + 1]
      /\ s.queue[1] \in Int
      /\ queue = << >> <=> Len(queue) = 0
    BY <1>1, <1>2, Dropped
<1>4. s' = [s EXCEPT !.queue = queue, !.hw = hw]
    BY <1>1 DEF Segment, SpindleShape, SpindleFields
<1>5. /\ e \in [on : BOOLEAN, rpm : Int] /\ e.on = s.hw[s.id].on
      /\ e.rpm = IF s.hw[s.id].rpm = 0 THEN 0 ELSE s.queue[1]
    BY <1>1, <1>2, <1>3 DEF SpindleShape
<1> HIDE DEF e, queue
<1>6. /\ hw \in [Ids -> [on : BOOLEAN, rpm : Int]] /\ hw[s.id] = e
      /\ \A i \in Ids : i # s.id => hw[i] = s.hw[i]
    BY <1>1, <1>2, <1>5 DEF SpindleShape
<1> HIDE DEF hw
<1>7. /\ SameCall(s', s) /\ s'.state = s.state /\ s'.hw = hw /\ s'.update = s.update
      /\ s'.current = s.current /\ s'.queue = queue /\ s'.looked = s.looked
      /\ s'.rpm = s.rpm /\ s'.over = s.over /\ DOMAIN s' = SpindleFields
    BY <1>1, <1>4 DEF SpindleShape, SpindleFields, SameCall
<1>8. SpindleShape(s')
    BY <1>1, <1>3, <1>6, <1>7 DEF SpindleShape, SameCall
<1>9. \A i \in Ids : s'.hw[i].on = s.hw[i].on
    BY <1>5, <1>6, <1>7
<1>10. Chosen(s') /\ Rests(s')
    BY <1>1, <1>7 DEF Chosen, Rests, SameCall
<1>11. Obeys(s') /\ Agrees(s')
    BY <1>1, <1>2, <1>7, <1>9 DEF Obeys, Agrees, SameCall
<1>12. Paced(s')
    <2> SUFFICES ASSUME s.hw[s.id].on
                 PROVE  /\ s'.hw[s.id].rpm = 0 <=> s.rpm = 0
                        /\ \A i \in DOMAIN queue : queue[i] = 0 <=> s.rpm = 0
                        /\ Final(s') = Final(s)
        BY <1>1, <1>2, <1>7, <1>9 DEF Paced, SameCall
    <2>1. /\ s.hw[s.id].rpm = 0 <=> s.rpm = 0
          /\ \A i \in DOMAIN s.queue : s.queue[i] = 0 <=> s.rpm = 0
        BY <1>1 DEF Paced
    <2>2. s'.hw[s.id].rpm = IF s.hw[s.id].rpm = 0 THEN 0 ELSE s.queue[1]
        BY <1>5, <1>6, <1>7
    <2>3. s.queue[1] = 0 <=> s.rpm = 0
        BY <1>3, <2>1
    <2>4. \A i \in DOMAIN queue : queue[i] = 0 <=> s.rpm = 0
        <3> SUFFICES ASSUME NEW i \in DOMAIN queue
                     PROVE  queue[i] = 0 <=> s.rpm = 0
            OBVIOUS
        <3>1. i + 1 \in DOMAIN s.queue /\ queue[i] = s.queue[i + 1]
            BY <1>3
        <3> QED BY <2>1, <3>1
    <2>5. Final(s) = s.queue[Len(s.queue)]
        BY <1>1 DEF Final
    <2>6. CASE queue = << >>
        <3>1. Final(s') = s'.hw[s.id].rpm
            BY <1>7, <2>6 DEF Final, SameCall
        <3>2. Len(s.queue) = 1
            BY <1>3, <2>6
        <3> QED BY <2>1, <2>2, <2>3, <2>4, <2>5, <3>1, <3>2
    <2>7. CASE queue # << >>
        <3>1. Final(s') = queue[Len(queue)]
            BY <1>7, <2>7 DEF Final
        <3>2. Len(queue) \in DOMAIN queue /\ Len(queue) + 1 = Len(s.queue)
            BY <1>3, <2>7
        <3>3. queue[Len(queue)] = s.queue[Len(s.queue)]
            BY <1>3, <3>2
        <3> QED BY <2>1, <2>2, <2>3, <2>4, <2>5, <3>1, <3>3
    <2> QED BY <2>6, <2>7
<1> QED BY <1>8, <1>10, <1>11, <1>12 DEF SpindleSafe

LEMMA CourseKept ==
    ASSUME SpindleSafe(s), Move \/ Resume \/ Ends("idle") \/ Ends("hold"), Windows = {}
    PROVE  SpindleSafe(s')
<1>1. /\ SpindleShape(s) /\ Chosen(s) /\ Obeys(s) /\ Agrees(s) /\ Rests(s) /\ Paced(s)
    BY DEF SpindleSafe
<1>2. s.started /\ s.wait = None
    BY <1>1 DEF Move, Resume, Ends, Ready, Chosen, Rests
<1>3. CASE Move \/ Resume
    <2>1. s' = [s EXCEPT !.state = "run"]
        BY <1>3 DEF Move, Resume
    <2>2. /\ SameCall(s', s) /\ s'.state = "run" /\ s'.hw = s.hw /\ s'.update = s.update
          /\ s'.current = s.current /\ s'.queue = s.queue /\ s'.looked = s.looked
          /\ s'.rpm = s.rpm /\ s'.over = s.over /\ DOMAIN s' = SpindleFields
        BY <1>1, <2>1 DEF SpindleShape, SpindleFields, SameCall
    <2>3. SpindleShape(s')
        BY <1>1, <2>2 DEF SpindleShape, SameCall
    <2>4. Chosen(s') /\ Rests(s') /\ Obeys(s')
        BY <1>1, <1>2, <2>2 DEF Chosen, Rests, Obeys, SameCall
    <2>5. Agrees(s') /\ Paced(s')
        BY <1>1, <2>2 DEF Agrees, Paced, Final, SameCall
    <2> QED BY <2>3, <2>4, <2>5 DEF SpindleSafe
<1>4. CASE Ends("idle") \/ Ends("hold")
    <2>1. PICK state \in {"idle", "hold"} : s' = [s EXCEPT !.state = state, !.update = FALSE]
        BY <1>4 DEF Ends
    <2>2. s.queue = << >> /\ ~(s.update /\ ~s.looked)
        BY <1>4 DEF Ends
    <2>3. /\ SameCall(s', s) /\ s'.state = state /\ s'.hw = s.hw /\ s'.update = FALSE
          /\ s'.current = s.current /\ s'.queue = s.queue /\ s'.looked = s.looked
          /\ s'.rpm = s.rpm /\ s'.over = s.over /\ DOMAIN s' = SpindleFields
        BY <1>1, <2>1 DEF SpindleShape, SpindleFields, SameCall
    <2>4. SpindleShape(s')
        BY <1>1, <2>3 DEF SpindleShape, SameCall
    <2>5. Chosen(s') /\ Rests(s') /\ Obeys(s')
        BY <1>1, <1>2, <2>2, <2>3 DEF Chosen, Rests, Obeys, SameCall
    <2>6. Agrees(s')
        BY <1>1, <2>3 DEF Agrees, SameCall
    <2>7. Paced(s')
        <3>1. Final(s') = Final(s)
            BY <2>3 DEF Final, SameCall
        <3> QED BY <1>1, <2>2, <2>3, <3>1 DEF Paced, SameCall
    <2> QED BY <2>4, <2>5, <2>6, <2>7 DEF SpindleSafe
<1> QED BY <1>3, <1>4

LEMMA StopKept ==
    ASSUME SpindleSafe(s), Stop
    PROVE  SpindleSafe(s')
<1>1. SpindleShape(s) /\ Chosen(s) /\ Obeys(s) /\ s.started
    BY DEF SpindleSafe, Stop
<1> DEFINE z == GcSpindleOff(s)
<1>2. /\ SpindleShape(z) /\ SameCourse(z, s) /\ z.gc = Off /\ z.reg = s.reg
      /\ z.id = s.id /\ z.pct = s.pct /\ z.pwm = s.pwm
      /\ \A i \in Ids : z.hw[i].on <=> (s.hw[i].on /\ i # s.id)
    BY <1>1, GcSpindleOffIs
<1>3. s' = [z EXCEPT !.state = "idle", !.wait = None, !.queue = << >>, !.update = FALSE,
                     !.current = 0, !.disabled = FALSE, !.pct = Default]
    BY DEF Stop
<1> HIDE DEF z
<1>4. /\ DOMAIN s' = SpindleFields /\ s'.state = "idle" /\ s'.wait = None /\ s'.queue = << >>
      /\ s'.update = FALSE /\ s'.current = 0 /\ s'.disabled = FALSE /\ s'.pct = Default
      /\ s'.gc = z.gc /\ s'.on = z.on /\ s'.disable = z.disable
      /\ s'.target = z.target /\ s'.started = z.started /\ s'.reg = z.reg /\ s'.pwm = z.pwm
      /\ s'.id = z.id /\ s'.looked = z.looked
      /\ s'.hw = z.hw /\ s'.rpm = z.rpm /\ s'.over = z.over
    BY <1>2, <1>3 DEF SpindleShape, SpindleFields
<1>5. SpindleShape(s')
    <2>1. None \in Nat /\ Default \in Pcts /\ 0 \in Int /\ << >> \in Seq(Int)
        BY DEF None, Default, Pcts
    <2> QED BY <1>2, <1>4, <2>1 DEF SpindleShape
<1>6. Chosen(s')
    BY <1>1, <1>2, <1>4 DEF Chosen, SameCourse, Default
<1>7. Quiet(s') /\ ~s'.disabled
    BY <1>1, <1>2, <1>4 DEF Quiet, Obeys, Off
<1> QED BY <1>5, <1>6, <1>7, QuietIsSafe

\* OnlySelectedRuns, SpeedFollows, DisabledIsFull: a spindle that runs is the one selected and
\* known to run, at the speed the override in force makes of the one it was told, once the
\* segment that sets it was prepared, and at the program's own when the overrides are
\* disabled; for all spindles, speeds and overrides, whatever is selected, fails,
\* is overridden, held or stopped, and in whatever order, without what Windows names.
THEOREM SpindleIsSound ==
    ASSUME SpindleAssumptions, Windows = {}
    PROVE  Spec => []SpindleSound
<1>1. Init => SpindleSafe(s)
    <2> SUFFICES ASSUME Init
                 PROVE  SpindleSafe(s)
        OBVIOUS
    <2>1. /\ DOMAIN s = SpindleFields /\ s.reg = << >> /\ s.pwm = None /\ s.started = FALSE
          /\ s.hw = [id \in Ids |-> Off] /\ s.id = None /\ s.rpm = 0 /\ s.over = 0 /\ s.pct = 0
          /\ s.on = FALSE /\ s.disable = FALSE /\ s.gc = Off /\ s.disabled = FALSE
          /\ s.state = "idle" /\ s.wait = None /\ s.target = Off /\ s.update = FALSE
          /\ s.current = 0 /\ s.queue = << >> /\ s.looked = FALSE
        BY DEF Init, SpindleFields
    <2>2. /\ Off \in [on : BOOLEAN, rpm : Int] /\ Off \in [on : BOOLEAN, rpm : Rates] /\ ~Off.on
          /\ Len(Types) \in Nat /\ 0 \in Rates /\ None \in Nat /\ << >> \in Seq(Int)
        BY DEF Off, Rates, None, SpindleAssumptions
    <2>3. s.reg \in Seq([type : Kinds, ok : BOOLEAN]) /\ Len(s.reg) = 0 /\ DOMAIN s.reg = {}
        BY <2>1
    <2>4. s.hw \in [Ids -> [on : BOOLEAN, rpm : Int]] /\ \A i \in Ids : ~s.hw[i].on
        BY <2>1, <2>2
    <2>5. SpindleShape(s)
        <3>1. 0 =< Len(Types) + 1 /\ 0 \in Pcts \cup {0} /\ 0 \in Int
            BY <2>2
        <3> QED BY <2>1, <2>2, <2>3, <2>4, <3>1 DEF SpindleShape
    <2>6. Chosen(s) /\ Quiet(s) /\ ~s.disabled
        BY <2>1, <2>2, <2>3, <2>4 DEF Chosen, Quiet
    <2> QED BY <2>5, <2>6, QuietIsSafe
<1>2. SpindleSafe(s) /\ [Next]_s => SpindleSafe(s)'
    <2> SUFFICES ASSUME SpindleSafe(s), [Next]_s
                 PROVE  SpindleSafe(s')
        OBVIOUS
    <2>1. CASE Register
        BY <2>1, RegisterKept
    <2>2. CASE Boot
        BY <2>2, BootKept
    <2>3. CASE Select
        BY <2>3, SelectKept
    <2>4. CASE Program
        BY <2>4, ProgramKept
    <2>5. CASE AtSpeed
        BY <2>5, AtSpeedKept
    <2>6. CASE NotAtSpeed
        BY <2>6, NotAtSpeedKept
    <2>7. CASE Speed
        BY <2>7, SpeedWordKept
    <2>8. CASE OverrideControl
        BY <2>8, OverrideControlKept
    <2>9. CASE Override
        BY <2>9, OverrideKept
    <2>10. CASE Prep
        BY <2>10, PrepKept
    <2>11. CASE Segment
        BY <2>11, SegmentKept
    <2>12. CASE Move \/ Hold \/ Resume \/ Moved
        BY <2>12, CourseKept DEF Hold, Moved
    <2>13. CASE Stop
        BY <2>13, StopKept
    <2>14. CASE UNCHANGED s
        BY <2>14
    <2> QED BY <2>1, <2>2, <2>3, <2>4, <2>5, <2>6, <2>7, <2>8, <2>9, <2>10, <2>11, <2>12, <2>13, <2>14
            DEF Next
<1>3. SpindleSafe(s) => SpindleSound
    <2> SUFFICES ASSUME SpindleSafe(s)
                 PROVE  SpindleSound
        OBVIOUS
    <2>1. SpindleShape(s) /\ Chosen(s) /\ Obeys(s) /\ Agrees(s) /\ Rests(s) /\ Paced(s)
        BY DEF SpindleSafe
    <2>2. OnlySelectedRuns
        BY <2>1 DEF OnlySelectedRuns, Obeys, Agrees
    <2>3. SpeedFollows
        BY <2>1 DEF SpeedFollows, Paced
    <2>4. DisabledIsFull
        BY <2>1 DEF DisabledIsFull, Rests
    <2> QED BY <2>2, <2>3, <2>4 DEF SpindleSound
<1> QED BY <1>1, <1>2, <1>3, PTL DEF Spec

=============================================================================
