----------------------------- MODULE ClientProofs -----------------------------
(***************************************************************************)
(* Proofs about what lies between the machine and its clients.             *)
(* OverrideQueue: for every buffer size and command set a fetch holds the  *)
(* oldest queued command, and the ring with one producer implements the    *)
(* queue of CommandFifo.  Streams: for any clients, StreamsSafe, which     *)
(* says what is selected, suspended and taken over by the pendant, is kept *)
(* by every step.  StatusReport: for all intervals, ReportSafe, which says *)
(* that what a client does not know is not forgotten, is kept.             *)
(***************************************************************************)
EXTENDS OverrideQueue, Streams, StatusReport, SequenceTheorems, TLAPS

\* How far index i lies from the oldest slot.
Ahead(i) == IF i >= tail THEN i - tail ELSE i + BufSize - tail

\* Every slot between tail and head holds a command.
Filled == \A i \in Index : Ahead(i) < Ahead(head) => buf[i] \in Commands

\* The head the foreground is about to publish never skips an unfilled slot.
PublishSafe ==
    /\ fg \in {"store", "publish"} => /\ bptr # tail
                                      /\ pending \in Commands
                                      /\ Ahead(bptr) <= Ahead(head) + 1
    /\ fg = "publish" /\ Ahead(bptr) = Ahead(head) + 1 => buf[head] \in Commands

\* The inductive invariant.
IInv == /\ TypeOK
        /\ FetchHoldsOldest
        /\ fg # "flush" => Filled
        /\ fg = "flush" => tail = 0
        /\ ~laser => fg \in {"idle", "get", "flush"}
        /\ PublishSafe

-----------------------------------------------------------------------------
\* The ring starts empty, with every slot free.
LEMMA InitIInv == Init => IInv
<1> SUFFICES ASSUME Init PROVE IInv
    OBVIOUS
<1> USE BufSizeAssumption DEF Init, Index, None
<1>1. TypeOK
    BY DEF TypeOK
<1>2. FetchHoldsOldest /\ PublishSafe
    BY DEF FetchHoldsOldest, PublishSafe
<1>3. Filled
    BY DEF Filled, Ahead
<1> QED BY <1>1, <1>2, <1>3 DEF IInv

\* No access of either context breaks the invariant.
LEMMA StepIInv == IInv /\ [Next]_vars => IInv'
<1> SUFFICES ASSUME IInv, [Next]_vars PROVE IInv'
    OBVIOUS
<1> USE BufSizeAssumption
    DEF IInv, TypeOK, FetchHoldsOldest, Filled, PublishSafe, Ahead, Index, Succ
<1>1. ASSUME NEW cmd \in Commands, Enqueue(cmd) PROVE IInv'
    <2>1. TypeOK'
        BY <1>1 DEF Enqueue
    <2>2. FetchHoldsOldest'
        BY <1>1 DEF Enqueue
    <2>3. (fg # "flush" => Filled)'
        BY <1>1 DEF Enqueue
    <2>4. PublishSafe'
        BY <1>1 DEF Enqueue
    <2>5. (fg = "flush" => tail = 0)'
          /\ (~laser => fg \in {"idle", "get", "flush"})'
        BY <1>1 DEF Enqueue
    <2> QED BY <2>1, <2>2, <2>3, <2>4, <2>5
<1>2. CASE GetBegin
    BY <1>2 DEF GetBegin
<1>3. CASE GetEnd
    BY <1>3 DEF GetEnd, None
<1>4. CASE FlushTail
    BY <1>4 DEF FlushTail
<1>5. CASE FlushHead
    BY <1>5 DEF FlushHead
<1>6. ASSUME NEW cmd \in Commands, ForegroundEnqueueBegin(cmd) PROVE IInv'
    BY <1>6 DEF ForegroundEnqueueBegin
<1>7. CASE ForegroundEnqueueStore
    BY <1>7 DEF ForegroundEnqueueStore
<1>8. CASE ForegroundEnqueueEnd
    BY <1>8 DEF ForegroundEnqueueEnd, None
<1>9. CASE UNCHANGED vars
    BY <1>9 DEF vars
<1> QED BY <1>1, <1>2, <1>3, <1>4, <1>5, <1>6, <1>7, <1>8, <1>9 DEF Next

\* Whatever the interrupt does between the foreground's accesses, the
\* variables keep their types.
THEOREM TypeCorrect == Spec => []TypeOK
<1>1. IInv => TypeOK
    BY DEF IInv
<1> QED BY InitIInv, StepIInv, <1>1, PTL DEF Spec

\* A fetch in progress holds the oldest queued command (get_*_override), also
\* in the spindle queue with its two producers.
THEOREM FetchCorrect == Spec => []FetchHoldsOldest
<1>1. IInv => FetchHoldsOldest
    BY DEF IInv
<1> QED BY InitIInv, StepIInv, <1>1, PTL DEF Spec

-----------------------------------------------------------------------------
(* Refinement of CommandFifo by a queue with one producer.                 *)

\* Outside a flush the ring holds a sequence of Used commands.
LEMMA ContentsIsSeq ==
    ASSUME IInv, fg # "flush"
    PROVE  /\ Used \in 0 .. BufSize - 1
           /\ Contents \in Seq(Commands)
           /\ Len(Contents) = Used
           /\ DOMAIN Contents = 1 .. Used
<1> USE BufSizeAssumption DEF IInv, TypeOK, Index
<1>1. Used \in 0 .. BufSize - 1
    BY DEF Used
<1>2. ASSUME NEW i \in 1 .. Used PROVE buf[At(i - 1)] \in Commands
    <2>1. At(i - 1) \in Index /\ Ahead(At(i - 1)) < Ahead(head)
        BY <1>1 DEF At, Ahead, Used
    <2> QED BY <2>1 DEF Filled
<1>3. Contents \in [1 .. Used -> Commands]
    BY <1>2 DEF Contents
<1> QED BY <1>1, <1>3

\* Storing at head and advancing it appends to the contents.
LEMMA EnqueueAppends ==
    ASSUME IInv, fg # "flush", NEW cmd \in Commands, Enqueue(cmd)
    PROVE  /\ Contents' = Append(Contents, cmd)
           /\ Len(Contents) < BufSize - 1
<1> USE BufSizeAssumption DEF TypeOK, Index
<1>0. TypeOK
    BY DEF IInv
<1>1. Used' = Used + 1 /\ Used < BufSize - 1
    BY <1>0 DEF Enqueue, Succ, Used
<1>2. At(Used) = head /\ Used \in Nat
    BY <1>0 DEF At, Used
<1>3. ASSUME NEW i \in 1 .. Used PROVE /\ At(i - 1)' = At(i - 1)
                                        /\ buf'[At(i - 1)] = buf[At(i - 1)]
    BY <1>0, <1>2 DEF At, Used, Enqueue
<1>4. /\ buf'[head] = cmd
      /\ \A k \in Nat : k = Used => At(k)' = head
    <2>1. tail' = tail
        BY DEF Enqueue
    <2> QED BY <1>0, <1>2, <2>1 DEF Enqueue, At
<1>5. Contents \in Seq(Commands) /\ Len(Contents) = Used
    BY ContentsIsSeq
<1>6. Contents' = [i \in 1 .. Used + 1 |-> buf'[At(i - 1)']]
    BY <1>1 DEF Contents
<1>7. \A i \in 1 .. Used : Contents'[i] = Contents[i]
    <2> SUFFICES ASSUME NEW i \in 1 .. Used PROVE Contents'[i] = Contents[i]
        OBVIOUS
    <2>1. i \in 1 .. Used + 1
        BY <1>2
    <2>2. Contents'[i] = buf'[At(i - 1)']
        BY <1>6, <2>1
    <2>3. Contents[i] = buf[At(i - 1)]
        BY DEF Contents
    <2> QED BY <1>3, <2>2, <2>3
<1>8. Contents'[Used + 1] = cmd
    <2>1. Used + 1 \in 1 .. Used + 1 /\ (Used + 1) - 1 = Used
        BY <1>2
    <2>2. PICK k \in Nat : k = Used
        BY <1>2
    <2>3. Contents'[k + 1] = buf'[At(k)']
        BY <1>6, <2>1, <2>2
    <2> QED BY <1>4, <2>2, <2>3
<1>9. Contents' \in Seq(Commands) /\ Len(Contents') = Used + 1
    <2>1. \A i \in 1 .. Used : Contents[i] \in Commands
        BY <1>2, <1>5, ElementOfSeq
    <2>2. \A i \in 1 .. Used + 1 : Contents'[i] \in Commands
        BY <1>2, <1>7, <1>8, <2>1
    <2> QED BY <1>2, <1>6, <2>2
<1>10. Contents' = Append(Contents, cmd)
    <2> DEFINE other == Append(Contents, cmd)
    <2>1. /\ other \in Seq(Commands) /\ Len(other) = Used + 1
          /\ \A i \in 1 .. Used : other[i] = Contents[i]
          /\ other[Used + 1] = cmd
        BY <1>2, <1>5
    <2>2. \A i \in 1 .. Used + 1 : Contents'[i] = other[i]
        BY <1>2, <1>7, <1>8, <2>1
    <2> QED BY <1>2, <1>9, <2>1, <2>2, SeqEqual
<1> QED BY <1>1, <1>2, <1>5, <1>10

\* Advancing tail drops the oldest command.
LEMMA GetTakesOldest ==
    ASSUME IInv, GetEnd
    PROVE  Contents # <<>> /\ Contents' = Tail(Contents)
<1> USE BufSizeAssumption DEF TypeOK, Index
<1>0. TypeOK /\ tail # head /\ fg # "flush"
    BY DEF IInv, GetEnd, FetchHoldsOldest
<1>1. Used' = Used - 1 /\ Used \in Nat /\ Used > 0
    BY <1>0 DEF GetEnd, Succ, Used
<1>2. Contents \in Seq(Commands) /\ Len(Contents) = Used
    BY <1>0, ContentsIsSeq
<1>3. ASSUME NEW i \in 1 .. Used - 1
      PROVE  At(i - 1)' = At(i) /\ buf' = buf
    BY <1>0 DEF At, Used, GetEnd, Succ
<1>4. Contents' = [i \in 1 .. Used - 1 |-> buf'[At(i - 1)']]
    BY <1>1 DEF Contents
<1>5. ASSUME NEW i \in 1 .. Used - 1 PROVE Contents'[i] = Contents[i + 1]
    <2>1. i + 1 \in 1 .. Used /\ (i + 1) - 1 = i
        BY <1>1
    <2> QED BY <1>3, <1>4, <2>1 DEF Contents
<1>6. Contents' \in Seq(Commands) /\ Len(Contents') = Used - 1
    <2>1. \A i \in 1 .. Used - 1 : Contents[i + 1] \in Commands
        BY <1>1, <1>2, ElementOfSeq
    <2> QED BY <1>1, <1>4, <1>5, <2>1
<1>7. Contents # <<>>
    BY <1>1, <1>2
<1>8. Contents' = Tail(Contents)
    BY <1>1, <1>2, <1>5, <1>6, <1>7, HeadTailProperties, SeqEqual
<1> QED BY <1>7, <1>8

\* A ring fed by the interrupt alone (feed and coolant overrides) implements
\* CommandFifo: order kept, each command delivered once, drops only when full
\* or during a flush.
THEOREM Refinement == Spec => ImplementsFifo
<1>1. Init => Fifo!FifoInit
    BY BufSizeAssumption DEF Init, Fifo!FifoInit, Contents, Used
<1>2. IInv /\ [Next]_vars => [Fifo!FifoNext]_(Fifo!fifoVars)
    <2> SUFFICES ASSUME IInv, [Next]_vars
                 PROVE  [Fifo!FifoNext]_(Fifo!fifoVars)
        OBVIOUS
    <2>0. CASE laser
        <3>1. laser'
            BY <2>0 DEF Next, vars, Enqueue, ForegroundEnqueueBegin, GetBegin,
                        GetEnd, FlushTail, FlushHead, ForegroundEnqueueStore,
                        ForegroundEnqueueEnd
        <3> QED BY <2>0, <3>1 DEF Fifo!fifoVars
    <2> SUFFICES ASSUME ~laser PROVE [Fifo!FifoNext]_(Fifo!fifoVars)
        BY <2>0
    <2> USE DEF Fifo!fifoVars, Fifo!FifoNext
    <2>1. ASSUME NEW cmd \in Commands, Enqueue(cmd), fg # "flush"
          PROVE  Fifo!Put(cmd)
        BY <2>1, EnqueueAppends DEF Enqueue, Fifo!Put
    <2>2. ASSUME NEW cmd \in Commands, Enqueue(cmd), fg = "flush"
          PROVE  UNCHANGED Fifo!fifoVars
        BY <2>2 DEF Enqueue
    <2>3. CASE GetBegin
        BY <2>3 DEF GetBegin, Contents, Used, At
    <2>4. CASE GetEnd
        BY <2>4, GetTakesOldest DEF GetEnd, Fifo!Take
    <2>5. CASE FlushTail
        BY <2>5 DEF FlushTail, Fifo!FlushBegin
    <2>6. CASE FlushHead
        <3>1. tail = 0 /\ tail' = 0 /\ head' = 0
            BY <2>6 DEF FlushHead, IInv
        <3>2. Contents' = <<>>
            BY <3>1 DEF Contents, Used
        <3> QED BY <2>6, <3>2 DEF FlushHead, Fifo!FlushEnd
    <2>7. CASE UNCHANGED vars
        BY <2>7 DEF vars, Contents, Used, At
    <2>8. /\ \A cmd \in Commands : ~ForegroundEnqueueBegin(cmd)
          /\ ~ForegroundEnqueueStore /\ ~ForegroundEnqueueEnd
        BY DEF IInv, ForegroundEnqueueBegin, ForegroundEnqueueStore,
               ForegroundEnqueueEnd
    <2> QED BY <2>1, <2>2, <2>3, <2>4, <2>5, <2>6, <2>7, <2>8 DEF Next
<1> QED BY InitIInv, StepIInv, <1>1, <1>2, PTL
        DEF Spec, ImplementsFifo, Fifo!FifoSpec

-----------------------------------------------------------------------------
(* Streams *)

StreamFields ==
    {"toggles", "list", "up", "sel", "type", "read", "handler", "rx", "mode", "control", "org",
     "suspended", "acked", "kept", "tasks", "state"}

StreamsShape(x) ==
    /\ DOMAIN x = StreamFields
    /\ x.list \in Seq(Streams) /\ x.tasks \in Seq(BOOLEAN)
    /\ x.handler \in [Streams -> {"proto", "mpg", "await"}] /\ x.rx \subseteq Streams
    /\ x.toggles \in BOOLEAN /\ x.mode \in BOOLEAN /\ x.control \in BOOLEAN /\ x.suspended \in BOOLEAN /\ x.acked \in BOOLEAN

\* The first stream and perhaps the pendant, which come first, and clients, each once.
Linked(list) ==
    /\ Len(list) >= 1 /\ list[1] = Base
    /\ \A i \in 2 .. Len(list) : list[i] \in Clients \/ (i = 2 /\ list[i] = Mpg)
    /\ \A i, j \in DOMAIN list : list[i] = list[j] => i = j

Latest(list) == IF Len(list) = 2 /\ list[2] = Mpg THEN Base ELSE list[Len(list)]
Listed(list, stream) == \E i \in DOMAIN list : list[i] = stream

Chosen(x) == Linked(x.list) /\ x.sel = Latest(x.list)

\* While reading is suspended the stream that is selected stays, and waits, with what is to
\* be restored kept; no other stream waits.
Suspending(x) ==
    LET waits == x.suspended /\ ~x.acked
    IN /\ x.suspended => x.state = "tool" /\ ~x.mode
       /\ x.acked => x.suspended
       /\ IF waits THEN x.kept = <<x.sel, "proto">> /\ x.handler[x.sel] = "await" /\ x.read = "null"
          ELSE x.handler[x.sel] = "proto" /\ x.read = IF x.mode THEN Mpg ELSE x.sel
       /\ \A i \in Streams : x.handler[i] = "await" => waits /\ i = x.sel

\* In MPG mode the pendant is received with the protocol's handler, and what had the input
\* is remembered and is not received if it can be silenced.
Mastered(x) ==
    /\ x.type = IF x.mode THEN "MPG" ELSE "own"
    /\ x.mode => /\ x.org = <<x.sel, x.sel>> /\ Mpg \in x.rx /\ x.handler[Mpg] = "proto"
                 /\ x.sel \notin x.rx \cap Serial
    /\ ~x.mode => /\ x.sel \in x.rx
                  /\ Listed(x.list, Mpg) /\ Mpg \in x.rx => x.handler[Mpg] = "mpg"

StreamsSafe(x) == StreamsShape(x) /\ Chosen(x) /\ Suspending(x) /\ Mastered(x)
StreamsAssumption == Base # Mpg /\ Base \notin Clients /\ Mpg \notin Clients

-----------------------------------------------------------------------------
(* The list of connections *)

\* What is selected is a connection behind which there is at most the pendant.
LEMMA LatestIs ==
    ASSUME StreamsAssumption, NEW list \in Seq(Streams), Linked(list)
    PROVE  /\ Latest(list) \in Streams \ {Mpg} /\ Listed(list, Latest(list))
           /\ \E i \in DOMAIN list : list[i] = Latest(list) /\ \A j \in i + 1..Len(list) : list[j] = Mpg
<1>1. Len(list) \in Nat /\ DOMAIN list = 1 .. Len(list) /\ Len(list) >= 1
    BY DEF Linked
<1>2. CASE Len(list) = 2 /\ list[2] = Mpg
    <2>1. Latest(list) = Base /\ list[1] = Base /\ 1 \in DOMAIN list
        BY <1>1, <1>2 DEF Latest, Linked
    <2>2. \A j \in 1 + 1..Len(list) : list[j] = Mpg
        BY <1>1, <1>2
    <2>3. Base \in Streams \ {Mpg}
        BY DEF Streams, StreamsAssumption
    <2> QED BY <2>1, <2>2, <2>3 DEF Listed
<1>3. CASE ~(Len(list) = 2 /\ list[2] = Mpg)
    <2>1. Latest(list) = list[Len(list)] /\ Len(list) \in DOMAIN list
        BY <1>1, <1>3 DEF Latest
    <2>2. list[Len(list)] \in Streams \ {Mpg}
        BY <1>1, <1>3 DEF Linked, Streams, StreamsAssumption
    <2>3. \A j \in Len(list) + 1..Len(list) : list[j] = Mpg
        BY <1>1
    <2> QED BY <2>1, <2>2, <2>3 DEF Listed
<1> QED BY <1>2, <1>3

LEMMA AppendedIs ==
    ASSUME StreamsAssumption, NEW list \in Seq(Streams), Linked(list),
           NEW stream \in Clients, ~Listed(list, stream)
    PROVE  LET l == Append(list, stream)
           IN /\ l \in Seq(Streams) /\ Linked(l) /\ Latest(l) = stream
              /\ Listed(l, Mpg) => Listed(list, Mpg)
<1> DEFINE l == Append(list, stream)
<1>1. Len(list) \in Nat /\ DOMAIN list = 1 .. Len(list) /\ Len(list) >= 1
    BY DEF Linked
<1>2. stream \in Streams /\ stream # Mpg
    BY DEF Streams, StreamsAssumption
<1>3. /\ l \in Seq(Streams) /\ Len(l) = Len(list) + 1 /\ l[Len(l)] = stream
      /\ \A i \in 1 .. Len(list) : l[i] = list[i]
    BY <1>1, <1>2
<1>4. DOMAIN l = 1 .. Len(list) + 1
    BY <1>1, <1>3
<1> HIDE DEF l
<1>5. Linked(l)
    <2>1. \A i, j \in DOMAIN l : l[i] = l[j] => i = j
        <3>1. \A i \in 1 .. Len(list) : list[i] # stream
            BY <1>1 DEF Listed
        <3> QED BY <1>1, <1>3, <1>4, <3>1 DEF Linked
    <2>2. \A i \in 2 .. Len(l) : l[i] \in Clients \/ (i = 2 /\ l[i] = Mpg)
        BY <1>1, <1>3 DEF Linked
    <2> QED BY <1>1, <1>3, <2>1, <2>2 DEF Linked
<1>6. Latest(l) = stream
    BY <1>2, <1>3 DEF Latest
<1>7. Listed(l, Mpg) => Listed(list, Mpg)
    BY <1>1, <1>2, <1>3, <1>4 DEF Listed
<1> QED BY <1>3, <1>5, <1>6, <1>7 DEF l

\* The connection that was made last goes: the one before it, but for the pendant, is the
\* latest then.
LEMMA RemovedIs ==
    ASSUME StreamsAssumption, NEW list \in Seq(Streams), Linked(list),
           NEW i \in 2 .. Len(list), list[i] \in Clients, list[i] = Latest(list)
    PROVE  LET l == RemoveAt(list, i)
               stream == IF list[i - 1] = Mpg THEN list[i - 2] ELSE list[i - 1]
           IN /\ l \in Seq(Streams) /\ Linked(l) /\ Latest(l) = stream
              /\ Listed(l, Mpg) => Listed(list, Mpg)
<1> DEFINE l == RemoveAt(list, i)
           last == Len(list) - 1
<1>1. Len(list) \in Nat /\ DOMAIN list = 1 .. Len(list) /\ Len(list) >= 2 /\ last \in Nat /\ last >= 1
    BY DEF Linked
<1>2. i = Len(list)
    <2>1. list[i] # Base
        BY DEF StreamsAssumption
    <2>2. Latest(list) = list[Len(list)]
        BY <2>1 DEF Latest
    <2>3. i \in DOMAIN list /\ Len(list) \in DOMAIN list
        BY <1>1
    <2> QED BY <2>2, <2>3 DEF Linked
<1>3. l = SubSeq(list, 1, last) \o SubSeq(list, Len(list) + 1, Len(list))
    BY <1>1, <1>2 DEF RemoveAt
<1>4. SubSeq(list, Len(list) + 1, Len(list)) = << >>
    BY <1>1
<1>5. /\ SubSeq(list, 1, last) \in Seq(Streams) /\ Len(SubSeq(list, 1, last)) = last
      /\ \A j \in 1 .. last : SubSeq(list, 1, last)[j] = list[j]
    BY <1>1
<1>6. l = SubSeq(list, 1, last)
    <2> HIDE DEF l, last
    <2> DEFINE q == SubSeq(list, 1, last)
    <2>1. q \in Seq(Streams) /\ l = q \o << >>
        BY <1>3, <1>4, <1>5
    <2> HIDE DEF q
    <2>2. l = q
        BY <2>1
    <2> QED BY <2>2 DEF q
<1> HIDE DEF l
<1>7. /\ l \in Seq(Streams) /\ Len(l) = last /\ DOMAIN l = 1 .. last /\ last + 1 = Len(list)
      /\ \A j \in 1 .. last : l[j] = list[j]
    BY <1>1, <1>5, <1>6
<1> HIDE DEF last
<1>8. Linked(l)
    BY <1>1, <1>7 DEF Linked
<1>9. Listed(l, Mpg) => Listed(list, Mpg)
    BY <1>1, <1>7 DEF Listed
<1>10. Latest(l) = IF list[i - 1] = Mpg THEN list[i - 2] ELSE list[i - 1]
    <2>1. i - 1 = last /\ last \in 1 .. last
        <3>1. i - 1 = last
            BY <1>1, <1>2 DEF last
        <3>2. last \in 1 .. last
            BY <1>1
        <3> QED BY <3>1, <3>2
    <2>2. CASE list[last] = Mpg
        <3>1. last = 2
            BY <1>1, <1>7, <2>2 DEF Linked, StreamsAssumption
        <3>2. l[2] = Mpg /\ i - 2 = 1 /\ list[1] = Base
            BY <1>7, <2>1, <2>2, <3>1 DEF Linked
        <3> QED BY <1>7, <2>1, <2>2, <3>1, <3>2 DEF Latest
    <2>3. CASE list[last] # Mpg
        BY <1>7, <2>1, <2>3 DEF Latest
    <2> QED BY <2>1, <2>2, <2>3
<1> QED BY <1>7, <1>8, <1>9, <1>10 DEF l

-----------------------------------------------------------------------------
(* Selecting a stream and MPG mode *)

\* Another stream that is the latest of the connections is selected, when reading is not suspended.
LEMMA SelectedIs ==
    ASSUME StreamsAssumption, NEW x, StreamsShape(x), Linked(x.list), Suspending(x), Mastered(x),
           ~x.suspended, x.sel \in Streams \ {Mpg}, NEW again \in BOOLEAN
    PROVE  StreamsSafe(Select(x, Latest(x.list), again))
<1> DEFINE stream == Latest(x.list)
           y == IF x.type = "MPG" THEN [MpgOff(x) EXCEPT !.control = TRUE]
                ELSE IF again THEN [x EXCEPT !.tasks = Append(@, TRUE)] ELSE x
           z == [y EXCEPT !.sel = stream, !.type = "own", !.read = stream, !.handler[stream] = "proto",
                          !.rx = @ \cup {stream}, !.up = @ \cup {stream}]
<1>1. stream \in Streams \ {Mpg} /\ Mpg \in Streams
    BY LatestIs DEF StreamsShape, Streams
<1>2. Select(x, stream, again) = z
    BY DEF Select
<1>3. /\ DOMAIN y = StreamFields /\ y.list = x.list /\ y.tasks \in Seq(BOOLEAN) /\ y.mode = FALSE
      /\ y.control \in BOOLEAN /\ y.toggles = x.toggles /\ y.suspended = x.suspended /\ y.acked = x.acked /\ y.state = x.state
      /\ y.handler \in [Streams -> {"proto", "mpg", "await"}] /\ y.rx \subseteq Streams
      /\ \A i \in Streams : y.handler[i] # "await"
      /\ Listed(y.list, Mpg) /\ Mpg \in y.rx => y.handler[Mpg] = "mpg"
    <2>1. CASE x.mode
        <3> DEFINE off == MpgOff(x)
                   rx == (IF x.toggles THEN x.rx ELSE x.rx \ {Mpg}) \cup {x.org[1]}
                   handler == [x.handler EXCEPT ![Mpg] = IF x.toggles THEN "mpg" ELSE @]
        <3>1. x.type = "MPG" /\ x.org = <<x.sel, x.sel>>
            BY <2>1 DEF Mastered
        <3>2. y = [off EXCEPT !.control = TRUE]
            BY <3>1
        <3>3. /\ DOMAIN off = StreamFields /\ off.list = x.list /\ off.tasks = x.tasks /\ off.mode = FALSE
              /\ off.toggles = x.toggles /\ off.suspended = x.suspended /\ off.acked = x.acked
              /\ off.state = x.state /\ off.control = FALSE /\ off.handler = handler /\ off.rx = rx
            BY DEF MpgOff, StreamsShape, StreamFields
        <3> HIDE DEF off, y
        <3>4. /\ DOMAIN y = StreamFields /\ y.list = x.list /\ y.tasks = x.tasks /\ y.mode = FALSE
              /\ y.toggles = x.toggles /\ y.suspended = x.suspended /\ y.acked = x.acked
              /\ y.state = x.state /\ y.control = TRUE /\ y.handler = handler /\ y.rx = rx
            BY <3>2, <3>3 DEF StreamFields
        <3>5. x.org[1] = x.sel
            BY <3>1
        <3>6. rx \subseteq Streams /\ (Mpg \in rx => x.toggles)
            BY <1>1, <3>5 DEF StreamsShape
        <3>7. /\ handler \in [Streams -> {"proto", "mpg", "await"}]
              /\ handler[Mpg] = IF x.toggles THEN "mpg" ELSE x.handler[Mpg]
              /\ \A i \in Streams : i # Mpg => handler[i] = x.handler[i]
            BY <1>1 DEF StreamsShape
        <3>8. \A i \in Streams : x.handler[i] # "await"
            BY DEF Suspending
        <3>9. x.tasks \in Seq(BOOLEAN)
            BY DEF StreamsShape
        <3> HIDE DEF rx, handler
        <3> QED BY <1>1, <3>4, <3>6, <3>7, <3>8, <3>9
    <2>2. CASE ~x.mode
        <3>1. x.type = "own"
            BY <2>2 DEF Mastered
        <3>2. y = IF again THEN [x EXCEPT !.tasks = Append(@, TRUE)] ELSE x
            BY <3>1
        <3> DEFINE tasks == IF again THEN Append(x.tasks, TRUE) ELSE x.tasks
        <3>3. tasks \in Seq(BOOLEAN)
            <4>1. x.tasks \in Seq(BOOLEAN) /\ TRUE \in BOOLEAN
                BY DEF StreamsShape
            <4> QED BY <4>1, AppendProperties
        <3> HIDE DEF y
        <3>4. /\ DOMAIN y = StreamFields /\ y.list = x.list /\ y.tasks = tasks /\ y.mode = x.mode
              /\ y.toggles = x.toggles /\ y.suspended = x.suspended /\ y.acked = x.acked
              /\ y.state = x.state /\ y.control = x.control /\ y.handler = x.handler /\ y.rx = x.rx
            BY <3>2 DEF StreamsShape, StreamFields
        <3> HIDE DEF tasks
        <3>5. \A i \in Streams : x.handler[i] # "await"
            BY DEF Suspending
        <3> QED BY <2>2, <3>3, <3>4, <3>5 DEF StreamsShape, Mastered
    <2>3. x.mode \in BOOLEAN
        BY DEF StreamsShape
    <2> QED BY <2>1, <2>2
<1> DEFINE handler == [y.handler EXCEPT ![stream] = "proto"]
<1> HIDE DEF y, stream
<1>4. /\ DOMAIN z = StreamFields /\ z.list = y.list /\ z.tasks = y.tasks /\ z.mode = y.mode
      /\ z.toggles = y.toggles /\ z.suspended = y.suspended /\ z.acked = y.acked /\ z.state = y.state
      /\ z.control = y.control
      /\ z.handler = handler /\ z.rx = y.rx \cup {stream} /\ z.sel = stream /\ z.type = "own" /\ z.read = stream
    BY <1>3 DEF StreamFields
<1>5. /\ handler \in [Streams -> {"proto", "mpg", "await"}] /\ handler[stream] = "proto"
      /\ \A i \in Streams : i # stream => handler[i] = y.handler[i]
    BY <1>1, <1>3
<1> HIDE DEF z, handler
<1>6. StreamsShape(z)
    BY <1>1, <1>3, <1>4, <1>5 DEF StreamsShape
<1>7. Chosen(z)
    BY <1>3, <1>4 DEF Chosen, stream
<1>8. Suspending(z)
    <2>1. ~z.suspended /\ ~z.acked /\ ~z.mode
        BY <1>3, <1>4 DEF Suspending
    <2> QED BY <1>3, <1>4, <1>5, <2>1 DEF Suspending
<1>9. Mastered(z)
    BY <1>1, <1>3, <1>4, <1>5 DEF Mastered
<1> QED BY <1>2, <1>6, <1>7, <1>8, <1>9 DEF StreamsSafe, stream

-----------------------------------------------------------------------------
(* The actions *)

\* What a character that asks for a mode, and streams that come up, leave alone.
LEMMA SameIsSafe ==
    ASSUME NEW x, NEW y, StreamsSafe(x), DOMAIN y = StreamFields, y.tasks \in Seq(BOOLEAN),
           y.list = x.list, y.sel = x.sel, y.type = x.type, y.read = x.read, y.handler = x.handler,
           y.rx = x.rx, y.mode = x.mode, y.org = x.org, y.suspended = x.suspended, y.acked = x.acked,
           y.kept = x.kept, y.toggles = x.toggles, y.control = x.control,
           x.suspended => y.state = "tool"
    PROVE  StreamsSafe(y)
<1>1. StreamsShape(x) /\ Chosen(x) /\ Suspending(x) /\ Mastered(x)
    BY DEF StreamsSafe
<1>2. StreamsShape(y)
    BY <1>1 DEF StreamsShape
<1>3. Chosen(y) /\ Mastered(y)
    BY <1>1 DEF Chosen, Mastered
<1>4. Suspending(y)
    BY <1>1 DEF Suspending
<1> QED BY <1>2, <1>3, <1>4 DEF StreamsSafe

\* The selected stream of a safe state, and what is needed of it.
LEMMA SafeIs ==
    ASSUME StreamsAssumption, NEW x, StreamsSafe(x)
    PROVE  /\ StreamsShape(x) /\ Chosen(x) /\ Suspending(x) /\ Mastered(x)
           /\ x.sel \in Streams \ {Mpg} /\ Listed(x.list, x.sel) /\ Mpg \in Streams
           /\ x.list \in Seq(Streams) /\ Linked(x.list)
<1>1. /\ StreamsShape(x) /\ Chosen(x) /\ Suspending(x) /\ Mastered(x)
      /\ x.list \in Seq(Streams) /\ Linked(x.list) /\ x.sel = Latest(x.list)
    BY DEF StreamsSafe, StreamsShape, Chosen
<1>2. x.sel \in Streams \ {Mpg} /\ Listed(x.list, x.sel)
    BY <1>1, LatestIs
<1> QED BY <1>1, <1>2 DEF Streams

LEMMA SetModeKept ==
    ASSUME StreamsAssumption, NEW x, StreamsSafe(x), NEW on \in BOOLEAN, on \/ ~x.suspended
    PROVE  StreamsSafe(SetMode(x, on)) /\ SetMode(x, on).tasks = x.tasks
<1>1. /\ StreamsShape(x) /\ Chosen(x) /\ Suspending(x) /\ Mastered(x)
      /\ x.sel \in Streams \ {Mpg} /\ Mpg \in Streams
    BY SafeIs
<1>2. CASE on = x.mode \/ (on /\ x.state \notin {"idle", "alarm"})
    BY <1>2 DEF SetMode
<1>3. CASE ~(on = x.mode \/ (on /\ x.state \notin {"idle", "alarm"})) /\ on
    <2> DEFINE y == MpgOn(x)
               rx == (x.rx \ ({x.sel} \cap Serial)) \cup {Mpg}
               handler == [x.handler EXCEPT ![Mpg] = x.handler[x.sel]]
    <2>1. SetMode(x, on) = y
        BY <1>3 DEF SetMode
    <2>2. /\ DOMAIN y = StreamFields /\ y.list = x.list /\ y.tasks = x.tasks /\ y.mode = TRUE
          /\ y.control = FALSE
          /\ y.toggles = x.toggles /\ y.suspended = x.suspended /\ y.acked = x.acked /\ y.state = x.state
          /\ y.handler = handler /\ y.rx = rx /\ y.sel = x.sel /\ y.type = "MPG" /\ y.read = Mpg
          /\ y.org = <<x.sel, x.read>>
        BY <1>1 DEF MpgOn, StreamsShape, StreamFields
    <2>3. ~x.suspended /\ ~x.acked /\ ~x.mode
        BY <1>1, <1>3 DEF Suspending, StreamsShape
    <2>4. x.handler[x.sel] = "proto" /\ x.read = x.sel /\ \A i \in Streams : x.handler[i] # "await"
        BY <1>1, <2>3 DEF Suspending
    <2>5. /\ handler \in [Streams -> {"proto", "mpg", "await"}] /\ handler[Mpg] = "proto"
          /\ handler[x.sel] = "proto" /\ \A i \in Streams : handler[i] # "await"
        BY <1>1, <2>4 DEF StreamsShape
    <2>6. rx \subseteq Streams /\ Mpg \in rx /\ x.sel \notin rx \cap Serial
        BY <1>1 DEF StreamsShape
    <2> HIDE DEF y, rx, handler
    <2>7. StreamsShape(y)
        BY <1>1, <2>2, <2>5, <2>6 DEF StreamsShape
    <2>8. Chosen(y)
        BY <1>1, <2>2 DEF Chosen
    <2>9. Suspending(y)
        BY <2>2, <2>3, <2>5 DEF Suspending
    <2>10. Mastered(y)
        BY <2>2, <2>4, <2>5, <2>6 DEF Mastered
    <2> QED BY <2>1, <2>2, <2>7, <2>8, <2>9, <2>10 DEF StreamsSafe
<1>4. CASE ~(on = x.mode \/ (on /\ x.state \notin {"idle", "alarm"})) /\ ~on
    <2> DEFINE y == MpgOff(x)
               rx == (IF x.toggles THEN x.rx ELSE x.rx \ {Mpg}) \cup {x.org[1]}
               handler == [x.handler EXCEPT ![Mpg] = IF x.toggles THEN "mpg" ELSE @]
    <2>1. SetMode(x, on) = y
        BY <1>4 DEF SetMode
    <2>2. x.mode /\ ~x.suspended /\ ~x.acked /\ x.org = <<x.sel, x.sel>> /\ Mpg \in x.rx
        BY <1>1, <1>4 DEF Suspending, StreamsShape, Mastered
    <2>3. x.org[1] = x.sel /\ x.org[2] = x.sel
        BY <2>2
    <2>4. /\ DOMAIN y = StreamFields /\ y.list = x.list /\ y.tasks = x.tasks /\ y.mode = FALSE
          /\ y.control = FALSE /\ y.toggles = x.toggles /\ y.suspended = x.suspended /\ y.acked = x.acked /\ y.state = x.state
          /\ y.handler = handler /\ y.rx = rx /\ y.sel = x.org[1] /\ y.type = "own" /\ y.read = x.org[2]
        BY <1>1 DEF MpgOff, StreamsShape, StreamFields
    <2>5. x.handler[x.sel] = "proto" /\ \A i \in Streams : x.handler[i] # "await"
        BY <1>1, <2>2 DEF Suspending
    <2>6. /\ handler \in [Streams -> {"proto", "mpg", "await"}] /\ handler[x.sel] = "proto"
          /\ \A i \in Streams : handler[i] # "await"
          /\ x.toggles => handler[Mpg] = "mpg"
        BY <1>1, <2>5 DEF StreamsShape
    <2>7. rx \subseteq Streams /\ x.sel \in rx /\ (Mpg \in rx => x.toggles)
        BY <1>1, <2>3 DEF StreamsShape
    <2> HIDE DEF y, rx, handler
    <2>8. StreamsShape(y)
        BY <1>1, <2>4, <2>6, <2>7 DEF StreamsShape
    <2>9. Chosen(y)
        BY <1>1, <2>3, <2>4 DEF Chosen
    <2>10. Suspending(y)
        BY <2>2, <2>3, <2>4, <2>6 DEF Suspending
    <2>11. Mastered(y)
        BY <2>3, <2>4, <2>6, <2>7 DEF Mastered
    <2> QED BY <2>1, <2>4, <2>8, <2>9, <2>10, <2>11 DEF StreamsSafe
<1> QED BY <1>2, <1>3, <1>4

LEMMA MpgTaskKept ==
    ASSUME StreamsAssumption, Windows = {}, StreamsSafe(s), MpgTask
    PROVE  StreamsSafe(s')
<1>1. s.tasks \in Seq(BOOLEAN) /\ s.tasks # << >>
    BY DEF StreamsSafe, StreamsShape, MpgTask
<1>2. Head(s.tasks) \in BOOLEAN /\ Tail(s.tasks) \in Seq(BOOLEAN)
    BY <1>1, HeadTailProperties
<1> DEFINE on == Head(s.tasks)
           y == SetMode(s, on)
<1>3. (on \/ ~s.suspended) /\ s' = [y EXCEPT !.tasks = Tail(@)]
    BY DEF MpgTask
<1> HIDE DEF on
<1>4. StreamsSafe(y) /\ y.tasks = s.tasks
    BY <1>2, <1>3, SetModeKept DEF on
<1> HIDE DEF y
<1>5. /\ DOMAIN s' = StreamFields /\ s'.tasks = Tail(s.tasks)
      /\ s'.list = y.list /\ s'.sel = y.sel /\ s'.type = y.type /\ s'.read = y.read /\ s'.handler = y.handler
      /\ s'.rx = y.rx /\ s'.mode = y.mode /\ s'.org = y.org /\ s'.suspended = y.suspended /\ s'.acked = y.acked
      /\ s'.kept = y.kept /\ s'.toggles = y.toggles /\ s'.control = y.control /\ s'.state = y.state
    BY <1>3, <1>4 DEF StreamsSafe, StreamsShape, StreamFields
<1>6. y.suspended => y.state = "tool"
    BY <1>4 DEF StreamsSafe, Suspending
<1> QED BY <1>2, <1>4, <1>5, <1>6, SameIsSafe

\* Tasks that are posted, streams that are marked, and motions.
LEMMA FramesKept ==
    ASSUME StreamsSafe(s), ToggleOn \/ ToggleOff \/ Switch \/ BaseUp \/ BaseDown \/ Start \/ End
    PROVE  StreamsSafe(s')
<1>1. s.tasks \in Seq(BOOLEAN) /\ DOMAIN s = StreamFields /\ (s.suspended => s.state = "tool")
    BY DEF StreamsSafe, StreamsShape, Suspending
<1>2. CASE ToggleOn \/ ToggleOff \/ Switch
    <2>1. PICK on \in BOOLEAN : s' = [s EXCEPT !.tasks = Append(@, on)]
        BY <1>2 DEF ToggleOn, ToggleOff, Switch, Post
    <2> DEFINE tasks == Append(s.tasks, on)
    <2>2. tasks \in Seq(BOOLEAN)
        BY <1>1, AppendProperties
    <2> HIDE DEF tasks
    <2>3. s' = [s EXCEPT !.tasks = tasks]
        BY <1>1, <2>1 DEF tasks, StreamFields
    <2> QED BY <1>1, <2>2, <2>3, SameIsSafe DEF StreamFields
<1>3. CASE BaseUp \/ BaseDown
    <2>1. PICK up : s' = [s EXCEPT !.up = up]
        BY <1>1, <1>3 DEF BaseUp, BaseDown, StreamFields
    <2> QED BY <1>1, <2>1, SameIsSafe DEF StreamFields
<1>4. CASE Start \/ End
    <2>1. PICK state : s' = [s EXCEPT !.state = state] /\ s.state # "tool"
        BY <1>4 DEF Start, End
    <2> QED BY <1>1, <2>1, SameIsSafe DEF StreamFields
<1> QED BY <1>2, <1>3, <1>4

\* A list that changes while reading goes on, before another stream is selected.
LEMMA RelinkedIs ==
    ASSUME StreamsAssumption, NEW x, StreamsSafe(x), ~x.suspended, NEW list \in Seq(Streams), Linked(list),
           Listed(list, Mpg) => Listed(x.list, Mpg),
           NEW up, NEW again \in BOOLEAN
    PROVE  StreamsSafe(Select([x EXCEPT !.list = list, !.up = up], Latest(list), again))
<1> DEFINE y == [x EXCEPT !.list = list, !.up = up]
<1>1. StreamsShape(x) /\ Chosen(x) /\ Suspending(x) /\ Mastered(x) /\ x.sel \in Streams \ {Mpg}
    BY SafeIs
<1>2. /\ DOMAIN y = StreamFields /\ y.list = list /\ y.tasks = x.tasks /\ y.sel = x.sel /\ y.type = x.type
      /\ y.read = x.read /\ y.handler = x.handler /\ y.rx = x.rx /\ y.mode = x.mode /\ y.org = x.org
      /\ y.suspended = x.suspended /\ y.acked = x.acked /\ y.kept = x.kept /\ y.toggles = x.toggles
      /\ y.state = x.state /\ y.control = x.control
    BY <1>1 DEF StreamsShape, StreamFields
<1> HIDE DEF y
<1>3. StreamsShape(y)
    BY <1>1, <1>2 DEF StreamsShape
<1>4. Suspending(y)
    BY <1>1, <1>2 DEF Suspending
<1>5. Mastered(y)
    BY <1>1, <1>2 DEF Mastered
<1>6. StreamsSafe(Select(y, Latest(y.list), again))
    BY <1>1, <1>2, <1>3, <1>4, <1>5, SelectedIs
<1> QED BY <1>2, <1>6 DEF y

LEMMA ConnectKept ==
    ASSUME StreamsAssumption, Windows = {}, StreamsSafe(s), NEW stream \in Clients, Connect(stream)
    PROVE  StreamsSafe(s')
<1>1. /\ s.list \in Seq(Streams) /\ Linked(s.list) /\ ~s.suspended /\ ~Listed(s.list, stream)
      /\ DOMAIN s = StreamFields
    BY SafeIs DEF Connect, Listed, ToSet, StreamsShape
<1> DEFINE list == Append(s.list, stream)
<1>2. /\ list \in Seq(Streams) /\ Linked(list) /\ Latest(list) = stream
      /\ Listed(list, Mpg) => Listed(s.list, Mpg)
    BY <1>1, AppendedIs
<1>3. s' = Select([s EXCEPT !.list = list], stream, FALSE)
    BY <1>1 DEF Connect, StreamFields
<1> HIDE DEF list
<1>4. [s EXCEPT !.list = list] = [s EXCEPT !.list = list, !.up = s.up]
    BY <1>1 DEF StreamFields
<1> QED BY <1>1, <1>2, <1>3, <1>4, RelinkedIs

LEMMA DisconnectKept ==
    ASSUME StreamsAssumption, Windows = {}, StreamsSafe(s), NEW stream \in Clients, Disconnect(stream)
    PROVE  StreamsSafe(s')
<1>1. /\ s.list \in Seq(Streams) /\ Linked(s.list) /\ s.sel = Latest(s.list) /\ DOMAIN s = StreamFields
    BY SafeIs DEF Chosen, StreamsShape
<1>2. PICK i \in 2 .. Len(s.list) :
        /\ s.list[i] = stream /\ ~s.suspended /\ s.sel = stream
        /\ LET x == [s EXCEPT !.list = RemoveAt(@, i), !.up = @ \ {stream}]
           IN s' = IF s.list[i - 1] = Mpg THEN Select(x, s.list[i - 2], s.control)
                   ELSE Select(x, s.list[i - 1], FALSE)
    BY DEF Disconnect
<1> DEFINE list == RemoveAt(s.list, i)
           next == IF s.list[i - 1] = Mpg THEN s.list[i - 2] ELSE s.list[i - 1]
           again == s.list[i - 1] = Mpg /\ s.control
<1>3. /\ list \in Seq(Streams) /\ Linked(list) /\ Latest(list) = next
      /\ Listed(list, Mpg) => Listed(s.list, Mpg)
    BY <1>1, <1>2, RemovedIs
<1>4. s.control \in BOOLEAN
    BY SafeIs DEF StreamsShape
<1>5. s' = Select([s EXCEPT !.list = list, !.up = s.up \ {stream}], next, again)
    <2> DEFINE x == [s EXCEPT !.list = RemoveAt(@, i), !.up = @ \ {stream}]
               y == [s EXCEPT !.list = list, !.up = s.up \ {stream}]
    <2>1. x = y
        BY <1>1 DEF StreamFields
    <2>2. s' = IF s.list[i - 1] = Mpg THEN Select(x, s.list[i - 2], s.control)
               ELSE Select(x, s.list[i - 1], FALSE)
        BY <1>2
    <2> HIDE DEF x, y
    <2>3. CASE s.list[i - 1] = Mpg
        BY <1>4, <2>1, <2>2, <2>3 DEF y
    <2>4. CASE s.list[i - 1] # Mpg
        BY <1>4, <2>1, <2>2, <2>4 DEF y
    <2> QED BY <2>3, <2>4
<1>6. again \in BOOLEAN
    BY <1>4
<1> HIDE DEF list, next, again
<1> QED BY <1>2, <1>3, <1>5, <1>6, RelinkedIs

LEMMA SuspendKept ==
    ASSUME StreamsAssumption, Windows = {}, StreamsSafe(s), Suspend
    PROVE  StreamsSafe(s')
<1>1. /\ StreamsShape(s) /\ Chosen(s) /\ Suspending(s) /\ Mastered(s)
      /\ s.sel \in Streams \ {Mpg} /\ Mpg \in Streams
    BY SafeIs
<1>2. ~s.suspended /\ ~s.acked /\ ~s.mode
    BY <1>1 DEF Suspend, Suspending
<1> DEFINE handler == [s.handler EXCEPT ![s.sel] = "await"]
           kept == <<s.read, s.handler[s.sel]>>
<1>3. s' = [s EXCEPT !.state = "tool", !.suspended = TRUE, !.acked = FALSE, !.kept = kept,
                     !.handler = handler, !.read = "null"]
    BY <1>1 DEF Suspend, StreamsShape, StreamFields
<1>4. /\ handler \in [Streams -> {"proto", "mpg", "await"}] /\ handler[s.sel] = "await"
      /\ \A i \in Streams : i # s.sel => handler[i] = s.handler[i]
    BY <1>1 DEF StreamsShape
<1>5. kept = <<s.sel, "proto">>
    BY <1>1, <1>2 DEF Suspending
<1> HIDE DEF handler, kept
<1>6. /\ DOMAIN s' = StreamFields /\ s'.list = s.list /\ s'.tasks = s.tasks /\ s'.sel = s.sel /\ s'.type = s.type
      /\ s'.read = "null" /\ s'.handler = handler /\ s'.rx = s.rx /\ s'.mode = s.mode /\ s'.org = s.org
      /\ s'.suspended = TRUE /\ s'.acked = FALSE /\ s'.kept = kept /\ s'.toggles = s.toggles
      /\ s'.state = "tool" /\ s'.control = s.control
    BY <1>1, <1>3 DEF StreamsShape, StreamFields
<1>7. StreamsShape(s')
    BY <1>1, <1>4, <1>6 DEF StreamsShape
<1>8. Chosen(s')
    BY <1>1, <1>6 DEF Chosen
<1>9. Suspending(s')
    BY <1>1, <1>2, <1>4, <1>5, <1>6 DEF Suspending
<1>10. Mastered(s')
    BY <1>1, <1>2, <1>4, <1>6 DEF Mastered
<1> QED BY <1>7, <1>8, <1>9, <1>10 DEF StreamsSafe

\* What the acknowledgement restores, or the end of a tool change without one.
LEMMA RestoredIs ==
    ASSUME StreamsAssumption, NEW x, StreamsSafe(x), x.suspended, ~x.acked, NEW y,
           NEW suspended \in BOOLEAN, NEW state, suspended => state = "tool",
           y = [x EXCEPT !.suspended = suspended, !.acked = suspended, !.read = x.kept[1],
                         !.handler[x.sel] = x.kept[2], !.kept = << >>, !.state = state]
    PROVE  StreamsSafe(y)
<1>1. /\ StreamsShape(x) /\ Chosen(x) /\ Suspending(x) /\ Mastered(x)
      /\ x.sel \in Streams \ {Mpg} /\ Mpg \in Streams
    BY SafeIs
<1>2. ~x.mode /\ x.kept = <<x.sel, "proto">>
    BY <1>1 DEF Suspending
<1>3. x.kept[1] = x.sel /\ x.kept[2] = "proto"
    BY <1>2
<1> DEFINE handler == [x.handler EXCEPT ![x.sel] = "proto"]
<1>4. /\ DOMAIN y = StreamFields /\ y.list = x.list /\ y.tasks = x.tasks /\ y.sel = x.sel /\ y.type = x.type
      /\ y.read = x.sel /\ y.handler = handler /\ y.rx = x.rx /\ y.mode = x.mode /\ y.org = x.org
      /\ y.suspended = suspended /\ y.acked = suspended /\ y.toggles = x.toggles
      /\ y.state = state /\ y.control = x.control
    BY <1>1, <1>3 DEF StreamsShape, StreamFields
<1>5. /\ handler \in [Streams -> {"proto", "mpg", "await"}] /\ handler[x.sel] = "proto"
      /\ \A i \in Streams : i # x.sel => handler[i] = x.handler[i]
    BY <1>1 DEF StreamsShape
<1> HIDE DEF handler
<1>6. StreamsShape(y)
    BY <1>1, <1>4, <1>5 DEF StreamsShape
<1>7. Chosen(y)
    BY <1>1, <1>4 DEF Chosen
<1>8. Suspending(y)
    BY <1>1, <1>2, <1>4, <1>5 DEF Suspending
<1>9. Mastered(y)
    BY <1>1, <1>2, <1>4, <1>5 DEF Mastered
<1> QED BY <1>6, <1>7, <1>8, <1>9 DEF StreamsSafe

LEMMA AcknowledgeKept ==
    ASSUME StreamsAssumption, StreamsSafe(s), Acknowledge
    PROVE  StreamsSafe(s')
<1>1. StreamsShape(s) /\ Suspending(s) /\ s.sel \in Streams
    BY SafeIs
<1>2. PICK x \in s.rx : s.handler[x] = "await"
    BY DEF Acknowledge
<1>3. s.suspended /\ ~s.acked /\ s.state = "tool"
    BY <1>1, <1>2 DEF StreamsShape, Suspending
<1>4. s' = [s EXCEPT !.suspended = TRUE, !.acked = TRUE, !.read = s.kept[1],
                     !.handler[s.sel] = s.kept[2], !.kept = << >>, !.state = "tool"]
    BY <1>1, <1>3 DEF Acknowledge, StreamsShape, StreamFields
<1> QED BY <1>3, <1>4, RestoredIs

\* The end of a tool change, acknowledged or not.
LEMMA ResumedKept ==
    ASSUME StreamsAssumption, StreamsSafe(s), NEW state, s' = [Resumed(s) EXCEPT !.state = state]
    PROVE  StreamsSafe(s')
<1>1. StreamsShape(s) /\ Chosen(s) /\ Suspending(s) /\ Mastered(s) /\ s.sel \in Streams
    BY SafeIs
<1>2. CASE ~s.suspended
    <2>1. s' = [s EXCEPT !.state = state]
        BY <1>2 DEF Resumed
    <2> QED BY <1>1, <1>2, <2>1, SameIsSafe DEF StreamsShape, StreamFields
<1>3. CASE s.suspended /\ s.acked
    <2>1. s' = [s EXCEPT !.suspended = FALSE, !.acked = FALSE, !.state = state]
        BY <1>1, <1>3 DEF Resumed, StreamsShape, StreamFields
    <2>2. /\ DOMAIN s' = StreamFields /\ s'.list = s.list /\ s'.tasks = s.tasks /\ s'.sel = s.sel /\ s'.type = s.type
          /\ s'.read = s.read /\ s'.handler = s.handler /\ s'.rx = s.rx /\ s'.mode = s.mode /\ s'.org = s.org
          /\ s'.suspended = FALSE /\ s'.acked = FALSE /\ s'.toggles = s.toggles /\ s'.control = s.control
        BY <1>1, <2>1 DEF StreamsShape, StreamFields
    <2>3. StreamsShape(s') /\ Chosen(s') /\ Mastered(s')
        BY <1>1, <2>2 DEF StreamsShape, Chosen, Mastered
    <2>4. Suspending(s')
        BY <1>1, <1>3, <2>2 DEF Suspending
    <2> QED BY <2>3, <2>4 DEF StreamsSafe
<1>4. CASE s.suspended /\ ~s.acked
    <2>1. s' = [s EXCEPT !.suspended = FALSE, !.acked = FALSE, !.read = s.kept[1],
                         !.handler[s.sel] = s.kept[2], !.kept = << >>, !.state = state]
        BY <1>1, <1>4 DEF Resumed, StreamsShape, StreamFields
    <2> QED BY <1>4, <2>1, RestoredIs
<1> QED BY <1>2, <1>3, <1>4

-----------------------------------------------------------------------------
(* The theorem *)

LEMMA StreamsInitSafe ==
    ASSUME StreamsAssumption, StreamsInit
    PROVE  StreamsSafe(s)
<1>1. PICK sends \in BOOLEAN, toggles \in BOOLEAN :
        /\ toggles => sends
        /\ DOMAIN s = StreamFields /\ s.toggles = toggles
        /\ s.list = IF sends THEN <<Base, Mpg>> ELSE <<Base>>
        /\ s.sel = Base /\ s.type = "own" /\ s.read = Base
        /\ s.handler = [x \in Streams |-> IF x = Mpg /\ toggles THEN "mpg" ELSE "proto"]
        /\ s.rx = IF sends /\ ~toggles THEN Streams \ {Mpg} ELSE Streams
        /\ s.mode = FALSE /\ s.control = FALSE /\ s.org = << >>
        /\ s.suspended = FALSE /\ s.acked = FALSE /\ s.kept = << >>
        /\ s.tasks = << >> /\ s.state = "idle"
    BY DEF StreamsInit, StreamFields
<1>2. Base \in Streams /\ Mpg \in Streams /\ Base # Mpg
    BY DEF Streams, StreamsAssumption
<1>3. s.list \in Seq(Streams) /\ Linked(s.list) /\ Latest(s.list) = Base /\ (Listed(s.list, Mpg) => sends)
    <2>1. CASE sends
        <3>1. /\ s.list \in Seq(Streams) /\ Len(s.list) = 2 /\ s.list[1] = Base /\ s.list[2] = Mpg
              /\ DOMAIN s.list = 1 .. 2
            BY <1>1, <1>2, <2>1
        <3> QED BY <1>2, <2>1, <3>1 DEF Linked, Latest
    <2>2. CASE ~sends
        <3>1. s.list \in Seq(Streams) /\ Len(s.list) = 1 /\ s.list[1] = Base /\ DOMAIN s.list = 1 .. 1
            BY <1>1, <1>2, <2>2
        <3> QED BY <1>2, <2>2, <3>1 DEF Linked, Latest, Listed
    <2> QED BY <2>1, <2>2
<1>4. StreamsShape(s)
    <2>1. s.tasks \in Seq(BOOLEAN)
        BY <1>1
    <2> QED BY <1>1, <1>2, <1>3, <2>1 DEF StreamsShape
<1>5. Chosen(s)
    BY <1>1, <1>3 DEF Chosen
<1>6. Suspending(s)
    BY <1>1, <1>2 DEF Suspending
<1>7. Mastered(s)
    BY <1>1, <1>2, <1>3 DEF Mastered
<1> QED BY <1>4, <1>5, <1>6, <1>7 DEF StreamsSafe

\* OneInput, InputHeard, NoneBesides: lines are read from the pendant in MPG mode, else from the
\* connection made last, and from none while a tool change is to be acknowledged; that stream is
\* received and its real-time commands act, and no other one can send lines; for any clients,
\* however connections, modes, tool changes and resets follow each other, without what Windows names.
THEOREM StreamsAreSound ==
    ASSUME StreamsAssumption, Windows = {}
    PROVE  StreamsSpec => []StreamsSound
<1>1. StreamsInit => StreamsSafe(s)
    BY StreamsInitSafe
<1>2. StreamsSafe(s) /\ [StreamsNext]_s => StreamsSafe(s)'
    <2> SUFFICES ASSUME StreamsSafe(s), [StreamsNext]_s
                 PROVE  StreamsSafe(s')
        OBVIOUS
    <2>1. CASE MpgTask
        BY <2>1, MpgTaskKept
    <2>2. CASE ToggleOn \/ ToggleOff \/ Switch \/ BaseUp \/ BaseDown \/ Start \/ End
        BY <2>2, FramesKept
    <2>3. ASSUME NEW stream \in Clients, Connect(stream) \/ Disconnect(stream)
          PROVE  StreamsSafe(s')
        BY <2>3, ConnectKept, DisconnectKept
    <2>4. CASE Suspend
        BY <2>4, SuspendKept
    <2>5. CASE Acknowledge
        BY <2>5, AcknowledgeKept
    <2>6. CASE ToolChanged \/ Reset
        BY <2>6, ResumedKept DEF ToolChanged, Reset
    <2>7. CASE UNCHANGED s
        BY <2>7
    <2> QED BY <2>1, <2>2, <2>3, <2>4, <2>5, <2>6, <2>7 DEF StreamsNext
<1>3. StreamsSafe(s) => StreamsSound
    <2> SUFFICES ASSUME StreamsSafe(s)
                 PROVE  StreamsSound
        OBVIOUS
    <2>1. /\ StreamsShape(s) /\ Chosen(s) /\ Suspending(s) /\ Mastered(s)
          /\ s.sel \in Streams \ {Mpg} /\ s.list \in Seq(Streams) /\ Linked(s.list)
        BY SafeIs
    <2>2. OneInput
        <3>1. \E i \in DOMAIN s.list : s.list[i] = s.sel /\ \A j \in i + 1..Len(s.list) : s.list[j] = Mpg
            BY <2>1, LatestIs DEF Chosen
        <3> QED BY <2>1, <3>1 DEF OneInput, Waiting, Suspending
    <2>3. InputHeard
        BY <2>1 DEF InputHeard, Waiting, Suspending, Mastered
    <2>4. NoneBesides
        <3>1. Mpg \in ToSet(s.list) => Listed(s.list, Mpg)
            BY DEF ToSet, Listed
        <3> QED BY <2>1, <3>1 DEF NoneBesides, Mastered
    <2> QED BY <2>2, <2>3, <2>4 DEF StreamsSound
<1> QED BY <1>1, <1>2, <1>3, PTL DEF StreamsSpec

-----------------------------------------------------------------------------
(* Status reports *)

ReportFields ==
    {"menu", "sync", "auto", "flags", "req", "ovCount", "wcoCount", "reporting", "delayed", "at", "val",
     "tlo", "g92", "modes", "cached", "moves", "exec"}
Bit == {0, 1}

ReportShape(x, y) ==
    /\ DOMAIN x = ReportFields /\ DOMAIN y = {"val", "wco", "tlo", "modes"}
    /\ x.val \in [Elements -> Bit] /\ y.val \in [Elements -> Bit \cup {2}]
    /\ x.modes \in [1 .. 2 -> Bit] /\ x.cached \in [1 .. 2 -> Bit] /\ x.reporting \in BOOLEAN

\* Flags that are set while a report is written are cleared with it, so until then the
\* client must not need them.
ValuesTold(x, y) ==
    \A e \in Elements : y.val[e] # x.val[e] =>
        (e \in x.flags /\ ~x.reporting) \/ (x.at = "delay" /\ e = "coolant")
OffsetTold(x, y) ==
    /\ y.tlo # x.tlo => ("tlo" \in x.flags /\ ~x.reporting) \/ "tlo" \in x.req
    /\ ~("all" \in x.flags /\ "tlo" \in x.flags)
ModesTold(x, y) == y.modes # x.modes => "modes" \in x.req \/ x.cached # x.modes

ReportSafe(x, y) == ReportShape(x, y) /\ ValuesTold(x, y) /\ OffsetTold(x, y) /\ ModesTold(x, y)

\* What neither values nor modes depend on may change, and flags and requests may be added.
LEMMA MoreFlagsSafe ==
    ASSUME NEW x, NEW y, NEW z, ReportSafe(x, y), DOMAIN z = ReportFields, z.val = x.val, z.tlo = x.tlo,
           z.modes = x.modes, z.cached = x.cached, z.reporting = x.reporting, z.at = x.at \/ x.at # "delay",
           NEW flags, z.flags = x.flags \cup flags, "tlo" \notin flags, "all" \in flags => "tlo" \notin x.flags,
           NEW req, z.req = x.req \cup req
    PROVE  ReportSafe(z, y)
<1>1. ReportShape(z, y)
    BY DEF ReportSafe, ReportShape
<1>2. ValuesTold(z, y)
    BY DEF ReportSafe, ValuesTold
<1>3. OffsetTold(z, y)
    BY DEF ReportSafe, OffsetTold
<1>4. ModesTold(z, y)
    BY DEF ReportSafe, ModesTold
<1> QED BY <1>1, <1>2, <1>3, <1>4 DEF ReportSafe

\* A value that changes outside of a report has its flag set, or waits for it.
LEMMA ValueChangedSafe ==
    ASSUME NEW x, NEW y, NEW z, ReportSafe(x, y), DOMAIN z = ReportFields, NEW e \in Elements,
           z.val = [x.val EXCEPT ![e] = Flip(@)], z.tlo = x.tlo, z.modes = x.modes, z.cached = x.cached,
           ~x.reporting, z.reporting = x.reporting, x.at # "delay" \/ z.at = x.at,
           z.req = x.req, z.flags = x.flags \cup {e} \/ (z.flags = x.flags /\ e = "coolant" /\ z.at = "delay")
    PROVE  ReportSafe(z, y)
<1>1. /\ x.val \in [Elements -> Bit] /\ Flip(x.val[e]) \in Bit /\ z.val \in [Elements -> Bit]
      /\ \A i \in Elements : i # e => z.val[i] = x.val[i]
    BY DEF ReportSafe, ReportShape, Bit, Flip
<1>2. ReportShape(z, y)
    BY <1>1 DEF ReportSafe, ReportShape
<1>3. ValuesTold(z, y)
    BY <1>1 DEF ReportSafe, ValuesTold
<1>4. OffsetTold(z, y)
    BY DEF ReportSafe, OffsetTold, Elements
<1>5. ModesTold(z, y)
    BY DEF ReportSafe, ModesTold
<1> QED BY <1>2, <1>3, <1>4, <1>5 DEF ReportSafe

LEMMA CommandKept ==
    ASSUME ReportWindows = {}, ReportSafe(r, seen),
           SelectTool \/ SelectSystem \/ AddOffset \/ Move \/ Coolant \/ Override
    PROVE  ReportSafe(r', seen')
<1>1. DOMAIN r = ReportFields /\ seen' = seen /\ ~r.reporting
    BY DEF ReportSafe, ReportShape, SelectTool, SelectSystem, AddOffset, Move, Coolant, Override, Command, Change
<1>2. CASE SelectTool
    <2>1. r' = Add([r EXCEPT !.val["tool"] = Flip(@)], {"tool"}) /\ "tool" \in Elements
        BY <1>2 DEF SelectTool, Command, Change, Elements
    <2>2. /\ DOMAIN r' = ReportFields /\ r'.val = [r.val EXCEPT !["tool"] = Flip(@)] /\ r'.tlo = r.tlo
          /\ r'.modes = r.modes /\ r'.cached = r.cached /\ r'.reporting = r.reporting /\ r'.at = r.at
          /\ r'.req = r.req /\ r'.flags = r.flags \cup {"tool"}
        BY <1>1, <2>1 DEF Add, ReportFields
    <2> QED BY <1>1, <2>1, <2>2, ValueChangedSafe
<1>3. CASE Override
    <2>1. r' = Add([r EXCEPT !.val["ov"] = Flip(@)], {"ov"}) /\ "ov" \in Elements
        BY <1>3 DEF Override, Change, Elements
    <2>2. /\ DOMAIN r' = ReportFields /\ r'.val = [r.val EXCEPT !["ov"] = Flip(@)] /\ r'.tlo = r.tlo
          /\ r'.modes = r.modes /\ r'.cached = r.cached /\ r'.reporting = r.reporting /\ r'.at = r.at
          /\ r'.req = r.req /\ r'.flags = r.flags \cup {"ov"}
        BY <1>1, <2>1 DEF Add, ReportFields
    <2> QED BY <1>1, <2>1, <2>2, ValueChangedSafe
<1>4. CASE Coolant
    <2> DEFINE x == [r EXCEPT !.val["coolant"] = Flip(@)]
    <2>1. /\ r' = IF x.val["coolant"] = 1 THEN [x EXCEPT !.at = "delay"] ELSE Add(x, {"coolant"})
          /\ r.at = "main" /\ "coolant" \in Elements
        BY <1>4 DEF Coolant, Command, Change, Elements
    <2>2. /\ DOMAIN x = ReportFields /\ x.val = [r.val EXCEPT !["coolant"] = Flip(@)] /\ x.tlo = r.tlo
          /\ x.modes = r.modes /\ x.cached = r.cached /\ x.reporting = r.reporting /\ x.at = r.at
          /\ x.req = r.req /\ x.flags = r.flags
        BY <1>1 DEF ReportFields
    <2> HIDE DEF x
    <2>3. /\ DOMAIN r' = ReportFields /\ r'.val = x.val /\ r'.tlo = r.tlo
          /\ r'.modes = r.modes /\ r'.cached = r.cached /\ r'.reporting = r.reporting
          /\ r'.req = r.req
          /\ r'.flags = r.flags \cup {"coolant"} \/ (r'.flags = r.flags /\ r'.at = "delay")
        BY <2>1, <2>2 DEF Add, ReportFields
    <2> QED BY <1>1, <2>1, <2>2, <2>3, ValueChangedSafe
<1>5. CASE SelectSystem
    <2> DEFINE x == Add([r EXCEPT !.val["wcs"] = Flip(@)], {"wcs"})
    <2>1. r' = FlagWcoChange(x) /\ r.at = "main" /\ "wcs" \in Elements
        BY <1>5 DEF SelectSystem, Command, Change, Elements
    <2>2. /\ DOMAIN x = ReportFields /\ x.val = [r.val EXCEPT !["wcs"] = Flip(@)] /\ x.tlo = r.tlo
          /\ x.modes = r.modes /\ x.cached = r.cached /\ x.reporting = r.reporting /\ x.at = r.at
          /\ x.req = r.req /\ x.flags = r.flags \cup {"wcs"}
        BY <1>1 DEF Add, ReportFields
    <2> HIDE DEF x
    <2>3. ReportSafe(x, seen)
        BY <1>1, <2>1, <2>2, ValueChangedSafe
    <2>4. PICK flags \in {{}, {"wco"}} :
            /\ DOMAIN r' = ReportFields /\ r'.val = x.val /\ r'.tlo = x.tlo
            /\ r'.modes = x.modes /\ r'.cached = x.cached /\ r'.reporting = x.reporting
            /\ r'.req = x.req \cup {} /\ r'.flags = x.flags \cup flags
        BY <2>1, <2>2 DEF FlagWcoChange, Add, ReportFields
    <2> QED BY <1>1, <2>1, <2>2, <2>3, <2>4, MoreFlagsSafe
<1>6. CASE AddOffset \/ Move
    <2>1. r.at = "main"
        BY <1>6 DEF AddOffset, Move, Command
    <2>2. PICK flags \in {{}, {"wco"}} :
            /\ DOMAIN r' = ReportFields /\ r'.val = r.val /\ r'.tlo = r.tlo
            /\ r'.modes = r.modes /\ r'.cached = r.cached /\ r'.reporting = r.reporting
            /\ r'.req = r.req \cup {} /\ r'.flags = r.flags \cup flags
        BY <1>1, <1>6 DEF AddOffset, Move, Command, Change, FlagWcoChange, Add, ReportFields
    <2> QED BY <1>1, <2>1, <2>2, MoreFlagsSafe
<1> QED BY <1>2, <1>3, <1>4, <1>5, <1>6

LEMMA SetToolOffsetKept ==
    ASSUME ReportWindows = {}, ReportSafe(r, seen), SetToolOffset
    PROVE  ReportSafe(r', seen')
<1>1. DOMAIN r = ReportFields /\ seen' = seen /\ ~r.reporting /\ "all" \notin r.flags /\ r.at = "main"
    BY DEF ReportSafe, ReportShape, SetToolOffset, Command, Change
<1> DEFINE x == Add([r EXCEPT !.tlo = Flip(@)], {"tlo"})
<1>2. r' = FlagWcoChange(x)
    BY DEF SetToolOffset, Command, Change
<1>3. /\ DOMAIN x = ReportFields /\ x.val = r.val /\ x.modes = r.modes /\ x.cached = r.cached
      /\ x.reporting = r.reporting /\ x.at = r.at /\ x.req = r.req /\ x.flags = r.flags \cup {"tlo"}
    BY <1>1 DEF Add, ReportFields
<1> HIDE DEF x
<1>4. /\ DOMAIN r' = ReportFields /\ r'.val = x.val /\ r'.modes = x.modes /\ r'.cached = x.cached
      /\ r'.reporting = x.reporting /\ r'.req = x.req
      /\ r'.flags = x.flags \/ r'.flags = x.flags \cup {"wco"}
    BY <1>2, <1>3 DEF FlagWcoChange, Add, ReportFields
<1>5. ReportShape(r', seen')
    BY <1>1, <1>3, <1>4 DEF ReportSafe, ReportShape
<1>6. ValuesTold(r', seen')
    BY <1>1, <1>3, <1>4 DEF ReportSafe, ValuesTold
<1>7. OffsetTold(r', seen')
    BY <1>1, <1>3, <1>4 DEF ReportSafe, OffsetTold
<1>8. ModesTold(r', seen')
    BY <1>1, <1>3, <1>4 DEF ReportSafe, ModesTold
<1> QED BY <1>5, <1>6, <1>7, <1>8 DEF ReportSafe

LEMMA SetModesKept ==
    ASSUME ReportWindows = {}, ReportSafe(r, seen), SetModes
    PROVE  ReportSafe(r', seen')
<1>1. DOMAIN r = ReportFields /\ seen' = seen /\ r.cached = r.modes /\ "modes" \notin r.req
    BY DEF ReportSafe, ReportShape, SetModes, Command, Change
<1>2. PICK part \in 1 .. 2 : r' = [r EXCEPT !.modes[part] = Flip(@)]
    BY DEF SetModes, Command, Change
<1>3. /\ DOMAIN r' = ReportFields /\ r'.val = r.val /\ r'.tlo = r.tlo /\ r'.cached = r.cached
      /\ r'.reporting = r.reporting /\ r'.at = r.at /\ r'.req = r.req /\ r'.flags = r.flags
      /\ r'.modes = [r.modes EXCEPT ![part] = Flip(@)]
    BY <1>1, <1>2 DEF ReportFields
<1>4. r'.modes \in [1 .. 2 -> Bit] /\ r'.modes[part] # r.modes[part]
    BY <1>3 DEF ReportSafe, ReportShape, Bit, Flip
<1>5. ReportShape(r', seen')
    BY <1>1, <1>3, <1>4 DEF ReportSafe, ReportShape
<1>6. ValuesTold(r', seen') /\ OffsetTold(r', seen')
    BY <1>1, <1>3 DEF ReportSafe, ValuesTold, OffsetTold
<1>7. ModesTold(r', seen')
    BY <1>1, <1>3, <1>4 DEF ModesTold
<1> QED BY <1>5, <1>6, <1>7 DEF ReportSafe

\* Waits, interrupts and requests
LEMMA AsksKept ==
    ASSUME ReportWindows = {}, ReportSafe(r, seen),
           AskAll \/ AskStatus \/ AskModes \/ ToggleAuto \/ AutoReport \/ StepBlock \/ StepEnd
    PROVE  ReportSafe(r', seen')
<1>1. DOMAIN r = ReportFields
    BY DEF ReportSafe, ReportShape
<1>2. PICK flags \in {{}, {"wco", "force"}, ReportAll}, req \in {{}, {"status"}, {"modes"}} :
        /\ DOMAIN r' = ReportFields /\ r'.val = r.val /\ r'.tlo = r.tlo /\ seen' = seen
        /\ r'.modes = r.modes /\ r'.cached = r.cached /\ r'.reporting = r.reporting /\ r'.at = r.at
        /\ r'.req = r.req \cup req /\ r'.flags = r.flags \cup flags
        /\ flags = ReportAll => "tlo" \notin r.flags
    <2>1. CASE AskAll
        BY <1>1, <2>1 DEF AskAll, Change, Add, ReportFields
    <2>2. CASE AskStatus \/ AskModes \/ ToggleAuto \/ AutoReport
        BY <1>1, <2>2 DEF AskStatus, AskModes, ToggleAuto, AutoReport, Change, ReportFields, ReportAll, Flags
    <2>3. CASE StepBlock
        BY <1>1, <2>3 DEF StepBlock, Add, ReportFields, ReportAll, Flags
    <2>4. CASE StepEnd
        BY <1>1, <2>4 DEF StepEnd, ReportFields, ReportAll, Flags
    <2> QED BY <2>1, <2>2, <2>3, <2>4
<1>3. "tlo" \notin flags /\ ("all" \in flags => "tlo" \notin r.flags)
    BY <1>2 DEF ReportAll
<1> QED BY <1>2, <1>3, MoreFlagsSafe

LEMMA WaitEndsKept ==
    ASSUME ReportSafe(r, seen), WaitEnds
    PROVE  ReportSafe(r', seen')
<1>1. DOMAIN r = ReportFields /\ seen' = seen /\ ~r.reporting
    BY DEF ReportSafe, ReportShape, WaitEnds
<1>2. PICK flags \in {{}, {"wco"}, {"coolant"}} :
        /\ r' = Add([r EXCEPT !.at = "main"], flags) /\ (r.at = "delay" => "coolant" \in flags)
    <2>1. CASE r.at = "sync"
        BY <2>1 DEF WaitEnds
    <2>2. CASE r.at = "delay"
        BY <2>2 DEF WaitEnds
    <2>3. CASE r.at # "sync" /\ r.at # "delay"
        BY <2>3 DEF WaitEnds
    <2> QED BY <2>1, <2>2, <2>3
<1>3. /\ DOMAIN r' = ReportFields /\ r'.val = r.val /\ r'.tlo = r.tlo /\ r'.cached = r.cached
      /\ r'.reporting = r.reporting /\ r'.at = "main" /\ r'.req = r.req /\ r'.flags = r.flags \cup flags
      /\ r'.modes = r.modes
    BY <1>1, <1>2 DEF Add, ReportFields
<1>4. ReportShape(r', seen')
    BY <1>1, <1>3 DEF ReportSafe, ReportShape
<1>5. ValuesTold(r', seen')
    BY <1>1, <1>2, <1>3 DEF ReportSafe, ValuesTold
<1>6. OffsetTold(r', seen') /\ ModesTold(r', seen')
    BY <1>1, <1>3 DEF ReportSafe, OffsetTold, ModesTold
<1> QED BY <1>4, <1>5, <1>6 DEF ReportSafe

LEMMA ReportStartKept ==
    ASSUME ReportSafe(r, seen), ReportStart
    PROVE  ReportSafe(r', seen')
<1> DEFINE all == "all" \in r.flags
           ov == r.ovCount = 0 \/ "ov" \in r.flags
           wco == r.wcoCount = 0 \/ "wco" \in r.flags
           delays == Delays(ov, wco)
           told == Told(ov)
           ovCount == Counted(r.ovCount, ov, OvBusy, OvIdle)
           wcoCount == Counted(r.wcoCount, wco, WcoBusy, WcoIdle)
           x == [r EXCEPT !.reporting = TRUE, !.delayed = delays, !.req = @ \ {"status"},
                          !.ovCount = ovCount, !.wcoCount = wcoCount]
           y == IF "tlo" \in r.flags THEN [x EXCEPT !.req = @ \cup {"tlo"}] ELSE x
           val == [e \in Elements |-> IF e \in told THEN r.val[e] ELSE seen.val[e]]
           offset == IF wco /\ ~delays THEN Offset(r) ELSE seen.wco
<1>1. /\ ~r.reporting /\ r' = IF all THEN x ELSE CacheModes(y)
      /\ DOMAIN r = ReportFields /\ DOMAIN seen = {"val", "wco", "tlo", "modes"}
    BY DEF ReportStart, ReportSafe, ReportShape, ReportFields
<1>2. seen' = [seen EXCEPT !.val = val, !.wco = offset]
    BY <1>1 DEF ReportStart
<1>3. \A e \in Elements : e \in r.flags => e \in told
    BY DEF Told, Elements
<1> HIDE DEF told
<1>4. /\ val \in [Elements -> Bit \cup {2}]
      /\ \A e \in Elements : val[e] = IF e \in told THEN r.val[e] ELSE seen.val[e]
    BY DEF ReportSafe, ReportShape
<1> HIDE DEF val, offset, delays, ovCount, wcoCount, ov, wco
<1>5. /\ DOMAIN seen' = {"val", "wco", "tlo", "modes"} /\ seen'.val = val
      /\ seen'.tlo = seen.tlo /\ seen'.modes = seen.modes
    BY <1>1, <1>2
<1>6. /\ DOMAIN x = ReportFields /\ x.val = r.val /\ x.tlo = r.tlo /\ x.cached = r.cached /\ x.modes = r.modes
      /\ x.reporting = TRUE /\ x.at = r.at /\ x.req = r.req \ {"status"} /\ x.flags = r.flags
    BY <1>1 DEF ReportFields
<1> HIDE DEF x
<1>7. /\ DOMAIN y = ReportFields /\ y.val = r.val /\ y.tlo = r.tlo /\ y.cached = r.cached /\ y.modes = r.modes
      /\ y.reporting = TRUE /\ y.at = r.at /\ y.flags = r.flags
      /\ y.req = (r.req \ {"status"}) \cup (IF "tlo" \in r.flags THEN {"tlo"} ELSE {})
    BY <1>6 DEF ReportFields
<1> HIDE DEF y
<1>8. /\ DOMAIN r' = ReportFields /\ r'.val = r.val /\ r'.tlo = r.tlo /\ r'.modes = r.modes
      /\ r'.reporting = TRUE /\ r'.at = r.at /\ r'.flags = r.flags
      /\ r'.cached \in [1 .. 2 -> Bit]
      /\ r.req \ {"status"} \subseteq r'.req
      /\ "tlo" \in r.flags /\ ~all => "tlo" \in r'.req
      /\ r'.cached = r.cached \/ "modes" \in r'.req
    <2>1. r.cached \in [1 .. 2 -> Bit] /\ r.modes \in [1 .. 2 -> Bit]
        BY DEF ReportSafe, ReportShape
    <2>2. CASE all
        BY <1>1, <1>6, <2>1, <2>2
    <2>3. CASE ~all /\ CacheModes(y) = y
        BY <1>1, <1>7, <2>1, <2>3
    <2>4. CASE ~all /\ CacheModes(y) # y
        <3>1. PICK part \in 1 .. 2 : CacheModes(y) = [y EXCEPT !.cached[part] = y.modes[part], !.req = @ \cup {"modes"}]
            BY <2>4 DEF CacheModes
        <3> DEFINE cached == [y.cached EXCEPT ![part] = y.modes[part]]
        <3>2. cached \in [1 .. 2 -> Bit]
            BY <1>7, <2>1
        <3>3. CacheModes(y) = [y EXCEPT !.cached = cached, !.req = @ \cup {"modes"}]
            BY <1>7, <3>1 DEF ReportFields
        <3> HIDE DEF cached
        <3> QED BY <1>1, <1>7, <2>4, <3>2, <3>3 DEF ReportFields
    <2> QED BY <2>2, <2>3, <2>4
<1>9. ReportShape(r', seen')
    BY <1>4, <1>5, <1>8 DEF ReportSafe, ReportShape
<1>10. ValuesTold(r', seen')
    BY <1>1, <1>3, <1>4, <1>5, <1>8 DEF ReportSafe, ValuesTold
<1>11. OffsetTold(r', seen')
    BY <1>1, <1>5, <1>8 DEF ReportSafe, OffsetTold
<1>12. ModesTold(r', seen')
    BY <1>5, <1>8 DEF ReportSafe, ModesTold
<1> QED BY <1>9, <1>10, <1>11, <1>12 DEF ReportSafe

LEMMA ReportEndKept ==
    ASSUME ReportSafe(r, seen), ReportEnd
    PROVE  ReportSafe(r', seen')
<1>1. DOMAIN r = ReportFields /\ seen' = seen /\ r.reporting
    BY DEF ReportSafe, ReportShape, ReportEnd
<1>2. /\ DOMAIN r' = ReportFields /\ r'.val = r.val /\ r'.tlo = r.tlo /\ r'.cached = r.cached /\ r'.modes = r.modes
      /\ r'.reporting = FALSE /\ r'.at = r.at /\ r'.req = r.req /\ r'.flags \in {{}, {"wco"}}
    BY <1>1 DEF ReportEnd, ReportFields
<1>3. ReportShape(r', seen')
    BY <1>1, <1>2 DEF ReportSafe, ReportShape
<1>4. ValuesTold(r', seen')
    BY <1>1, <1>2 DEF ReportSafe, ValuesTold
<1>5. OffsetTold(r', seen') /\ ModesTold(r', seen')
    BY <1>1, <1>2 DEF ReportSafe, OffsetTold, ModesTold
<1> QED BY <1>3, <1>4, <1>5 DEF ReportSafe

LEMMA AnswersKept ==
    ASSUME ReportSafe(r, seen), ReportModes \/ ReportOffsets
    PROVE  ReportSafe(r', seen')
<1>1. DOMAIN r = ReportFields /\ DOMAIN seen = {"val", "wco", "tlo", "modes"}
    BY DEF ReportSafe, ReportShape
<1>2. /\ DOMAIN r' = ReportFields /\ r'.val = r.val /\ r'.tlo = r.tlo /\ r'.cached = r.cached /\ r'.modes = r.modes
      /\ r'.reporting = r.reporting /\ r'.at = r.at /\ r'.flags = r.flags
      /\ DOMAIN seen' = {"val", "wco", "tlo", "modes"} /\ seen'.val = seen.val
      /\ \/ r'.req = r.req \ {"modes"} /\ seen'.modes = r.modes /\ seen'.tlo = seen.tlo
         \/ r'.req = r.req \ {"tlo"} /\ seen'.modes = seen.modes /\ seen'.tlo = r.tlo
    BY <1>1 DEF ReportModes, ReportOffsets, ReportFields
<1>3. ReportShape(r', seen')
    BY <1>1, <1>2 DEF ReportSafe, ReportShape
<1>4. ValuesTold(r', seen')
    BY <1>2 DEF ReportSafe, ValuesTold
<1>5. OffsetTold(r', seen') /\ ModesTold(r', seen')
    BY <1>2 DEF ReportSafe, OffsetTold, ModesTold
<1> QED BY <1>3, <1>4, <1>5 DEF ReportSafe

\* StaleIsPending: what a client does not know it will be told, as its flag is set, its report
\* requested or its change still to be seen by the next report, for any intervals of refreshing, any
\* number of motions and changes, reports that interrupts come into, and commands that wait.
THEOREM StaleIsTold ==
    ASSUME ReportWindows = {}
    PROVE  ReportSpec => []StaleIsPending
<1>1. ReportInit => ReportSafe(r, seen)
    <2> SUFFICES ASSUME ReportInit
                 PROVE  ReportSafe(r, seen)
        OBVIOUS
    <2>1. /\ DOMAIN r = ReportFields /\ r.flags = ReportAll /\ r.reporting = FALSE /\ r.tlo = 0
          /\ r.val = [e \in Elements |-> 0] /\ r.modes = <<0, 0>> /\ r.cached = <<0, 0>>
        BY DEF ReportInit, ReportFields
    <2>2. /\ DOMAIN seen = {"val", "wco", "tlo", "modes"} /\ seen.val = [e \in Elements |-> 2]
          /\ seen.tlo = 0 /\ seen.modes = <<0, 0>>
        BY DEF ReportInit
    <2>3. <<0, 0>> \in [1 .. 2 -> Bit]
        BY DEF Bit
    <2>4. ReportShape(r, seen)
        BY <2>1, <2>2, <2>3 DEF ReportShape, Bit
    <2>5. ValuesTold(r, seen)
        BY <2>1 DEF ValuesTold, ReportAll, Flags, Elements
    <2>6. OffsetTold(r, seen) /\ ModesTold(r, seen)
        BY <2>1, <2>2 DEF OffsetTold, ModesTold, ReportAll
    <2> QED BY <2>4, <2>5, <2>6 DEF ReportSafe
<1>2. ReportSafe(r, seen) /\ [ReportNext]_reportVars => ReportSafe(r, seen)'
    <2> SUFFICES ASSUME ReportSafe(r, seen), [ReportNext]_reportVars
                 PROVE  ReportSafe(r', seen')
        OBVIOUS
    <2>1. CASE SelectTool \/ SelectSystem \/ AddOffset \/ Move \/ Coolant \/ Override
        BY <2>1, CommandKept
    <2>2. CASE SetToolOffset
        BY <2>2, SetToolOffsetKept
    <2>3. CASE SetModes
        BY <2>3, SetModesKept
    <2>4. CASE AskAll \/ AskStatus \/ AskModes \/ ToggleAuto \/ AutoReport \/ StepBlock \/ StepEnd
        BY <2>4, AsksKept
    <2>5. CASE WaitEnds
        BY <2>5, WaitEndsKept
    <2>6. CASE ReportStart
        BY <2>6, ReportStartKept
    <2>7. CASE ReportEnd
        BY <2>7, ReportEndKept
    <2>8. CASE ReportModes \/ ReportOffsets
        BY <2>8, AnswersKept
    <2>9. CASE UNCHANGED reportVars
        BY <2>9 DEF reportVars
    <2> QED BY <2>1, <2>2, <2>3, <2>4, <2>5, <2>6, <2>7, <2>8, <2>9 DEF ReportNext, Changes, Steps, Reports
<1>3. ReportSafe(r, seen) => StaleIsPending
    BY DEF ReportSafe, ValuesTold, OffsetTold, ModesTold, StaleIsPending, AwaitsDelay
<1> QED BY <1>1, <1>2, <1>3, PTL DEF ReportSpec

=============================================================================
