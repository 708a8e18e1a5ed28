----------------------------- MODULE DeviceProofs -----------------------------
(***************************************************************************)
(* Proofs about the devices: the Modbus transport, the homing cycle and    *)
(* the motors outside of the coordinated motion.                           *)
(***************************************************************************)
EXTENDS Modbus, Homing, Stepper2, Integers, TLAPS

-----------------------------------------------------------------------------
(* The transport's inductive invariant.                                    *)

BusAssumptions ==
    /\ QueueLength \in Nat \ {0} /\ RxTimeout \in Nat \ {0} /\ Silence \in Nat /\ ResetSilence \in Nat
    /\ RetryDelay \in Nat /\ Lateness \in Nat /\ MaxSends \in Nat
    /\ Assumptions /\ ~FlushInFlight

BusFields == {"state", "queue", "tail", "head", "sync", "packet", "silence", "timeout", "sender",
              "sending", "wire", "rx", "halted"}

Wire == [id : Nat, age : Nat]

BusType ==
    /\ DOMAIN m = BusFields
    /\ DOMAIN m.queue = Slots /\ m.tail \in Slots /\ m.head \in Slots
    /\ m.packet \in Slots \cup {Sync, Void}
    /\ DOMAIN m.sync = {"id", "retries", "handled"}
    /\ m.sender \in {"none", "idle", "answer"}
    /\ m.silence \in Nat /\ m.timeout \in Nat /\ m.sending \in BOOLEAN
    /\ m.wire \subseteq Wire
    /\ DOMAIN log = {"sent", "answers", "dropped"}
    /\ log.sent \in 0 .. MaxSends /\ DOMAIN log.answers = Ids

\* Who waits for what: a message is in progress from its request to its answer, a
\* blocking one until its sender has seen how it ended, and its slot is not used again.
ProgressInv ==
    /\ m.packet = Void <=> m.state \in {"idle", "silent"}
    /\ m.state \in {"idle", "silent", "tx", "await", "timeout", "exception", "reply", "retry"}
    /\ m.packet = Sync <=> m.sender = "answer"
    /\ m.state \in {"timeout", "exception", "reply", "retry"} => m.packet = Sync
    /\ m.packet \in Slots => m.tail = Incr(m.packet)
    /\ m.sending => m.state = "tx"

\* The slots from the tail to the head, and that of the message in progress.
Waiting(tail, head) ==
    {j \in Slots : (j + QueueLength - tail) % QueueLength < (head + QueueLength - tail) % QueueLength}

Held == Waiting(m.tail, m.head) \cup {j \in Slots : j = m.packet}

Unanswered(id) == id \in 1 .. log.sent /\ log.answers[id] = << >>

\* A message that waits has not been answered, and there is only one of it.
OnceInv ==
    /\ \A j \in Held : Unanswered(m.queue[j].id)
    /\ \A i, j \in Held : m.queue[i].id = m.queue[j].id => i = j
    /\ m.sender # "none" => Unanswered(m.sync.id) /\ \A j \in Held : m.queue[j].id # m.sync.id
    /\ \A n \in Ids : n > log.sent => log.answers[n] = << >>

\* A request the device may still answer is that of the message in progress, or will be
\* too old when the next request is out.
Old(r) == r.age >= Lateness

TimeInv ==
    /\ m.state = "idle" => \A r \in m.wire : Old(r)
    /\ m.state \in {"silent", "exception", "retry"} => \A r \in m.wire : r.age + m.silence >= Lateness
    /\ m.state = "timeout" => \A r \in m.wire : r.age + Silence >= Lateness
    /\ m.state = "timeout" => m.silence = Silence
    /\ m.state = "exception" => m.silence <= Silence
    /\ m.state = "tx" => /\ \A r \in m.wire : Old(r) \/ (~m.sending /\ r.id = Message.id)
                         /\ \A r, s \in m.wire : r = s \/ Old(r) \/ Old(s)
                         /\ m.timeout = RxTimeout
    /\ m.state = "await" => /\ \A r \in m.wire : r.id = Message.id /\ r.age + m.timeout + Silence >= Lateness
                            /\ \A r, s \in m.wire : r = s
                            /\ m.rx # << >> => m.wire = {} /\ \E f : m.rx = <<f>> /\ f.id = Message.id
    /\ m.state = "reply" => m.wire = {} /\ Head(m.rx).id = Message.id

AnswersInv == \A n \in Ids : log.answers[n] = << >> \/ \E a \in {Refused, n} : log.answers[n] = <<a>>

BusInv == BusType /\ ProgressInv /\ OnceInv /\ TimeInv /\ AnswersInv

-----------------------------------------------------------------------------
(* The ring of messages.                                                   *)

LEMMA Remainder ==
    ASSUME NEW n \in Nat \ {0}, NEW k \in 0 .. 2 * n - 1
    PROVE  k % n = IF k < n THEN k ELSE k - n
<1>1. CASE k < n
    BY <1>1
<1>2. CASE ~(k < n)
    BY <1>2
<1> QED BY <1>1, <1>2

LEMMA SuccIs ==
    ASSUME BusAssumptions, NEW i \in Slots
    PROVE  Incr(i) \in Slots /\ Incr(i) = IF i = QueueLength - 1 THEN 0 ELSE i + 1
<1> DEFINE k == i + 1
<1>1. QueueLength \in Nat \ {0} /\ i \in Nat /\ k \in 0 .. 2 * QueueLength - 1 /\ k <= QueueLength
    BY DEF Slots, BusAssumptions
<1>2. k % QueueLength = IF k < QueueLength THEN k ELSE k - QueueLength
    <2> HIDE DEF k
    <2> QED BY <1>1, Remainder
<1> QED BY <1>1, <1>2 DEF Incr, Slots

LEMMA DistanceIs ==
    ASSUME BusAssumptions, NEW i \in Slots, NEW j \in Slots
    PROVE  (j + QueueLength - i) % QueueLength = IF i <= j THEN j - i ELSE j - i + QueueLength
<1> DEFINE k == j + QueueLength - i
<1>1. QueueLength \in Nat \ {0} /\ k \in 0 .. 2 * QueueLength - 1 /\ i \in Int /\ j \in Int
    BY DEF Slots, BusAssumptions
<1>2. k % QueueLength = IF k < QueueLength THEN k ELSE k - QueueLength
    <2> HIDE DEF k
    <2> QED BY <1>1, Remainder
<1> QED BY <1>1, <1>2

LEMMA WaitingIs ==
    ASSUME BusAssumptions, NEW i \in Slots, NEW j \in Slots
    PROVE  /\ Waiting(i, i) = {}
           /\ i # j => /\ i \in Waiting(i, j)
                       /\ \A s \in Waiting(Incr(i), j) : s \in Waiting(i, j) \ {i}
           /\ Incr(j) # i => \A s \in Waiting(i, Incr(j)) : s \in Waiting(i, j) \cup {j}
           /\ j \notin Waiting(i, j) /\ i \notin Waiting(Incr(i), j)
<1> DEFINE to(a, b) == IF a <= b THEN b - a ELSE b - a + QueueLength
<1>0. QueueLength \in Nat \ {0} /\ Slots = 0 .. QueueLength - 1
    BY DEF Slots, BusAssumptions
<1>1. \A a, b \in Slots : Waiting(a, b) = {s \in Slots : to(a, s) < to(a, b)}
    BY DistanceIs DEF Waiting
<1>2. \A a \in Slots : Incr(a) \in Slots /\ Incr(a) = IF a = QueueLength - 1 THEN 0 ELSE a + 1
    BY SuccIs
<1>3. Waiting(i, i) = {} /\ j \notin Waiting(i, j)
    BY <1>0, <1>1
<1>4. ASSUME i # j
      PROVE  i \in Waiting(i, j) /\ \A s \in Waiting(Incr(i), j) : s \in Waiting(i, j) \ {i}
    <2> DEFINE next == Incr(i)
    <2>1. next \in Slots /\ next = IF i = QueueLength - 1 THEN 0 ELSE i + 1
        BY <1>2
    <2> HIDE DEF next
    <2>2. i \in Waiting(i, j)
        BY <1>0, <1>1, <1>4
    <2>3. ASSUME NEW s \in Waiting(next, j)
          PROVE  s \in Waiting(i, j) \ {i}
        <3>1. s \in Slots /\ to(next, s) < to(next, j)
            BY <1>1, <2>1, <2>3
        <3>2. s # i /\ to(i, s) < to(i, j)
            BY <1>0, <1>4, <2>1, <3>1
        <3> QED BY <1>1, <3>1, <3>2
    <2> QED BY <2>2, <2>3 DEF next
<1>5. ASSUME Incr(j) # i
      PROVE  \A s \in Waiting(i, Incr(j)) : s \in Waiting(i, j) \cup {j}
    <2> DEFINE next == Incr(j)
    <2>1. next \in Slots /\ next # i /\ next = IF j = QueueLength - 1 THEN 0 ELSE j + 1
        BY <1>2, <1>5
    <2> HIDE DEF next
    <2>2. ASSUME NEW s \in Waiting(i, next)
          PROVE  s \in Waiting(i, j) \cup {j}
        <3>1. s \in Slots /\ to(i, s) < to(i, next)
            BY <1>1, <2>1, <2>2
        <3>2. s = j \/ to(i, s) < to(i, j)
            BY <1>0, <2>1, <3>1
        <3> QED BY <1>1, <3>1, <3>2
    <2> QED BY <2>2 DEF next
<1>6. i \notin Waiting(Incr(i), j)
    <2> DEFINE next == Incr(i)
    <2>1. next \in Slots /\ next = IF i = QueueLength - 1 THEN 0 ELSE i + 1
        BY <1>2
    <2> HIDE DEF next
    <2>2. ~(to(next, i) < to(next, j))
        BY <1>0, <2>1
    <2> QED BY <1>1, <2>1, <2>2 DEF next
<1> QED BY <1>3, <1>4, <1>5, <1>6

-----------------------------------------------------------------------------
(* Time on the line.                                                       *)

\* A millisecond later the requests on the line are those that were not old.
Later(c) ==
    /\ DOMAIN c = BusFields
    /\ c.state = m.state /\ c.queue = m.queue /\ c.tail = m.tail /\ c.head = m.head
    /\ c.sync = m.sync /\ c.packet = m.packet /\ c.timeout = m.timeout
    /\ c.sender = m.sender /\ c.sending = m.sending /\ c.rx = m.rx
    /\ c.silence = IF m.silence > 0 THEN m.silence - 1 ELSE 0
    /\ \A r \in c.wire : r \in Wire
    /\ \A r \in c.wire : \E q \in m.wire : ~Old(q) /\ r.id = q.id /\ r.age = q.age + 1
    /\ (\A r, s \in m.wire : r = s \/ Old(r) \/ Old(s)) => \A r, s \in c.wire : r = s

LEMMA ElapsedIs ==
    ASSUME BusAssumptions, BusType
    PROVE  Later(Elapsed(m))
<1> DEFINE c == Elapsed(m)
           older(q) == [id |-> q.id, age |-> q.age + 1]
           aged == {older(r) : r \in {q \in m.wire : q.age < Lateness}}
<1>1. /\ DOMAIN c = BusFields /\ c.wire = aged
      /\ c.state = m.state /\ c.queue = m.queue /\ c.tail = m.tail /\ c.head = m.head
      /\ c.sync = m.sync /\ c.packet = m.packet /\ c.timeout = m.timeout
      /\ c.sender = m.sender /\ c.sending = m.sending /\ c.rx = m.rx
      /\ c.silence = IF m.silence > 0 THEN m.silence - 1 ELSE 0
    BY DEF Elapsed, BusType, BusFields
<1>2. \A q \in m.wire : q \in Wire /\ q.id \in Nat /\ q.age \in Nat
    BY DEF BusType, Wire
<1>3. \A q \in m.wire : older(q) \in Wire /\ older(q).id = q.id /\ older(q).age = q.age + 1
    BY <1>2 DEF Wire
<1>4. \A q \in m.wire : q.age < Lateness => ~Old(q)
    BY <1>2 DEF Old, BusAssumptions
<1>5. \A r \in aged : \E q \in m.wire : q.age < Lateness /\ r = older(q)
    OBVIOUS
<1> HIDE DEF c, aged, older
<1>6. \A r \in aged : \E q \in m.wire : ~Old(q) /\ r = older(q)
    BY <1>4, <1>5
<1>7. \A r \in aged : r \in Wire
    BY <1>3, <1>6
<1>8. \A r \in aged : \E q \in m.wire : ~Old(q) /\ r.id = q.id /\ r.age = q.age + 1
    BY <1>3, <1>6
<1>9. (\A r, s \in m.wire : r = s \/ Old(r) \/ Old(s)) => \A r, s \in aged : r = s
    BY <1>6
<1> QED BY <1>1, <1>7, <1>8, <1>9 DEF c, Later

-----------------------------------------------------------------------------
(* What a step may do to the messages and to their answers.                *)

\* The messages waiting are some of those that waited, with nothing said of them.
LEMMA OnceKept ==
    ASSUME BusInv, log' = log,
           \A j \in Held' : j \in Held /\ m'.queue[j] = m.queue[j],
           m'.sender # "none" => m.sender # "none" /\ m'.sync.id = m.sync.id
    PROVE  OnceInv' /\ AnswersInv'
<1>1. AnswersInv'
    BY DEF BusInv, AnswersInv
<1>2. (\A j \in Held : Unanswered(m.queue[j].id))'
    BY DEF BusInv, OnceInv, Unanswered
<1>3. \A i, j \in Held' : m'.queue[i].id = m'.queue[j].id => i = j
    BY DEF BusInv, OnceInv
<1>4. (m.sender # "none" => Unanswered(m.sync.id) /\ \A j \in Held : m.queue[j].id # m.sync.id)'
    BY DEF BusInv, OnceInv, Unanswered
<1>5. \A n \in Ids : n > log'.sent => log'.answers[n] = << >>
    BY DEF BusInv, OnceInv
<1> QED BY <1>1, <1>2, <1>3, <1>4, <1>5 DEF OnceInv

LEMMA UnansweredIs ==
    ASSUME BusAssumptions, BusType
    PROVE  \A n : Unanswered(n) => n \in Ids /\ n \in Nat /\ n <= log.sent /\ log.answers[n] = << >>
BY DEF BusAssumptions, BusType, Unanswered, Ids

\* The message in progress waits for its answer.
LEMMA MessageIs ==
    ASSUME BusAssumptions, BusInv, m.packet # Void
    PROVE  /\ Message.id \in Ids /\ Message.id <= log.sent /\ Unanswered(Message.id)
           /\ \A j \in Held : m.queue[j].id = Message.id => j = m.packet
           /\ m.sender # "none" => (m.packet = Sync <=> m.sync.id = Message.id)
<1>1. m.packet = Sync <=> m.sender = "answer"
    BY DEF BusInv, ProgressInv
<1>2. CASE m.packet = Sync
    <2>1. Message = m.sync /\ Unanswered(m.sync.id) /\ \A j \in Held : m.queue[j].id # m.sync.id
        BY <1>1, <1>2 DEF BusInv, OnceInv, Message
    <2> QED BY <1>2, <2>1, UnansweredIs DEF BusInv
<1>3. CASE m.packet # Sync
    <2>1. m.packet \in Held /\ Message = m.queue[m.packet]
        BY <1>3 DEF BusInv, BusType, Held, Message
    <2>2. Unanswered(Message.id) /\ \A j \in Held : m.queue[j].id = Message.id => j = m.packet
        BY <2>1 DEF BusInv, OnceInv
    <2>3. m.sender # "none" => m.sync.id # Message.id
        BY <2>1 DEF BusInv, OnceInv
    <2> QED BY <1>3, <2>2, <2>3, UnansweredIs DEF BusInv
<1> QED BY <1>2, <1>3

\* The message in progress gets its answer and is done with.
LEMMA OnceDelivered ==
    ASSUME BusInv, m.packet # Void, NEW a \in {Refused, Message.id}, Deliver(a),
           m'.queue = m.queue, m'.tail = m.tail, m'.head = m.head, m'.sync = m.sync, m'.packet = Void,
           m'.sender = IF m.packet = Sync THEN "none" ELSE m.sender, BusAssumptions
    PROVE  /\ OnceInv' /\ AnswersInv'
           /\ DOMAIN log' = {"sent", "answers", "dropped"} /\ log'.sent = log.sent /\ DOMAIN log'.answers = Ids
<1> DEFINE k == Message.id
<1>1. /\ k \in Ids /\ k <= log.sent /\ Unanswered(k)
      /\ \A j \in Held : m.queue[j].id = k => j = m.packet
      /\ m.sender # "none" => (m.packet = Sync <=> m.sync.id = k)
    BY MessageIs
<1>2. DOMAIN log = {"sent", "answers", "dropped"} /\ DOMAIN log.answers = Ids
    BY DEF BusInv, BusType
<1>3. log' = log \/ log' = [log EXCEPT !.answers[k] = Append(@, a)]
    BY DEF Deliver
<1>4. a \in {Refused, k}
    OBVIOUS
<1> HIDE DEF k
<1>5. /\ DOMAIN log' = {"sent", "answers", "dropped"} /\ log'.sent = log.sent /\ DOMAIN log'.answers = Ids
      /\ \A n \in Ids : n # k => log'.answers[n] = log.answers[n]
      /\ log'.answers[k] = log.answers[k] \/ log'.answers[k] = Append(log.answers[k], a)
    BY <1>1, <1>2, <1>3
<1>6. log'.answers[k] = << >> \/ log'.answers[k] = <<a>>
    BY <1>1, <1>5 DEF Unanswered
<1>7. AnswersInv'
    <2>1. \A n \in Ids : n # k => log'.answers[n] = << >> \/ \E b \in {Refused, n} : log'.answers[n] = <<b>>
        BY <1>5 DEF BusInv, AnswersInv
    <2>2. log'.answers[k] = << >> \/ \E b \in {Refused, k} : log'.answers[k] = <<b>>
        BY <1>4, <1>6
    <2> QED BY <2>1, <2>2 DEF AnswersInv
<1>8. \A j \in Held' : j \in Held /\ m.queue[j].id # k
    <2>1. \A j \in Held' : j \in Waiting(m.tail, m.head)
        BY DEF Held, Void, Slots, BusAssumptions
    <2>2. \A j \in Waiting(m.tail, m.head) : j \in Held
        BY DEF Held
    <2>3. m.packet \notin Waiting(m.tail, m.head)
        <3>1. CASE m.packet \in Slots
            <4>1. m.tail = Incr(m.packet) /\ m.tail \in Slots /\ m.head \in Slots
                BY <3>1 DEF BusInv, ProgressInv, BusType
            <4> QED BY <3>1, <4>1, WaitingIs
        <3>2. CASE m.packet \notin Slots
            BY <3>2 DEF Waiting
        <3> QED BY <3>1, <3>2
    <2> QED BY <1>1, <2>1, <2>2, <2>3
<1>9. m'.sender # "none" => m.sender # "none" /\ m.sync.id # k
    BY <1>1
<1>10. (\A j \in Held : Unanswered(m.queue[j].id))'
    <2>1. \A j \in Held' : Unanswered(m.queue[j].id) /\ m.queue[j].id \in Ids
        BY <1>8, UnansweredIs DEF BusInv, OnceInv
    <2> QED BY <1>5, <1>8, <2>1 DEF Unanswered
<1>11. \A i, j \in Held' : m'.queue[i].id = m'.queue[j].id => i = j
    BY <1>8 DEF BusInv, OnceInv
<1>12. (m.sender # "none" => Unanswered(m.sync.id) /\ \A j \in Held : m.queue[j].id # m.sync.id)'
    <2>1. m.sender # "none" => Unanswered(m.sync.id) /\ m.sync.id \in Ids /\ \A j \in Held : m.queue[j].id # m.sync.id
        BY UnansweredIs DEF BusInv, OnceInv
    <2> QED BY <1>5, <1>8, <1>9, <2>1 DEF Unanswered
<1>13. \A n \in Ids : n > log'.sent => log'.answers[n] = << >>
    BY <1>1, <1>5 DEF BusInv, OnceInv, Ids, BusType
<1> QED BY <1>5, <1>7, <1>10, <1>11, <1>12, <1>13 DEF OnceInv

-----------------------------------------------------------------------------
(* The invariant is kept by every step.                                    *)

\* The fields a step keeps, from those of the transport a millisecond later.
SameMessages ==
    m'.queue = m.queue /\ m'.tail = m.tail /\ m'.head = m.head /\ m'.sync = m.sync

\* A step that starts no message, ends none and has none to add.
LEMMA MessagesKept ==
    ASSUME BusInv, log' = log, SameMessages, m'.packet = m.packet, m'.sender = m.sender
    PROVE  OnceInv' /\ AnswersInv' /\ Message' = Message
<1>1. \A j \in Held' : j \in Held /\ m'.queue[j] = m.queue[j]
    BY DEF Held, SameMessages
<1>2. Message' = Message
    BY DEF Message, SameMessages
<1> QED BY <1>1, <1>2, OnceKept DEF SameMessages

LEMMA TypeKept ==
    ASSUME BusType, DOMAIN m' = BusFields, SameMessages,
           m'.packet \in {m.packet, Void, Sync}, m'.sender \in {"none", "idle", "answer"},
           m'.silence \in Nat, m'.timeout \in Nat, m'.sending \in BOOLEAN, \A r \in m'.wire : r \in Wire,
           DOMAIN log' = {"sent", "answers", "dropped"}, log'.sent \in 0 .. MaxSends, DOMAIN log'.answers = Ids
    PROVE  BusType'
BY DEF BusType, SameMessages

LEMMA IdleStep ==
    ASSUME BusAssumptions, BusInv, PollIdle
    PROVE  BusInv'
<1> DEFINE c == Elapsed(m)
<1>1. Later(c)
    BY ElapsedIs DEF BusInv
<1>2. m.state = "idle" /\ log' = log /\ m.packet = Void
    BY DEF PollIdle, BusInv, ProgressInv
<1>3. m' = IF m.tail # m.head THEN [TxMessage(c, m.tail) EXCEPT !.tail = Incr(@)] ELSE c
    BY <1>2 DEF PollIdle
<1> HIDE DEF c
<1>4. c.wire = {} /\ m.silence \in Nat /\ c.silence \in Nat
    BY <1>1, <1>2 DEF BusInv, TimeInv, BusType, Later
<1>5. CASE m.tail = m.head
    <2>1. m' = c
        BY <1>3, <1>5
    <2>2. OnceInv' /\ AnswersInv'
        BY <1>1, <1>2, <2>1, MessagesKept DEF SameMessages, Later
    <2>3. BusType'
        BY <1>1, <1>2, <1>4, <2>1 DEF BusInv, BusType, Later
    <2>4. ProgressInv' /\ TimeInv'
        BY <1>1, <1>2, <1>4, <2>1 DEF BusInv, ProgressInv, TimeInv, Later
    <2> QED BY <2>2, <2>3, <2>4 DEF BusInv
<1>6. CASE m.tail # m.head
    <2> DEFINE next == Incr(m.tail)
    <2>1. next \in Slots /\ m.tail \in Slots /\ m.head \in Slots
        BY SuccIs DEF BusInv, BusType
    <2>2. /\ DOMAIN m' = BusFields /\ m'.queue = m.queue /\ m'.tail = next /\ m'.head = m.head
          /\ m'.sync = m.sync /\ m'.packet = m.tail /\ m'.state = "tx" /\ m'.timeout = RxTimeout
          /\ m'.rx = << >> /\ m'.sending = TRUE /\ m'.silence = c.silence /\ m'.wire = {}
          /\ m'.sender = m.sender
        BY <1>1, <1>3, <1>4, <1>6 DEF TxMessage, BusFields, Later
    <2>3. \A j \in Held' : j \in Held
        <3>1. m.tail \in Waiting(m.tail, m.head) /\ \A j \in Waiting(next, m.head) : j \in Waiting(m.tail, m.head)
            BY <1>6, <2>1, WaitingIs
        <3> HIDE DEF next
        <3> QED BY <2>2, <3>1 DEF Held
    <2> HIDE DEF next
    <2>4. OnceInv' /\ AnswersInv'
        BY <1>2, <2>2, <2>3, OnceKept
    <2>5. BusType'
        BY <1>2, <1>4, <2>1, <2>2 DEF BusInv, BusType, BusAssumptions
    <2>6. ProgressInv'
        <3>1. m.tail # Sync /\ m.tail # Void /\ m.sender # "answer"
            BY <1>2, <2>1 DEF Slots, Sync, Void, BusAssumptions, BusInv, ProgressInv
        <3> QED BY <2>1, <2>2, <3>1 DEF ProgressInv, next
    <2>7. TimeInv'
        BY <2>2 DEF TimeInv
    <2> QED BY <2>4, <2>5, <2>6, <2>7 DEF BusInv
<1> QED BY <1>5, <1>6

LEMMA SilentStep ==
    ASSUME BusAssumptions, BusInv, PollSilent
    PROVE  BusInv'
<1> DEFINE c == Elapsed(m)
<1>1. Later(c)
    BY ElapsedIs DEF BusInv
<1>2. m.state = "silent" /\ log' = log /\ m' = [c EXCEPT !.state = IF c.silence = 0 THEN "idle" ELSE @]
    BY DEF PollSilent
<1> HIDE DEF c
<1>3. /\ DOMAIN m' = BusFields /\ SameMessages /\ m'.packet = m.packet /\ m'.sender = m.sender
      /\ m'.state = (IF c.silence = 0 THEN "idle" ELSE "silent") /\ m'.timeout = m.timeout
      /\ m'.rx = m.rx /\ m'.sending = m.sending /\ m'.silence = c.silence /\ m'.wire = c.wire
    BY <1>1, <1>2 DEF BusFields, SameMessages, Later
<1>4. OnceInv' /\ AnswersInv'
    BY <1>2, <1>3, MessagesKept
<1>5. BusType'
    BY <1>1, <1>2, <1>3 DEF BusInv, BusType, SameMessages, Later
<1>6. ProgressInv'
    BY <1>2, <1>3 DEF BusInv, ProgressInv, SameMessages
<1>7. TimeInv'
    <2>1. \A r \in c.wire : r.age \in Nat /\ r.age + c.silence >= Lateness
        <3>1. \A q \in m.wire : q.age \in Nat /\ q.age + m.silence >= Lateness
            BY <1>2 DEF BusInv, BusType, TimeInv, Wire
        <3>2. m.silence \in Nat /\ Lateness \in Nat
            BY DEF BusInv, BusType, BusAssumptions
        <3> QED BY <1>1, <3>1, <3>2 DEF Old, Later
    <2> QED BY <1>1, <1>3, <2>1 DEF TimeInv, Old, Later
<1> QED BY <1>4, <1>5, <1>6, <1>7 DEF BusInv

LEMMA SentStep ==
    ASSUME BusAssumptions, BusInv, PollSent
    PROVE  BusInv'
<1> DEFINE c == Elapsed(m)
<1>1. Later(c)
    BY ElapsedIs DEF BusInv
<1>2. m.state = "tx" /\ log' = log /\ m' = IF m.sending THEN c ELSE [c EXCEPT !.state = "await", !.rx = << >>]
    BY DEF PollSent, Sent
<1> HIDE DEF c
<1>3. /\ DOMAIN m' = BusFields /\ SameMessages /\ m'.packet = m.packet /\ m'.sender = m.sender
      /\ m'.state = (IF m.sending THEN "tx" ELSE "await") /\ m'.timeout = m.timeout
      /\ m'.sending = m.sending /\ m'.silence = c.silence /\ m'.wire = c.wire
      /\ ~m.sending => m'.rx = << >>
    BY <1>1, <1>2 DEF BusFields, SameMessages, Later
<1>4. OnceInv' /\ AnswersInv' /\ Message' = Message
    BY <1>2, <1>3, MessagesKept
<1>5. BusType'
    BY <1>1, <1>2, <1>3 DEF BusInv, BusType, SameMessages, Later
<1>6. ProgressInv'
    BY <1>2, <1>3 DEF BusInv, ProgressInv, SameMessages
<1>7. TimeInv'
    <2>1. /\ m.timeout = RxTimeout
          /\ \A r \in m.wire : Old(r) \/ (~m.sending /\ r.id = Message.id)
          /\ \A r, s \in m.wire : r = s \/ Old(r) \/ Old(s)
        BY <1>2 DEF BusInv, TimeInv
    <2>2. \A r \in c.wire : ~m.sending /\ r.id = Message.id
        BY <1>1, <2>1 DEF Later
    <2>3. \A r, s \in c.wire : r = s
        BY <1>1, <2>1 DEF Later
    <2>4. \A r \in c.wire : r.age + RxTimeout + Silence >= Lateness
        <3>1. \A r \in c.wire : r.age \in Nat
            BY <1>1 DEF Later, Wire
        <3> QED BY <3>1 DEF BusAssumptions, Assumptions
    <2>5. CASE m.sending
        BY <1>3, <1>4, <2>1, <2>2, <2>5 DEF TimeInv
    <2>6. CASE ~m.sending
        BY <1>3, <1>4, <2>1, <2>2, <2>3, <2>4, <2>6 DEF TimeInv
    <2> QED BY <2>5, <2>6
<1> QED BY <1>4, <1>5, <1>6, <1>7 DEF BusInv

\* A millisecond later a request of the message in progress is that much older.
LEMMA AwaitIs ==
    ASSUME BusAssumptions, BusInv, m.state = "await", m.timeout >= 1, NEW c, Later(c)
    PROVE  /\ \A r \in c.wire : r.id = Message.id /\ r.age \in Nat /\ r.age + (m.timeout - 1) + Silence >= Lateness
           /\ \A r, s \in c.wire : r = s
           /\ m.rx # << >> => c.wire = {} /\ \E f : m.rx = <<f>> /\ f.id = Message.id
<1>1. /\ \A r \in m.wire : r.id = Message.id /\ r.age \in Nat /\ r.age + m.timeout + Silence >= Lateness
      /\ \A r, s \in m.wire : r = s
      /\ m.rx # << >> => m.wire = {} /\ \E f : m.rx = <<f>> /\ f.id = Message.id
    BY DEF BusInv, BusType, TimeInv, Wire
<1>2. m.timeout \in Nat /\ Silence \in Nat /\ Lateness \in Nat
    BY DEF BusInv, BusType, BusAssumptions
<1>3. \A r \in c.wire : r.id = Message.id /\ r.age \in Nat /\ r.age + (m.timeout - 1) + Silence >= Lateness
    BY <1>1, <1>2 DEF Later
<1> QED BY <1>1, <1>3 DEF Later

LEMMA LateStep ==
    ASSUME BusAssumptions, BusInv, PollLate
    PROVE  BusInv'
<1> DEFINE c == Elapsed(m)
           refusal == m.rx # << >> /\ Head(m.rx).kind = "refusal"
<1>1. Later(c)
    BY ElapsedIs DEF BusInv
<1>2. /\ m.state = "await" /\ m.timeout = 1
      /\ IF m.packet = Sync
         THEN /\ m' = [[c EXCEPT !.timeout = 0, !.silence = Silence] EXCEPT !.state = IF refusal THEN "exception" ELSE "timeout"]
              /\ log' = log
         ELSE /\ m' = [[c EXCEPT !.timeout = 0, !.silence = Silence] EXCEPT !.state = "silent", !.packet = Void]
              /\ Deliver(Refused)
    BY DEF PollLate
<1> HIDE DEF c, refusal
<1>3. /\ \A r \in c.wire : r.age \in Nat /\ r.age + Silence >= Lateness
      /\ Silence \in Nat /\ m.packet # Void /\ m.sending = FALSE /\ (m.packet = Sync <=> m.sender = "answer")
    BY <1>1, <1>2, AwaitIs DEF BusInv, BusType, ProgressInv, BusAssumptions
<1>4. /\ DOMAIN log = {"sent", "answers", "dropped"} /\ log.sent \in 0 .. MaxSends /\ DOMAIN log.answers = Ids
      /\ m.sender \in {"none", "idle", "answer"} /\ BusType /\ \A r \in c.wire : r \in Wire
    BY <1>1 DEF BusInv, BusType, Later
<1>5. CASE m.packet = Sync
    <2>1. /\ DOMAIN m' = BusFields /\ SameMessages /\ m'.packet = m.packet /\ m'.sender = m.sender
          /\ m'.state \in {"exception", "timeout"} /\ m'.timeout = 0 /\ m'.sending = FALSE
          /\ m'.silence = Silence /\ m'.wire = c.wire /\ log' = log
        BY <1>1, <1>2, <1>3, <1>5 DEF BusFields, SameMessages, Later
    <2>2. OnceInv' /\ AnswersInv'
        BY <1>2, <1>5, <2>1, MessagesKept
    <2>3. BusType'
        <3>1. m'.timeout = 0 /\ m'.silence = Silence /\ m'.sending = FALSE
            BY <2>1
        <3>2. m'.timeout \in Nat
            BY <3>1
        <3>3. m'.silence \in Nat
            BY <1>3, <3>1
        <3>4. m'.sending \in BOOLEAN
            BY <3>1
        <3> QED BY <1>4, <2>1, <3>2, <3>3, <3>4, TypeKept
    <2>4. ProgressInv'
        BY <1>2, <1>3, <1>5, <2>1 DEF BusInv, ProgressInv, SameMessages
    <2>5. TimeInv'
        BY <1>3, <2>1 DEF TimeInv
    <2> QED BY <2>2, <2>3, <2>4, <2>5 DEF BusInv
<1>6. CASE m.packet # Sync
    <2>1. /\ DOMAIN m' = BusFields /\ SameMessages /\ m'.packet = Void /\ m'.sender = m.sender
          /\ m'.state = "silent" /\ m'.timeout = 0 /\ m'.sending = FALSE
          /\ m'.silence = Silence /\ m'.wire = c.wire
        BY <1>1, <1>2, <1>3, <1>6 DEF BusFields, SameMessages, Later
    <2>2. /\ OnceInv' /\ AnswersInv'
          /\ DOMAIN log' = {"sent", "answers", "dropped"} /\ log'.sent = log.sent /\ DOMAIN log'.answers = Ids
        BY <1>2, <1>3, <1>6, <2>1, OnceDelivered DEF SameMessages
    <2>3. BusType'
        <3>1. m'.timeout = 0 /\ m'.silence = Silence /\ m'.sending = FALSE
            BY <2>1
        <3>2. m'.timeout \in Nat
            BY <3>1
        <3>3. m'.silence \in Nat
            BY <1>3, <3>1
        <3>4. m'.sending \in BOOLEAN
            BY <3>1
        <3> QED BY <1>4, <2>1, <2>2, <3>2, <3>3, <3>4, TypeKept
    <2>4. ProgressInv'
        BY <1>3, <1>6, <2>1 DEF BusInv, ProgressInv, SameMessages, Void, Sync, Slots, BusAssumptions
    <2>5. TimeInv'
        BY <1>3, <2>1 DEF TimeInv
    <2> QED BY <2>2, <2>3, <2>4, <2>5 DEF BusInv
<1> QED BY <1>5, <1>6

LEMMA ReplyStep ==
    ASSUME BusAssumptions, BusInv, PollReply
    PROVE  BusInv'
<1> DEFINE c == Elapsed(m)
           frame == Head(m.rx)
           answer == IF frame.kind = "damaged" THEN Refused ELSE frame.id
           nothing == m.rx = << >> \/ frame.kind = "refusal"
           ended == IF frame.kind = "damaged" THEN "exception" ELSE "reply"
<1>1. Later(c)
    BY ElapsedIs DEF BusInv
<1>2. /\ m.state = "await" /\ m.timeout > 1
      /\ nothing => m' = [c EXCEPT !.timeout = @ - 1] /\ log' = log
      /\ ~nothing /\ m.packet # Sync =>
           /\ m' = [[[c EXCEPT !.timeout = @ - 1] EXCEPT !.silence = Silence, !.rx = Tail(@)]
                      EXCEPT !.state = "silent", !.packet = Void]
           /\ Deliver(answer)
      /\ ~nothing /\ m.packet = Sync =>
           /\ m' = [[[c EXCEPT !.timeout = @ - 1] EXCEPT !.silence = Silence, !.rx = Tail(@)]
                      EXCEPT !.state = ended, !.rx = m.rx]
           /\ log' = log
    BY DEF PollReply
<1>3. /\ \A r \in c.wire : r.id = Message.id /\ r.age \in Nat /\ r.age + (m.timeout - 1) + Silence >= Lateness
      /\ \A r, s \in c.wire : r = s
      /\ m.rx # << >> => c.wire = {} /\ \E f : m.rx = <<f>> /\ f.id = Message.id
    BY <1>1, <1>2, AwaitIs DEF BusInv, BusType
<1>4. /\ DOMAIN log = {"sent", "answers", "dropped"} /\ log.sent \in 0 .. MaxSends /\ DOMAIN log.answers = Ids
      /\ m.sender \in {"none", "idle", "answer"} /\ BusType /\ \A r \in c.wire : r \in Wire
      /\ Silence \in Nat /\ m.silence \in Nat /\ c.silence \in Nat
    BY <1>1 DEF BusInv, BusType, Later, BusAssumptions
<1>5. m.packet # Void /\ (m.packet = Sync <=> m.sender = "answer")
    BY <1>2 DEF BusInv, ProgressInv
<1>6. m.sending = FALSE
    BY <1>2 DEF BusInv, BusType, ProgressInv
<1>7. m.timeout - 1 \in Nat
    BY <1>2 DEF BusInv, BusType
<1>8. ~nothing => answer \in {Refused, Message.id} /\ m.rx # << >> /\ frame.id = Message.id
    BY <1>3
<1> HIDE DEF c, frame, answer, nothing, ended
<1>9. CASE nothing
    <2>1. /\ DOMAIN m' = BusFields /\ SameMessages /\ m'.packet = m.packet /\ m'.sender = m.sender
          /\ m'.state = "await" /\ m'.timeout = m.timeout - 1 /\ m'.sending = m.sending
          /\ m'.silence = c.silence /\ m'.wire = c.wire /\ log' = log /\ m'.rx = m.rx
        BY <1>1, <1>2, <1>9 DEF BusFields, SameMessages, Later
    <2>2. OnceInv' /\ AnswersInv' /\ Message' = Message
        BY <2>1, MessagesKept
    <2>3. BusType'
        <3>1. m'.sending \in BOOLEAN
            BY <1>6, <2>1
        <3> QED BY <1>4, <1>7, <2>1, <3>1, TypeKept
    <2>4. ProgressInv'
        BY <1>2, <1>5, <2>1 DEF BusInv, ProgressInv, SameMessages
    <2>5. TimeInv'
        BY <1>3, <2>1, <2>2 DEF TimeInv
    <2> QED BY <2>2, <2>3, <2>4, <2>5 DEF BusInv
<1>10. CASE ~nothing /\ m.packet # Sync
    <2>1. /\ DOMAIN m' = BusFields /\ SameMessages /\ m'.packet = Void /\ m'.sender = m.sender
          /\ m'.state = "silent" /\ m'.timeout = m.timeout - 1 /\ m'.sending = m.sending
          /\ m'.silence = Silence /\ m'.wire = c.wire
        <3> DEFINE later == [c EXCEPT !.timeout = @ - 1]
                   got == [later EXCEPT !.silence = Silence, !.rx = Tail(@)]
                   Kept(d) == /\ DOMAIN d = BusFields /\ d.timeout = m.timeout - 1 /\ d.wire = c.wire
                              /\ d.queue = m.queue /\ d.tail = m.tail /\ d.head = m.head
                              /\ d.sync = m.sync /\ d.packet = m.packet
                              /\ d.sender = m.sender /\ d.sending = m.sending
        <3>1. m' = [got EXCEPT !.state = "silent", !.packet = Void]
            BY <1>2, <1>10
        <3>2. Kept(later)
            BY <1>1 DEF Later, BusFields
        <3> HIDE DEF later
        <3>3. Kept(got) /\ got.silence = Silence
            BY <3>2 DEF BusFields
        <3> HIDE DEF got
        <3> QED BY <3>1, <3>3 DEF BusFields, SameMessages
    <2>2. /\ OnceInv' /\ AnswersInv'
          /\ DOMAIN log' = {"sent", "answers", "dropped"} /\ log'.sent = log.sent /\ DOMAIN log'.answers = Ids
        BY <1>2, <1>5, <1>8, <1>10, <2>1, OnceDelivered DEF SameMessages
    <2>3. BusType'
        <3>1. m'.sending \in BOOLEAN
            BY <1>6, <2>1
        <3> QED BY <1>4, <1>7, <2>1, <2>2, <3>1, TypeKept
    <2>4. ProgressInv'
        <3>1. m'.packet \notin Slots /\ m'.packet # Sync /\ m'.sender # "answer" /\ ~m'.sending
            BY <1>5, <1>6, <1>10, <2>1 DEF Void, Sync, Slots, BusAssumptions
        <3> QED BY <2>1, <3>1 DEF ProgressInv
    <2>5. TimeInv'
        BY <1>3, <1>8, <1>10, <2>1 DEF TimeInv
    <2> QED BY <2>2, <2>3, <2>4, <2>5 DEF BusInv
<1>11. CASE ~nothing /\ m.packet = Sync
    <2>1. /\ DOMAIN m' = BusFields /\ SameMessages /\ m'.packet = m.packet /\ m'.sender = m.sender
          /\ m'.state = ended /\ m'.timeout = m.timeout - 1 /\ m'.sending = m.sending
          /\ m'.silence = Silence /\ m'.wire = c.wire /\ m'.rx = m.rx /\ log' = log
        <3> DEFINE later == [c EXCEPT !.timeout = @ - 1]
                   got == [later EXCEPT !.silence = Silence, !.rx = Tail(@)]
                   Kept(d) == /\ DOMAIN d = BusFields /\ d.timeout = m.timeout - 1 /\ d.wire = c.wire
                              /\ d.queue = m.queue /\ d.tail = m.tail /\ d.head = m.head
                              /\ d.sync = m.sync /\ d.packet = m.packet
                              /\ d.sender = m.sender /\ d.sending = m.sending
        <3>1. m' = [got EXCEPT !.state = ended, !.rx = m.rx] /\ log' = log
            BY <1>2, <1>11
        <3>2. Kept(later)
            BY <1>1 DEF Later, BusFields
        <3> HIDE DEF later
        <3>3. Kept(got) /\ got.silence = Silence
            BY <3>2 DEF BusFields
        <3> HIDE DEF got
        <3> QED BY <3>1, <3>3 DEF BusFields, SameMessages
    <2>2. OnceInv' /\ AnswersInv' /\ Message' = Message
        BY <2>1, MessagesKept
    <2>3. BusType'
        <3>1. m'.sending \in BOOLEAN
            BY <1>6, <2>1
        <3> QED BY <1>4, <1>7, <2>1, <3>1, TypeKept
    <2>4. ProgressInv'
        <3>1. ended \in {"exception", "reply"} /\ ~m'.sending /\ m'.packet = Sync
            BY <1>6, <1>11, <2>1 DEF ended
        <3>2. Sync \notin Slots /\ Sync # Void
            BY DEF Void, Sync, Slots, BusAssumptions
        <3> QED BY <1>5, <2>1, <3>1, <3>2 DEF ProgressInv
    <2>5. TimeInv'
        <3>1. ended \in {"exception", "reply"} /\ c.wire = {} /\ frame.id = Message.id
            BY <1>3, <1>8, <1>11 DEF ended
        <3> QED BY <1>4, <2>1, <2>2, <3>1 DEF TimeInv, frame
    <2> QED BY <2>2, <2>3, <2>4, <2>5 DEF BusInv
<1> QED BY <1>9, <1>10, <1>11

LEMMA OutcomeStep ==
    ASSUME BusAssumptions, BusInv, PollOutcome
    PROVE  BusInv'
<1> DEFINE c == Elapsed(m)
<1>1. Later(c)
    BY ElapsedIs DEF BusInv
<1>2. /\ m.state \in {"timeout", "exception", "reply", "retry"} /\ log' = log
      /\ m' = [c EXCEPT !.silence = IF m.state = "timeout" THEN Silence ELSE @]
    BY DEF PollOutcome
<1> HIDE DEF c
<1>3. /\ DOMAIN m' = BusFields /\ SameMessages /\ m'.packet = m.packet /\ m'.sender = m.sender
      /\ m'.state = m.state /\ m'.timeout = m.timeout
      /\ m'.rx = m.rx /\ m'.sending = m.sending /\ m'.wire = c.wire
      /\ m'.silence = (IF m.state = "timeout" THEN Silence ELSE c.silence)
    BY <1>1, <1>2 DEF BusFields, SameMessages, Later
<1>4. OnceInv' /\ AnswersInv' /\ Message' = Message
    BY <1>2, <1>3, MessagesKept
<1>5. m.silence \in Nat /\ Silence \in Nat /\ Lateness \in Nat /\ c.silence \in Nat
    BY <1>1 DEF BusInv, BusType, BusAssumptions, Later
<1>6. BusType'
    BY <1>1, <1>2, <1>3, <1>5 DEF BusInv, BusType, SameMessages, Later
<1>7. ProgressInv'
    BY <1>2, <1>3 DEF BusInv, ProgressInv, SameMessages
<1>8. TimeInv'
    <2>1. \A q \in m.wire : q.age \in Nat
        BY DEF BusInv, BusType, Wire
    <2>2. CASE m.state = "timeout"
        <3>1. \A r \in c.wire : r.age + Silence >= Lateness
            BY <1>1, <1>5, <2>1, <2>2 DEF BusInv, TimeInv, Later
        <3> QED BY <1>3, <2>2, <3>1 DEF TimeInv
    <2>3. CASE m.state \in {"exception", "retry"}
        <3>1. \A r \in c.wire : r.age + c.silence >= Lateness
            BY <1>1, <1>5, <2>1, <2>3 DEF BusInv, TimeInv, Later, Old
        <3>2. m.state = "exception" => c.silence <= Silence
            BY <1>1, <1>5 DEF BusInv, TimeInv, Later
        <3> QED BY <1>3, <2>3, <3>1, <3>2 DEF TimeInv
    <2>4. CASE m.state = "reply"
        BY <1>1, <1>3, <1>4, <2>4 DEF BusInv, TimeInv, Later
    <2> QED BY <1>2, <2>2, <2>3, <2>4
<1> QED BY <1>4, <1>6, <1>7, <1>8 DEF BusInv

\* A new message goes to the head of the queue, which is no slot in use.
LEMMA QueuedStep ==
    ASSUME BusAssumptions, BusInv, SendQueued
    PROVE  BusInv'
<1>0. PICK id : id = log.sent + 1
    OBVIOUS
<1> DEFINE next == Incr(m.head)
<1>1. /\ log.sent \in Nat /\ id \in Nat /\ id <= MaxSends /\ DOMAIN log = {"sent", "answers", "dropped"}
      /\ DOMAIN log.answers = Ids
    BY <1>0 DEF SendQueued, BusInv, BusType, BusAssumptions
<1>2. PICK handled \in BOOLEAN :
        IF m.packet # Sync /\ next # m.tail
        THEN /\ m' = [m EXCEPT !.queue[m.head] = NewMessage(0, handled), !.head = next]
             /\ log' = [log EXCEPT !.sent = id]
        ELSE /\ m' = m
             /\ log' = [log EXCEPT !.sent = id, !.dropped = @ \cup {id}]
    BY <1>0 DEF SendQueued
<1>3. next \in Slots /\ m.head \in Slots /\ m.tail \in Slots
    BY SuccIs DEF BusInv, BusType
<1> DEFINE new == NewMessage(0, handled)
<1>4. new.id = id
    BY <1>0 DEF NewMessage
<1> HIDE DEF next, new
<1>5. /\ DOMAIN log' = {"sent", "answers", "dropped"} /\ log'.answers = log.answers /\ log'.sent = id
    BY <1>1, <1>2
<1>6. AnswersInv' /\ \A n \in Ids : n > log'.sent => log'.answers[n] = << >>
    BY <1>0, <1>1, <1>5 DEF BusInv, AnswersInv, OnceInv, Ids
<1>7. id \in Ids /\ log.answers[id] = << >>
    BY <1>0, <1>1 DEF BusInv, OnceInv, Ids
<1>8. \A n : Unanswered(n) => Unanswered(n)' /\ n # id
    BY <1>0, <1>1, <1>5 DEF Unanswered
<1>9. CASE ~(m.packet # Sync /\ next # m.tail)
    <2>1. m' = m
        BY <1>2, <1>9
    <2>2. OnceInv'
        <3>1. (\A j \in Held : Unanswered(m.queue[j].id))'
            BY <1>8, <2>1 DEF BusInv, OnceInv, Held
        <3>2. (\A i, j \in Held : m.queue[i].id = m.queue[j].id => i = j)'
            BY <2>1 DEF BusInv, OnceInv, Held
        <3>3. (m.sender # "none" => Unanswered(m.sync.id) /\ \A j \in Held : m.queue[j].id # m.sync.id)'
            BY <1>8, <2>1 DEF BusInv, OnceInv, Held
        <3> QED BY <1>6, <3>1, <3>2, <3>3 DEF OnceInv
    <2>3. BusType'
        BY <1>0, <1>1, <1>5, <2>1 DEF BusInv, BusType
    <2>4. ProgressInv' /\ TimeInv'
        BY <2>1 DEF BusInv, ProgressInv, TimeInv, Message
    <2> QED BY <1>6, <2>2, <2>3, <2>4 DEF BusInv
<1>10. CASE m.packet # Sync /\ next # m.tail
    <2>1. /\ DOMAIN m' = BusFields /\ m'.queue = [m.queue EXCEPT ![m.head] = new] /\ m'.head = next
          /\ m'.tail = m.tail /\ m'.sync = m.sync /\ m'.packet = m.packet /\ m'.sender = m.sender
          /\ m'.state = m.state /\ m'.timeout = m.timeout /\ m'.sending = m.sending
          /\ m'.silence = m.silence /\ m'.wire = m.wire /\ m'.rx = m.rx
        BY <1>2, <1>10 DEF BusInv, BusType, BusFields, new
    <2>2. DOMAIN m.queue = Slots
        BY DEF BusInv, BusType
    <2>3. m'.queue[m.head] = new /\ \A j \in Slots : j # m.head => m'.queue[j] = m.queue[j]
        BY <1>3, <2>1, <2>2
    <2>4. m.head \notin Held
        <3>1. m.head \notin Waiting(m.tail, m.head)
            BY <1>3, WaitingIs
        <3>2. m.packet # m.head
            BY <1>3, <1>10 DEF BusInv, ProgressInv, next
        <3> QED BY <3>1, <3>2 DEF Held
    <2>5. \A j \in Held' : j \in Slots /\ (j \in Held \/ j = m.head)
        <3>1. \A j \in Waiting(m.tail, next) : j \in Waiting(m.tail, m.head) \cup {m.head}
            BY <1>3, <1>10, WaitingIs DEF next
        <3>2. \A j \in Waiting(m.tail, next) : j \in Slots
            BY DEF Waiting
        <3> QED BY <2>1, <3>1, <3>2 DEF Held
    <2>6. \A j \in Held' : IF j = m.head THEN m'.queue[j].id = id ELSE j \in Held /\ m'.queue[j].id = m.queue[j].id
        BY <1>4, <2>3, <2>5
    <2>7. OnceInv'
        <3>1. (\A j \in Held : Unanswered(m.queue[j].id))'
            <4>1. Unanswered(id)'
                BY <1>0, <1>1, <1>5, <1>7 DEF Unanswered
            <4> QED BY <1>8, <2>6, <4>1 DEF BusInv, OnceInv
        <3>2. (\A i, j \in Held : m.queue[i].id = m.queue[j].id => i = j)'
            BY <1>8, <2>6 DEF BusInv, OnceInv
        <3>3. (m.sender # "none" => Unanswered(m.sync.id) /\ \A j \in Held : m.queue[j].id # m.sync.id)'
            BY <1>8, <2>1, <2>6 DEF BusInv, OnceInv
        <3> QED BY <1>6, <3>1, <3>2, <3>3 DEF OnceInv
    <2>8. BusType'
        <3>1. DOMAIN m'.queue = Slots
            BY <2>1, <2>2
        <3>2. log'.sent \in 0 .. MaxSends
            BY <1>1, <1>5
        <3> QED BY <1>1, <1>3, <1>5, <2>1, <3>1, <3>2 DEF BusInv, BusType
    <2>9. ProgressInv'
        BY <2>1 DEF BusInv, ProgressInv
    <2>10. TimeInv'
        <3>1. CASE m.packet = Void
            <4>1. m.state \in {"idle", "silent"}
                BY <3>1 DEF BusInv, ProgressInv
            <4> QED BY <2>1, <4>1 DEF BusInv, TimeInv
        <3>2. CASE m.packet # Void
            <4>1. m.packet \in Slots /\ m.packet # m.head
                BY <1>10, <2>4, <3>2 DEF BusInv, BusType, Held
            <4>2. Message' = Message
                BY <1>10, <2>1, <2>3, <4>1 DEF Message
            <4> QED BY <2>1, <4>2 DEF BusInv, TimeInv
        <3> QED BY <3>1, <3>2
    <2> QED BY <1>6, <2>7, <2>8, <2>9, <2>10 DEF BusInv
<1> QED BY <1>9, <1>10

LEMMA BlockingStep ==
    ASSUME BusAssumptions, BusInv, SendBlocking
    PROVE  BusInv'
<1>0. PICK id : id = log.sent + 1
    OBVIOUS
<1>1. /\ log.sent \in Nat /\ id \in Nat /\ id <= MaxSends /\ DOMAIN log = {"sent", "answers", "dropped"}
      /\ DOMAIN log.answers = Ids
    BY <1>0 DEF SendBlocking, BusInv, BusType, BusAssumptions
<1>2. PICK retries \in Retries, handled \in BOOLEAN :
        m' = [m EXCEPT !.sender = "idle", !.sync = NewMessage(retries, handled)]
    BY DEF SendBlocking
<1>3. log' = [log EXCEPT !.sent = id] /\ m.sender = "none"
    BY <1>0 DEF SendBlocking
<1> DEFINE new == NewMessage(retries, handled)
<1>4. new.id = id /\ DOMAIN new = {"id", "retries", "handled"}
    BY <1>0 DEF NewMessage
<1> HIDE DEF new
<1>5. /\ DOMAIN log' = {"sent", "answers", "dropped"} /\ log'.answers = log.answers /\ log'.sent = id
    BY <1>1, <1>3
<1>6. AnswersInv' /\ \A n \in Ids : n > log'.sent => log'.answers[n] = << >>
    BY <1>0, <1>1, <1>5 DEF BusInv, AnswersInv, OnceInv, Ids
<1>7. id \in Ids /\ log.answers[id] = << >>
    BY <1>0, <1>1 DEF BusInv, OnceInv, Ids
<1>8. \A n : Unanswered(n) => Unanswered(n)' /\ n # id
    BY <1>0, <1>1, <1>5 DEF Unanswered
<1>9. /\ DOMAIN m' = BusFields /\ m'.queue = m.queue /\ m'.head = m.head
      /\ m'.tail = m.tail /\ m'.sync = new /\ m'.packet = m.packet /\ m'.sender = "idle"
      /\ m'.state = m.state /\ m'.timeout = m.timeout /\ m'.sending = m.sending
      /\ m'.silence = m.silence /\ m'.wire = m.wire /\ m'.rx = m.rx
    BY <1>2 DEF BusInv, BusType, BusFields, new
<1>10. m.packet # Sync
    BY <1>3 DEF BusInv, ProgressInv
<1>11. OnceInv'
    <2>1. (\A j \in Held : Unanswered(m.queue[j].id))'
        BY <1>8, <1>9 DEF BusInv, OnceInv, Held
    <2>2. (\A i, j \in Held : m.queue[i].id = m.queue[j].id => i = j)'
        BY <1>9 DEF BusInv, OnceInv, Held
    <2>3. Unanswered(id)'
        BY <1>0, <1>1, <1>5, <1>7 DEF Unanswered
    <2>4. (m.sender # "none" => Unanswered(m.sync.id) /\ \A j \in Held : m.queue[j].id # m.sync.id)'
        BY <1>4, <1>8, <1>9, <2>3 DEF BusInv, OnceInv, Held
    <2> QED BY <1>6, <2>1, <2>2, <2>4 DEF OnceInv
<1>12. BusType'
    <2>1. log'.sent \in 0 .. MaxSends
        BY <1>1, <1>5
    <2> QED BY <1>1, <1>4, <1>5, <1>9, <2>1 DEF BusInv, BusType
<1>13. ProgressInv'
    BY <1>9, <1>10 DEF BusInv, ProgressInv
<1>14. TimeInv'
    <2>1. Message' = Message
        BY <1>9, <1>10 DEF Message
    <2> QED BY <1>9, <2>1 DEF BusInv, TimeInv
<1> QED BY <1>6, <1>11, <1>12, <1>13, <1>14 DEF BusInv

\* The blocking message is sent, for the first time or again: nothing young is on the line.
TxSync ==
    /\ DOMAIN m' = BusFields /\ m'.queue = m.queue /\ m'.tail = m.tail /\ m'.head = m.head
    /\ DOMAIN m'.sync = DOMAIN m.sync /\ m'.sync.id = m.sync.id
    /\ m'.packet = Sync /\ m'.state = "tx" /\ m'.timeout = RxTimeout
    /\ m'.rx = << >> /\ m'.sending = TRUE /\ m'.silence = m.silence /\ m'.wire = m.wire
    /\ m'.sender = "answer"

LEMMA SyncSent ==
    ASSUME BusAssumptions, BusInv, log' = log, m.sender # "none", \A r \in m.wire : Old(r), TxSync
    PROVE  BusInv'
<1>1. TxSync
    OBVIOUS
<1>2. Sync \notin Slots /\ Sync # Void
    BY DEF Sync, Slots, Void, BusAssumptions
<1>3. \A j \in Held' : j \in Held /\ m'.queue[j] = m.queue[j]
    BY <1>1, <1>2 DEF Held, TxSync
<1>4. OnceInv' /\ AnswersInv'
    BY <1>1, <1>3, OnceKept DEF TxSync
<1>5. BusType'
    <2>1. DOMAIN m'.sync = {"id", "retries", "handled"} /\ m'.packet \in Slots \cup {Sync, Void}
        BY <1>1 DEF BusInv, BusType, TxSync
    <2>2. m'.timeout \in Nat /\ m'.sending \in BOOLEAN
        BY <1>1 DEF BusAssumptions, TxSync
    <2> QED BY <1>1, <2>1, <2>2 DEF BusInv, BusType, TxSync
<1>6. ProgressInv'
    BY <1>1, <1>2 DEF ProgressInv, TxSync
<1>7. TimeInv'
    <2>1. \A r \in m'.wire : Old(r)
        BY <1>1 DEF TxSync
    <2> QED BY <1>1, <2>1 DEF TimeInv, TxSync
<1> QED BY <1>4, <1>5, <1>6, <1>7 DEF BusInv

LEMMA TurnStep ==
    ASSUME BusAssumptions, BusInv, SenderTurn
    PROVE  BusInv'
<1>1. \A r \in m.wire : Old(r)
    BY DEF SenderTurn, BusInv, TimeInv
<1>2. log' = log /\ m.sender # "none" /\ TxSync
    BY DEF SenderTurn, BusInv, BusType, TxMessage, TxSync, BusFields
<1> QED BY <1>1, <1>2, SyncSent

LEMMA RetriesStep ==
    ASSUME BusAssumptions, BusInv, SenderRetries
    PROVE  BusInv'
<1>1. \A r \in m.wire : Old(r)
    <2>1. \A r \in m.wire : r.age \in Nat /\ r.age + m.silence >= Lateness
        BY DEF SenderRetries, BusInv, TimeInv, BusType, Wire
    <2> QED BY <2>1 DEF SenderRetries, Old
<1> DEFINE c == Retried(m)
<1>2. /\ DOMAIN m = BusFields /\ m.sender = "answer" /\ m' = TxMessage(c, Sync) /\ log' = log
      /\ DOMAIN m.sync = {"id", "retries", "handled"}
    BY DEF SenderRetries, BusInv, BusType
<1>3. /\ DOMAIN c = BusFields /\ DOMAIN c.sync = DOMAIN m.sync /\ c.sync.id = m.sync.id
      /\ c.queue = m.queue /\ c.tail = m.tail /\ c.head = m.head /\ c.silence = m.silence /\ c.wire = m.wire
      /\ c.sender = m.sender
    BY <1>2 DEF Retried, BusFields
<1> HIDE DEF c
<1>4. TxSync
    BY <1>2, <1>3 DEF TxMessage, TxSync, BusFields
<1> QED BY <1>1, <1>2, <1>4, SyncSent

\* The sender returns: the outcome of the last try is final.
LEMMA ReturnedIs ==
    ASSUME BusAssumptions, BusInv, m.sender = "answer", NEW a \in {Refused, Message.id}, Deliver(a),
           \A r \in m.wire : r.age + m.silence >= Lateness, ~m.sending,
           NEW c, DOMAIN c = BusFields, \A f \in BusFields \ {"rx"} : c[f] = m[f], m' = Returned(c)
    PROVE  BusInv'
<1>1. /\ DOMAIN m' = BusFields /\ m'.queue = m.queue /\ m'.tail = m.tail /\ m'.head = m.head
      /\ m'.sync = m.sync /\ m'.packet = Void /\ m'.state = "silent" /\ m'.timeout = m.timeout
      /\ m'.sending = m.sending /\ m'.silence = m.silence /\ m'.wire = m.wire
      /\ m'.sender = "none"
    BY DEF Returned, BusFields
<1>2. m.packet = Sync /\ Sync # Void /\ Void \notin Slots
    BY DEF BusInv, ProgressInv, Sync, Void, Slots, BusAssumptions
<1>3. /\ OnceInv' /\ AnswersInv'
      /\ DOMAIN log' = {"sent", "answers", "dropped"} /\ log'.sent = log.sent /\ DOMAIN log'.answers = Ids
    BY <1>1, <1>2, OnceDelivered
<1>4. BusType'
    BY <1>1, <1>3 DEF BusInv, BusType
<1>5. ProgressInv'
    BY <1>1, <1>2 DEF ProgressInv
<1>6. TimeInv'
    BY <1>1 DEF TimeInv
<1> QED BY <1>3, <1>4, <1>5, <1>6 DEF BusInv

LEMMA FailsStep ==
    ASSUME BusAssumptions, BusInv, SenderFails
    PROVE  BusInv'
<1>1. /\ m.sender = "answer" /\ m.state \in {"timeout", "exception"} /\ m.packet = Sync
      /\ DOMAIN m = BusFields /\ ~m.sending
    BY DEF SenderFails, BusInv, ProgressInv, BusType
<1>2. /\ \A r \in m.wire : r.age \in Nat /\ r.age + m.silence >= Lateness
      /\ m.silence <= Silence /\ m.silence \in Nat /\ Silence \in Nat /\ RetryDelay \in Nat /\ Lateness \in Nat
    BY <1>1 DEF BusInv, TimeInv, BusType, Wire, BusAssumptions
<1>3. CASE m.sync.retries > 0
    <2>1. m' = [m EXCEPT !.state = "retry", !.silence = Silence + RetryDelay] /\ log' = log
        BY <1>3 DEF SenderFails
    <2>2. /\ DOMAIN m' = BusFields /\ SameMessages /\ m'.packet = m.packet /\ m'.sender = m.sender
          /\ m'.state = "retry" /\ m'.timeout = m.timeout /\ m'.sending = m.sending
          /\ m'.silence = Silence + RetryDelay /\ m'.wire = m.wire
        BY <1>1, <2>1 DEF BusFields, SameMessages
    <2>3. OnceInv' /\ AnswersInv'
        BY <2>1, <2>2, MessagesKept
    <2>4. BusType'
        <3>1. m'.silence \in Nat
            BY <1>2, <2>2
        <3> QED BY <2>1, <2>2, <3>1 DEF BusInv, BusType, SameMessages
    <2>5. ProgressInv'
        BY <1>1, <2>2 DEF BusInv, ProgressInv, SameMessages
    <2>6. TimeInv'
        <3>1. \A r \in m.wire : r.age + (Silence + RetryDelay) >= Lateness
            BY <1>2
        <3> QED BY <2>2, <3>1 DEF TimeInv
    <2> QED BY <2>3, <2>4, <2>5, <2>6 DEF BusInv
<1>4. CASE ~(m.sync.retries > 0)
    <2>1. m' = Returned(m) /\ Deliver(Refused)
        BY <1>4 DEF SenderFails
    <2> QED BY <1>1, <1>2, <2>1, ReturnedIs
<1> QED BY <1>3, <1>4

LEMMA GetsStep ==
    ASSUME BusAssumptions, BusInv, SenderGets
    PROVE  BusInv'
<1>1. /\ m.sender = "answer" /\ m.state = "reply" /\ m.packet = Sync /\ m.wire = {} /\ ~m.sending
      /\ Head(m.rx).id = Message.id
    BY DEF SenderGets, BusInv, ProgressInv, TimeInv
<1> DEFINE c == [m EXCEPT !.rx = Tail(m.rx)]
<1>2. Deliver(Message.id) /\ m' = Returned(c)
    BY <1>1 DEF SenderGets
<1>3. DOMAIN c = BusFields /\ \A f \in BusFields \ {"rx"} : c[f] = m[f]
    BY DEF BusInv, BusType, BusFields
<1> HIDE DEF c
<1> QED BY <1>1, <1>2, <1>3, ReturnedIs

LEMMA ResetStep ==
    ASSUME BusAssumptions, BusInv, Reset
    PROVE  BusInv'
<1>1. PICK fault \in BOOLEAN :
        m' = [m EXCEPT !.packet = Void, !.tail = m.head, !.silence = ResetSilence,
                       !.state = "silent", !.sending = FALSE, !.rx = << >>, !.halted = fault]
    BY DEF Reset
<1>2. /\ DOMAIN m' = BusFields /\ m'.queue = m.queue /\ m'.tail = m.head /\ m'.head = m.head
      /\ m'.sync = m.sync /\ m'.packet = Void /\ m'.state = "silent" /\ m'.timeout = m.timeout
      /\ m'.sending = FALSE /\ m'.silence = ResetSilence /\ m'.wire = m.wire
      /\ m'.sender = m.sender /\ m.sender = "none"
    BY <1>1 DEF Reset, BusInv, BusType, BusFields
<1>3. /\ DOMAIN log' = {"sent", "answers", "dropped"} /\ log'.sent = log.sent
      /\ log'.answers = log.answers
    BY DEF Reset, BusInv, BusType
<1>4. Held' = {} /\ Void \notin Slots /\ Sync # Void
    <2>1. m.head \in Slots /\ Waiting(m.head, m.head) = {}
        BY WaitingIs DEF BusInv, BusType
    <2> QED BY <1>2, <2>1 DEF Held, Void, Sync, Slots, BusAssumptions
<1>5. OnceInv' /\ AnswersInv'
    BY <1>2, <1>3, <1>4 DEF BusInv, OnceInv, AnswersInv
<1>6. BusType'
    BY <1>2, <1>3 DEF BusInv, BusType, BusAssumptions
<1>7. ProgressInv'
    BY <1>2, <1>4 DEF ProgressInv
<1>8. TimeInv'
    <2>1. \A r \in m.wire : r.age + ResetSilence >= Lateness
        <3>1. \A r \in m.wire : r.age \in Nat
            BY DEF BusInv, BusType, Wire
        <3> QED BY <3>1 DEF BusAssumptions, Assumptions
    <2> QED BY <1>2, <2>1 DEF TimeInv
<1> QED BY <1>5, <1>6, <1>7, <1>8 DEF BusInv

LEMMA FlushStep ==
    ASSUME BusAssumptions, BusInv, Flush
    PROVE  BusInv'
<1>1. m.packet = Void
    BY DEF Flush, BusAssumptions
<1>2. /\ DOMAIN m' = BusFields /\ m'.queue = m.queue /\ m'.tail = m.head /\ m'.head = m.head
      /\ m'.sync = m.sync /\ m'.packet = Void /\ m'.state = m.state /\ m'.timeout = m.timeout
      /\ m'.sending = m.sending /\ m'.silence = m.silence /\ m'.wire = m.wire /\ m'.rx = m.rx
      /\ m'.sender = m.sender
    BY <1>1 DEF Flush, BusInv, BusType, BusFields
<1>3. /\ DOMAIN log' = {"sent", "answers", "dropped"} /\ log'.sent = log.sent
      /\ log'.answers = log.answers
    BY DEF Flush, BusInv, BusType
<1>4. Held' = {} /\ Void \notin Slots /\ Sync # Void
    <2>1. m.head \in Slots /\ Waiting(m.head, m.head) = {}
        BY WaitingIs DEF BusInv, BusType
    <2> QED BY <1>2, <2>1 DEF Held, Void, Sync, Slots, BusAssumptions
<1>5. OnceInv' /\ AnswersInv'
    <2>1. \A n : Unanswered(n) => Unanswered(n)'
        BY <1>3 DEF Unanswered
    <2> QED BY <1>2, <1>3, <1>4, <2>1 DEF BusInv, OnceInv, AnswersInv
<1>6. BusType'
    BY <1>2, <1>3 DEF BusInv, BusType, BusAssumptions
<1>7. ProgressInv'
    BY <1>1, <1>2, <1>4 DEF BusInv, ProgressInv
<1>8. TimeInv'
    <2>1. m.state \in {"idle", "silent"}
        BY <1>1 DEF BusInv, ProgressInv
    <2> QED BY <1>2, <2>1 DEF BusInv, TimeInv
<1> QED BY <1>5, <1>6, <1>7, <1>8 DEF BusInv

LEMMA TransmittedStep ==
    ASSUME BusAssumptions, BusInv, Transmitted
    PROVE  BusInv'
<1> DEFINE request == [id |-> Message.id, age |-> 0]
<1>1. /\ DOMAIN m' = BusFields /\ SameMessages /\ m'.packet = m.packet
      /\ m'.state = m.state /\ m'.timeout = m.timeout /\ m'.sending = FALSE
      /\ m'.silence = m.silence /\ m'.wire = m.wire \cup {request}
      /\ m'.sender = m.sender /\ log' = log /\ m.sending
    BY DEF Transmitted, BusInv, BusType, BusFields, SameMessages
<1>2. m.state = "tx" /\ m.packet # Void
    BY <1>1 DEF BusInv, ProgressInv
<1>3. OnceInv' /\ AnswersInv' /\ Message' = Message
    BY <1>1, MessagesKept
<1>4. BusType'
    <2>1. request \in Wire
        BY <1>2, MessageIs, UnansweredIs DEF Wire, BusInv
    <2> HIDE DEF request
    <2>2. \A r \in m'.wire : r \in Wire
        BY <1>1, <2>1 DEF BusInv, BusType
    <2> QED BY <1>1, <2>2 DEF BusInv, BusType, SameMessages
<1>5. ProgressInv'
    BY <1>1, <1>2 DEF BusInv, ProgressInv, SameMessages
<1>6. TimeInv'
    <2>1. request.id = Message.id
        OBVIOUS
    <2>2. \A r \in m.wire : Old(r)
        BY <1>1, <1>2 DEF BusInv, TimeInv
    <2> HIDE DEF request
    <2> QED BY <1>1, <1>2, <1>3, <2>1, <2>2 DEF BusInv, TimeInv
<1> QED BY <1>3, <1>4, <1>5, <1>6 DEF BusInv

LEMMA AnswerStep ==
    ASSUME BusAssumptions, BusInv, Answer
    PROVE  BusInv'
<1>1. PICK r \in m.wire, kind \in {"answer", "refusal", "damaged"} :
        m' = [m EXCEPT !.wire = @ \ {r}, !.rx = Append(@, [id |-> r.id, kind |-> kind])]
    BY DEF Answer
<1> DEFINE frame == [id |-> r.id, kind |-> kind]
<1>2. /\ DOMAIN m' = BusFields /\ SameMessages /\ m'.packet = m.packet
      /\ m'.state = m.state /\ m'.timeout = m.timeout /\ m'.sending = m.sending
      /\ m'.silence = m.silence /\ m'.wire = m.wire \ {r} /\ m'.rx = Append(m.rx, frame)
      /\ m'.sender = m.sender /\ log' = log /\ frame.id = r.id
    BY <1>1 DEF Answer, BusInv, BusType, BusFields, SameMessages
<1> HIDE DEF frame
<1>3. OnceInv' /\ AnswersInv' /\ Message' = Message
    BY <1>2, MessagesKept
<1>4. BusType'
    BY <1>2 DEF BusInv, BusType, SameMessages
<1>5. ProgressInv'
    BY <1>2 DEF BusInv, ProgressInv, SameMessages
<1>6. TimeInv'
    <2>1. CASE m.state = "await"
        <3>1. m.rx = << >> /\ r.id = Message.id /\ m.wire \ {r} = {}
            BY <2>1 DEF BusInv, TimeInv
        <3>2. m'.rx = <<frame>> /\ m'.wire = {}
            BY <1>2, <3>1
        <3> QED BY <1>2, <1>3, <2>1, <3>1, <3>2 DEF TimeInv
    <2>2. CASE m.state # "await"
        BY <1>2, <1>3, <2>2 DEF BusInv, TimeInv
    <2> QED BY <2>1, <2>2
<1> QED BY <1>3, <1>4, <1>5, <1>6 DEF BusInv

-----------------------------------------------------------------------------
(* The theorem.                                                            *)

LEMMA BusInitially == ASSUME BusAssumptions, BusInit PROVE BusInv
<1>1. BusType
    BY DEF BusInit, BusType, BusFields, BusAssumptions, Slots, NoMessage, Void
<1>2. Held = {} /\ Void \notin Slots /\ Sync # Void
    <2>1. m.tail = 0 /\ m.head = 0 /\ m.packet = Void /\ 0 \in Slots
        BY DEF BusInit, Slots, BusAssumptions
    <2> QED BY <2>1, WaitingIs DEF Held, Void, Sync, Slots, BusAssumptions
<1>3. ProgressInv /\ TimeInv /\ OnceInv /\ AnswersInv
    BY <1>2 DEF BusInit, ProgressInv, TimeInv, OnceInv, AnswersInv
<1> QED BY <1>1, <1>3 DEF BusInv

LEMMA BusStep == ASSUME BusAssumptions, BusInv, [BusNext]_busVars PROVE BusInv'
<1>1. CASE BusNext
    BY <1>1, IdleStep, SilentStep, SentStep, LateStep, ReplyStep, OutcomeStep, QueuedStep, BlockingStep,
       TurnStep, FailsStep, RetriesStep, GetsStep, ResetStep, FlushStep, TransmittedStep, AnswerStep
       DEF BusNext, Poll, Sender
<1>2. CASE UNCHANGED busVars
    <2>1. m' = m /\ log' = log
        BY <1>2 DEF busVars
    <2>2. OnceInv' /\ AnswersInv' /\ Message' = Message
        BY <2>1, MessagesKept DEF SameMessages
    <2>3. BusType' /\ ProgressInv'
        BY <2>1 DEF BusInv, BusType, ProgressInv
    <2>4. TimeInv'
        BY <2>1, <2>2 DEF BusInv, TimeInv
    <2> QED BY <2>2, <2>3, <2>4 DEF BusInv
<1> QED BY <1>1, <1>2

\* What a message's callback is given is the answer to that message, once, for every queue
\* length and every retry count (modbus_poll, modbus_send_rtu): as long as a device answers
\* before the time-out and the silence after it, or the silence of a reset, are over, and the
\* queue is not flushed while a message waits for its answer.
THEOREM AnswersAreOwn ==
    ASSUME BusAssumptions
    PROVE  BusSpec => []AnswersOwn
<1>1. BusInit => BusInv
    BY BusInitially
<1>2. BusInv /\ [BusNext]_busVars => BusInv'
    BY BusStep
<1>3. BusInv => AnswersOwn
    <2>1. ASSUME NEW n \in Ids, AnswersInv
          PROVE  /\ Len(log.answers[n]) <= 1
                 /\ \A i \in DOMAIN log.answers[n] : log.answers[n][i] \in {Refused, n}
        <3>1. CASE log.answers[n] = << >>
            BY <3>1
        <3>2. CASE log.answers[n] # << >>
            <4>1. PICK a \in {Refused, n} : log.answers[n] = <<a>>
                BY <2>1, <3>2 DEF AnswersInv
            <4> QED BY <4>1
        <3> QED BY <3>1, <3>2
    <2> QED BY <2>1 DEF BusInv, AnswersOwn
<1> QED BY <1>1, <1>2, <1>3, PTL DEF BusSpec

-----------------------------------------------------------------------------
(* The homing cycle.                                                       *)

HomingFields == {"squared", "switch", "offset", "state", "at", "homed", "position", "todo", "cycle", "mode",
                 "passes", "lock", "left", "step", "lag", "squaring", "check", "trigger", "disabled",
                 "complete", "reset", "door", "lost", "limits", "homings"}

Working == {"engaged", "approach", "pulloff", "offset", "delay"}

HomingRecord(c) ==
    /\ DOMAIN c = HomingFields
    /\ c.squared \in BOOLEAN /\ c.switch \in [Motors -> BOOLEAN] /\ c.offset \in {-1, 0, 1}
    /\ c.state \in {"idle", "alarm", "homing"} /\ c.at \in Working \cup {"main", "finish", "aborting"}
    /\ c.homed \subseteq Axes /\ c.position \in [Axes -> Int]
    /\ c.todo \in Seq(SUBSET Axes) /\ c.cycle \subseteq Axes /\ c.lock \subseteq Axes
    /\ c.mode \in {"seek", "pulloff", "locate"} /\ c.passes \in Nat
    /\ c.left \in Nat /\ c.step \in {-1, 0, 1} /\ c.lag \in Nat /\ c.trigger \in Nat
    /\ c.squaring \in {"both", "a", "b"} /\ c.disabled \subseteq Motors
    /\ c.check \in BOOLEAN /\ c.complete \in BOOLEAN /\ c.reset \in BOOLEAN
    /\ c.door \in BOOLEAN /\ c.lost \in BOOLEAN /\ c.limits \in BOOLEAN

HomingType == place \in [Motors -> Int] /\ HomingRecord(homing)

\* Where the cycle is: nothing moves outside of it, and a reset in it is remembered.
PhaseInv ==
    /\ homing.lock \subseteq homing.cycle /\ (homing.squaring # "both" => "x" \in homing.cycle)
    /\ homing.at = "main" <=> homing.state # "homing"
    /\ homing.at = "aborting" => homing.reset
    /\ homing.state = "homing" /\ homing.reset => homing.lost
    /\ homing.complete => homing.left = 0
    /\ homing.at \in {"main", "finish", "delay"} => homing.left = 0 /\ ~homing.complete
    /\ homing.at \in {"main", "finish"} => homing.limits /\ homing.disabled = {} /\ homing.squaring = "both"
    /\ ~homing.squared => /\ place["xa"] = place["xb"] /\ homing.offset = 0
                          /\ homing.disabled = {} /\ homing.squaring = "both"

\* The position of an axis is true, and a squared axis square.
Placed(a) ==
    /\ Near(place[Reference(a)], homing.position[a])
    /\ homing.squared /\ a = "x" => Near(place["xb"], place["xa"] + homing.offset)

\* The axes that are homed are where they were, except for those at work now; after a
\* reset in the cycle they no longer count.
PlacedInv ==
    \A a \in homing.homed : Placed(a) \/ (homing.at \in Working /\ a \in homing.cycle) \/ (homing.reset /\ homing.lost)

\* The motors of an axis that have a switch.
Watched(a) == IF a = "y" THEN {"y"} ELSE IF homing.squared THEN {"xa", "xb"} ELSE {"xa"}
Last == homing.passes < 2 * LocateCycles

\* A motor at its switch, found by steps that were looked at.
Found(n) == homing.switch[n] /\ (homing.mode = "locate" => place[n] \in 1 - LocateLag .. 0)

Passes ==
    CASE homing.mode = "seek"    -> homing.passes = 2 * LocateCycles + 1
      [] homing.mode = "pulloff" -> homing.passes <= 2 * LocateCycles /\ \E k \in 0 .. LocateCycles : homing.passes = 2 * k
      [] homing.mode = "locate"  -> homing.passes < 2 * LocateCycles /\ \E k \in 0 .. LocateCycles : homing.passes = 2 * k + 1

Halted == CASE homing.squaring = "both" -> {} [] homing.squaring = "a" -> {"xa"} [] OTHER -> {"xb"}

EngagedInv ==
    /\ homing.disabled = {} /\ homing.squaring = "both" /\ homing.lock = Squared(homing.cycle) /\ "x" \in homing.cycle

ApproachInv ==
    /\ Passes /\ homing.mode \in {"seek", "locate"} /\ homing.step = -1
    /\ homing.disabled = Halted /\ (Halted # {} => "x" \in homing.cycle)
    /\ homing.mode = "locate" => homing.lag <= LocateLag
    /\ \A a \in homing.cycle : \A n \in Watched(a) :
           IF a \notin homing.lock \/ n \in Halted THEN Found(n)
           ELSE homing.mode = "locate" /\ homing.switch[n] => place[n] >= 1 - homing.lag

PullOffInv ==
    /\ Passes /\ homing.mode = "pulloff" /\ homing.step = 1
    /\ homing.disabled = {} /\ homing.squaring = "both" /\ homing.lock = homing.cycle
    /\ \A a \in homing.cycle : \A n \in Watched(a) :
           homing.switch[n] /\ (Last => place[n] - (Pulloff - homing.left) \in 1 - LocateLag .. 0)

\* After a pass.
DelayInv ==
    /\ Passes /\ homing.disabled = Halted /\ (Halted # {} => "x" \in homing.cycle)
    /\ \A a \in homing.cycle : \A n \in Watched(a) :
           /\ Found(n)
           /\ homing.mode = "pulloff" => place[n] >= 1
           /\ homing.mode = "pulloff" /\ Last => place[n] - Pulloff \in 1 - LocateLag .. 0

\* One motor of two is moved by the offset.
Moved == IF homing.offset < 0 THEN "xa" ELSE "xb"
OffsetInv ==
    /\ homing.squared /\ homing.offset # 0 /\ homing.lock = {"x"} /\ homing.step = 1 /\ homing.left \in 0 .. 1
    /\ homing.squaring = "both" /\ homing.disabled = {"xa", "xb"} \ {Moved}
    /\ \A a \in homing.cycle : \A n \in Watched(a) :
           place[n] - Pulloff - (IF n = Moved THEN 1 - homing.left ELSE 0) \in 1 - LocateLag .. 0

CycleInv ==
    ~homing.reset =>
        /\ homing.at = "engaged" => EngagedInv
        /\ homing.at = "approach" => ApproachInv
        /\ homing.at = "pulloff" => PullOffInv
        /\ homing.at = "delay" => DelayInv
        /\ homing.at = "offset" => OffsetInv

HomingInv == HomingType /\ PhaseInv /\ PlacedInv /\ CycleInv

-----------------------------------------------------------------------------
(* Switches and motions. *)

LEMMA SignalsAre ==
    ASSUME NEW ignored
    PROVE  /\ Signals(ignored) \subseteq Axes
           /\ "y" \in Signals(ignored) <=> "y" \notin ignored /\ Engaged("y")
           /\ "x" \in Signals(ignored) <=> \/ "xa" \notin ignored /\ Engaged("xa")
                                           \/ "xb" \notin ignored /\ Engaged("xb")
BY DEF Signals, Axes, MotorsOf

LEMMA MotorsAre ==
    ASSUME HomingType, NEW a \in Axes
    PROVE  /\ Watched(a) \subseteq MotorsOf(a) /\ MotorsOf(a) \subseteq Motors /\ Reference(a) \in MotorsOf(a)
           /\ \A b \in Axes : b # a => MotorsOf(a) \cap MotorsOf(b) = {}
<1>1. CASE a = "y"
    BY <1>1 DEF Watched, MotorsOf, Motors, Axes, Reference
<1>2. CASE a = "x"
    BY <1>2 DEF Watched, MotorsOf, Motors, Axes, Reference
<1> QED BY <1>1, <1>2 DEF Axes

SameButMotion ==
    /\ homing'.squared = homing.squared /\ homing'.switch = homing.switch
    /\ homing'.offset = homing.offset /\ homing'.state = homing.state /\ homing'.at = homing.at
    /\ homing'.homed = homing.homed /\ homing'.position = homing.position
    /\ homing'.todo = homing.todo /\ homing'.cycle = homing.cycle /\ homing'.mode = homing.mode
    /\ homing'.passes = homing.passes /\ homing'.lock = homing.lock /\ homing'.step = homing.step
    /\ homing'.squaring = homing.squaring /\ homing'.disabled = homing.disabled
    /\ homing'.check = homing.check /\ homing'.reset = homing.reset /\ homing'.door = homing.door
    /\ homing'.lost = homing.lost /\ homing'.limits = homing.limits

\* The steps of the motors of the axes that may step.
LEMMA StepsAre ==
    ASSUME HomingType, PhaseInv, HomingStep
    PROVE  /\ place' \in [Motors -> Int]
           /\ \A n \in Motors : place'[n] = IF n \notin homing.disabled /\ \E a \in homing.lock : n \in MotorsOf(a)
                                            THEN place[n] + homing.step ELSE place[n]
           /\ DOMAIN homing' = HomingFields
           /\ homing.left # 0 /\ homing'.left = homing.left - 1
           /\ homing'.complete \in BOOLEAN /\ (homing'.complete <=> homing.complete \/ homing.left = 1)
           /\ homing'.lag = homing.lag + 1 /\ (homing.mode = "locate" => homing.lag < LocateLag)
           /\ homing'.trigger = IF homing.check THEN homing.trigger + 1 ELSE homing.trigger
           /\ SameButMotion
<1>1. place' \in [Motors -> Int] /\ \A n \in Motors :
          place'[n] = IF n \notin homing.disabled /\ \E a \in homing.lock : n \in MotorsOf(a)
                      THEN place[n] + homing.step ELSE place[n]
    BY DEF HomingStep, HomingType, HomingRecord
<1>2. /\ DOMAIN homing' = HomingFields
      /\ homing'.left = homing.left - 1
      /\ homing'.complete = (homing.complete \/ homing.left = 1)
      /\ homing'.lag = homing.lag + 1
      /\ homing'.trigger = IF homing.check THEN homing.trigger + 1 ELSE homing.trigger
      /\ SameButMotion
    BY DEF HomingStep, HomingType, HomingRecord, HomingFields, SameButMotion
<1>4. homing'.complete \in BOOLEAN /\ (homing'.complete <=> homing.complete \/ homing.left = 1)
    BY <1>2, Zenon
<1>3. homing.left # 0 /\ (homing.mode = "locate" => homing.lag < LocateLag)
    BY DEF HomingStep, HomingType, HomingRecord
<1> QED BY <1>1, <1>2, <1>3, <1>4

LEMMA StepType ==
    ASSUME HomingAssumption, HomingInv, HomingStep
    PROVE  HomingType' /\ PhaseInv'
<1> USE DEF HomingInv
<1>1. HomingType /\ PhaseInv /\ HomingStep
    OBVIOUS
<1>2. /\ place' \in [Motors -> Int]
      /\ DOMAIN homing' = HomingFields
      /\ homing.left # 0 /\ homing'.left = homing.left - 1
      /\ homing'.complete \in BOOLEAN /\ (homing'.complete <=> homing.complete \/ homing.left = 1)
      /\ homing'.lag = homing.lag + 1
      /\ homing'.trigger = IF homing.check THEN homing.trigger + 1 ELSE homing.trigger
      /\ SameButMotion
    BY <1>1, StepsAre
<1>3. homing'.left \in Nat /\ homing'.lag \in Nat /\ homing'.trigger \in Nat
    <2>1. homing.left \in Nat /\ homing.lag \in Nat /\ homing.trigger \in Nat
        BY <1>1 DEF HomingType, HomingRecord
    <2>2. homing'.left \in Nat
        BY <1>2, <2>1
    <2>3. homing'.lag \in Nat
        BY <1>2, <2>1
    <2>4. homing'.trigger \in Nat
        BY <1>2, <2>1
    <2> QED BY <2>2, <2>3, <2>4
<1>5. HomingType'
    BY <1>1, <1>2, <1>3 DEF HomingType, HomingRecord, SameButMotion
<1>6. homing'.complete => homing'.left = 0
    BY <1>1, <1>2 DEF PhaseInv, HomingType, HomingRecord
<1>7. homing.at \notin {"main", "finish", "delay"}
    BY <1>1, <1>2 DEF PhaseInv
<1>8. ~homing.squared => place'["xa"] = place'["xb"]
    <2>1. \A n \in Motors : place'[n] = IF n \notin homing.disabled /\ \E a \in homing.lock : n \in MotorsOf(a)
                                        THEN place[n] + homing.step ELSE place[n]
        BY <1>1, StepsAre
    <2>2. ASSUME ~homing.squared
          PROVE  place["xa"] = place["xb"] /\ homing.disabled = {}
        BY <1>1, <2>2 DEF PhaseInv
    <2> QED BY <2>1, <2>2 DEF Motors, MotorsOf
<1>9. PhaseInv'
    BY <1>1, <1>2, <1>6, <1>7, <1>8 DEF PhaseInv, SameButMotion
<1> QED BY <1>5, <1>9

\* An axis steps with its motors, unless one of them waits.
LEMMA MotorSteps ==
    ASSUME HomingType, PhaseInv, HomingStep, NEW a \in Axes, NEW n \in MotorsOf(a)
    PROVE  place'[n] = IF a \in homing.lock /\ n \notin homing.disabled THEN place[n] + homing.step ELSE place[n]
<1>1. n \in Motors /\ \A b \in Axes : n \in MotorsOf(b) => b = a
    BY DEF Motors, MotorsOf, Axes
<1>2. homing.lock \subseteq Axes
    BY DEF HomingType, HomingRecord
<1>3. place'[n] = IF n \notin homing.disabled /\ \E b \in homing.lock : n \in MotorsOf(b)
                  THEN place[n] + homing.step ELSE place[n]
    BY <1>1, StepsAre
<1> QED BY <1>1, <1>2, <1>3

LEMMA StepPlaced ==
    ASSUME HomingInv, HomingStep
    PROVE  PlacedInv'
<1>1. HomingType /\ PhaseInv /\ PlacedInv
    BY DEF HomingInv
<1>2. SameButMotion /\ homing.left # 0
    BY <1>1, StepsAre
<1>3. SUFFICES ASSUME NEW a \in homing.homed
               PROVE  Placed(a)' \/ (homing.at \in Working /\ a \in homing.cycle) \/ (homing.reset /\ homing.lost)
    BY <1>2 DEF PlacedInv, SameButMotion
<1>4. CASE Placed(a) /\ a \notin homing.cycle
    <2>1. a \in Axes /\ a \notin homing.lock
        BY <1>1, <1>4 DEF HomingType, HomingRecord, PhaseInv
    <2>2. \A n \in MotorsOf(a) : place'[n] = place[n]
        BY <1>1, <2>1, MotorSteps
    <2>3. Reference(a) \in MotorsOf(a) /\ Reference(a)' = Reference(a) /\ (a = "x" => {"xa", "xb"} \subseteq MotorsOf(a))
        BY <1>1, <1>2, <2>1, MotorsAre DEF Reference, SameButMotion, MotorsOf
    <2>4. place'[Reference(a)'] = place[Reference(a)] /\ (a = "x" => place'["xa"] = place["xa"] /\ place'["xb"] = place["xb"])
        BY <2>2, <2>3
    <2> QED BY <1>2, <1>4, <2>4 DEF Placed, Near, SameButMotion
<1>5. CASE homing.at \in Working /\ a \in homing.cycle
    BY <1>5
<1>6. CASE homing.at \notin Working
    BY <1>1, <1>2, <1>6 DEF PhaseInv, HomingType, HomingRecord
<1> QED BY <1>1, <1>4, <1>5, <1>6 DEF PlacedInv

LEMMA StepCycle ==
    ASSUME HomingAssumption, HomingInv, HomingStep
    PROVE  CycleInv'
<1>1. HomingType /\ PhaseInv /\ HomingStep /\ LocateLag \in Nat /\ LocateCycles \in Nat /\ Pulloff \in Nat
    BY DEF HomingInv, HomingAssumption
<1>2. /\ SameButMotion /\ homing.left # 0 /\ homing'.left = homing.left - 1 /\ homing'.lag = homing.lag + 1
      /\ homing.mode = "locate" => homing.lag < LocateLag
    BY <1>1, StepsAre
<1>3. ASSUME NEW a \in Axes, NEW n \in Watched(a)
      PROVE  /\ n \in Motors /\ place[n] \in Int /\ place'[n] \in Int
             /\ place'[n] = IF a \in homing.lock /\ n \notin homing.disabled THEN place[n] + homing.step ELSE place[n]
    <2>1. n \in MotorsOf(a) /\ n \in Motors
        BY <1>1, MotorsAre
    <2>2. place[n] \in Int /\ place'[n] \in Int
        BY <1>1, <2>1, StepsAre DEF HomingType, HomingRecord
    <2> QED BY <1>1, <2>1, <2>2, MotorSteps
<1>4. homing.cycle \subseteq Axes /\ homing.left \in Nat /\ homing.lag \in Nat
    BY <1>1 DEF HomingType, HomingRecord
<1>5. (\A a : Watched(a)' = Watched(a)) /\ Halted' = Halted /\ Passes' = Passes /\ Last' = Last /\ Moved' = Moved
    BY <1>2 DEF Watched, Halted, Passes, Last, Moved, SameButMotion
<1>6. ASSUME ~homing.reset, homing.at = "engaged", EngagedInv
      PROVE  EngagedInv'
    BY <1>2, <1>6 DEF EngagedInv, SameButMotion, Squared
<1>7. ASSUME ~homing.reset, homing.at = "approach", ApproachInv
      PROVE  ApproachInv'
    <2>1. ASSUME NEW a \in homing.cycle, NEW n \in Watched(a)
          PROVE  IF a \notin homing.lock \/ n \in Halted THEN Found(n)'
                 ELSE homing.mode = "locate" /\ homing.switch[n] => place'[n] >= 1 - homing'.lag
        <3>1. IF a \notin homing.lock \/ n \in homing.disabled THEN Found(n)
              ELSE homing.mode = "locate" /\ homing.switch[n] => place[n] >= 1 - homing.lag
            BY <1>7, <2>1 DEF ApproachInv
        <3>2. /\ homing.disabled = Halted /\ homing.step = -1 /\ place[n] \in Int
              /\ place'[n] = IF a \in homing.lock /\ n \notin homing.disabled THEN place[n] + homing.step ELSE place[n]
            BY <1>3, <1>4, <1>7, <2>1 DEF ApproachInv
        <3>3. CASE a \notin homing.lock \/ n \in homing.disabled
            BY <1>2, <3>1, <3>2, <3>3 DEF Found, SameButMotion
        <3>4. CASE ~(a \notin homing.lock \/ n \in homing.disabled)
            BY <1>2, <1>4, <3>1, <3>2, <3>4
        <3> QED BY <3>2, <3>3, <3>4
    <2>2. homing.mode = "locate" => homing'.lag <= LocateLag
        BY <1>1, <1>2, <1>4
    <2> QED BY <1>2, <1>5, <1>7, <2>1, <2>2 DEF ApproachInv, SameButMotion
<1>8. ASSUME ~homing.reset, homing.at = "pulloff", PullOffInv
      PROVE  PullOffInv'
    <2>1. ASSUME NEW a \in homing.cycle, NEW n \in Watched(a)
          PROVE  homing.switch[n] /\ (Last => place'[n] - (Pulloff - homing'.left) \in 1 - LocateLag .. 0)
        <3>1. homing.switch[n] /\ (Last => place[n] - (Pulloff - homing.left) \in 1 - LocateLag .. 0)
            BY <1>8, <2>1 DEF PullOffInv
        <3>2. place'[n] = place[n] + 1 /\ place[n] \in Int
            BY <1>3, <1>4, <1>8, <2>1 DEF PullOffInv
        <3>3. place'[n] - (Pulloff - homing'.left) = place[n] - (Pulloff - homing.left)
            <4>1. Pulloff \in Int /\ homing.left \in Int /\ homing'.left = homing.left - 1
                BY <1>1, <1>2, <1>4
            <4> QED BY <3>2, <4>1
        <3> QED BY <3>1, <3>3, Zenon
    <2> QED BY <1>2, <1>5, <1>8, <2>1 DEF PullOffInv, SameButMotion
<1>9. homing.at # "delay"
    BY <1>1, <1>2 DEF PhaseInv
<1>10. ASSUME ~homing.reset, homing.at = "offset", OffsetInv
       PROVE  OffsetInv'
    <2>0. homing'.left \in 0 .. 1
        BY <1>2, <1>4, <1>10 DEF OffsetInv
    <2>1. ASSUME NEW a \in homing.cycle, NEW n \in Watched(a)
          PROVE  place'[n] - Pulloff - (IF n = Moved THEN 1 - homing'.left ELSE 0) \in 1 - LocateLag .. 0
        <3>1. place[n] - Pulloff - (IF n = Moved THEN 1 - homing.left ELSE 0) \in 1 - LocateLag .. 0
            BY <1>10, <2>1 DEF OffsetInv
        <3>2. /\ a \in homing.lock /\ n \notin homing.disabled <=> n = Moved
              /\ homing.step = 1
            BY <1>4, <1>10, <2>1 DEF OffsetInv, Moved, Watched, Axes
        <3>3. place[n] \in Int /\ place'[n] = IF n = Moved THEN place[n] + 1 ELSE place[n]
            BY <1>3, <1>4, <2>1, <3>2
        <3>4. place'[n] - Pulloff - (IF n = Moved THEN 1 - homing'.left ELSE 0)
                = place[n] - Pulloff - (IF n = Moved THEN 1 - homing.left ELSE 0)
            BY <1>1, <1>2, <1>4, <3>3
        <3> QED BY <3>1, <3>4
    <2> QED BY <1>2, <1>5, <1>10, <2>0, <2>1 DEF OffsetInv, SameButMotion
<1> QED BY <1>2, <1>6, <1>7, <1>8, <1>9, <1>10 DEF CycleInv, HomingInv, SameButMotion

-----------------------------------------------------------------------------
(* What the operators of the cycle make of a record. *)

SameMachine(r, c) == r.squared = c.squared /\ r.switch = c.switch /\ r.offset = c.offset
SameFlags(r, c) ==
    r.state = c.state /\ r.homed = c.homed /\ r.reset = c.reset /\ r.door = c.door /\ r.lost = c.lost /\ r.complete = c.complete
SameSquaring(r, c) ==
    r.squaring = c.squaring /\ r.check = c.check /\ r.trigger = c.trigger /\ r.disabled = c.disabled
SameCycle(r, c) == r.todo = c.todo /\ r.cycle = c.cycle /\ r.limits = c.limits
SamePass(r, c) == r.mode = c.mode /\ r.passes = c.passes /\ r.position = c.position
SameMotion(r, c) == r.at = c.at /\ r.lock = c.lock /\ r.left = c.left /\ r.step = c.step /\ r.lag = c.lag

LEMMA MotionIs ==
    ASSUME NEW c, DOMAIN c = HomingFields, NEW at, NEW axes, NEW distance, NEW step, NEW r, r = Motion(c, at, axes, distance, step)
    PROVE  /\ DOMAIN r = HomingFields
           /\ r.at = at /\ r.lock = axes /\ r.left = distance /\ r.step = step /\ r.lag = 0
           /\ SameMachine(r, c) /\ SameFlags(r, c) /\ SameSquaring(r, c) /\ SameCycle(r, c) /\ SamePass(r, c)
BY DEF Motion, HomingFields, SameMachine, SameFlags, SameSquaring, SameCycle, SamePass

LEMMA PassIs ==
    ASSUME HomingAssumption, NEW c, HomingRecord(c), NEW mode \in {"seek", "pulloff", "locate"}, NEW r, r = Pass(c, mode)
    PROVE  /\ DOMAIN r = HomingFields
           /\ mode = "pulloff" => r.at = "pulloff" /\ r.step = 1 /\ r.left = Pulloff
           /\ mode # "pulloff" => r.at = "approach" /\ r.step = -1
           /\ r.lock = c.cycle /\ r.left \in Nat /\ r.lag = 0
           /\ r.mode = mode /\ r.passes = c.passes
           /\ r.position \in [Axes -> Int] /\ \A a \in Axes \ c.cycle : r.position[a] = c.position[a]
           /\ SameMachine(r, c) /\ SameFlags(r, c) /\ SameSquaring(r, c) /\ SameCycle(r, c)
<1> DEFINE d == [c EXCEPT !.mode = mode, !.position = [a \in Axes |-> IF a \in c.cycle THEN 0 ELSE @[a]]]
<1>1. /\ DOMAIN d = HomingFields /\ d.mode = mode /\ d.passes = c.passes
      /\ d.position = [a \in Axes |-> IF a \in c.cycle THEN 0 ELSE c.position[a]]
      /\ SameMachine(d, c) /\ SameFlags(d, c) /\ SameSquaring(d, c) /\ SameCycle(d, c)
    BY DEF HomingRecord, HomingFields, SameMachine, SameFlags, SameSquaring, SameCycle
<1>2. d.position \in [Axes -> Int] /\ \A a \in Axes \ c.cycle : d.position[a] = c.position[a]
    BY <1>1 DEF HomingRecord
<1>3. /\ mode = "seek" => r = Motion(d, "approach", c.cycle, Search, -1)
      /\ mode = "pulloff" => r = Motion(d, "pulloff", c.cycle, Pulloff, 1)
      /\ mode = "locate" => r = Motion(d, "approach", c.cycle, Pulloff * LocateScalar, -1)
    BY DEF Pass
<1> HIDE DEF d
<1>4. Search \in Nat /\ Pulloff \in Nat /\ Pulloff * LocateScalar \in Nat
    BY DEF HomingAssumption
<1>5. PICK at, distance, step :
          /\ r = Motion(d, at, c.cycle, distance, step) /\ distance \in Nat
          /\ at = (IF mode = "pulloff" THEN "pulloff" ELSE "approach")
          /\ step = (IF mode = "pulloff" THEN 1 ELSE -1) /\ (mode = "pulloff" => distance = Pulloff)
    <2>1. CASE mode = "seek"
        BY <1>3, <1>4, <2>1
    <2>2. CASE mode = "pulloff"
        BY <1>3, <1>4, <2>2
    <2>3. CASE mode = "locate"
        BY <1>3, <1>4, <2>3
    <2> QED BY <2>1, <2>2, <2>3
<1>6. /\ DOMAIN r = HomingFields
      /\ r.at = at /\ r.lock = c.cycle /\ r.left = distance /\ r.step = step /\ r.lag = 0
      /\ SameMachine(r, d) /\ SameFlags(r, d) /\ SameSquaring(r, d) /\ SameCycle(r, d) /\ SamePass(r, d)
    BY <1>1, <1>5, MotionIs
<1> QED BY <1>1, <1>2, <1>5, <1>6 DEF SameMachine, SameFlags, SameSquaring, SameCycle, SamePass

LEMMA FirstPassIs ==
    ASSUME HomingAssumption, NEW c, HomingRecord(c), NEW r, r = FirstPass(c)
    PROVE  /\ DOMAIN r = HomingFields
           /\ r.at = "approach" /\ r.lock = c.cycle /\ r.left \in Nat /\ r.step = -1 /\ r.lag = 0
           /\ r.mode = "seek" /\ r.passes = 2 * LocateCycles + 1
           /\ r.position \in [Axes -> Int] /\ \A a \in Axes \ c.cycle : r.position[a] = c.position[a]
           /\ SameMachine(r, c) /\ SameFlags(r, c) /\ SameSquaring(r, c) /\ SameCycle(r, c)
<1> DEFINE d == [c EXCEPT !.passes = 2 * LocateCycles + 1]
<1>1. /\ DOMAIN d = HomingFields /\ d.passes = 2 * LocateCycles + 1 /\ SameMotion(d, c)
      /\ d.mode = c.mode /\ d.position = c.position
      /\ SameMachine(d, c) /\ SameFlags(d, c) /\ SameSquaring(d, c) /\ SameCycle(d, c)
    BY DEF HomingRecord, HomingFields, SameMachine, SameFlags, SameSquaring, SameCycle, SameMotion
<1>2. r = Pass(d, "seek") /\ 2 * LocateCycles + 1 \in Nat
    BY DEF FirstPass, HomingAssumption
<1> HIDE DEF d
<1>3. HomingRecord(d)
    BY <1>1, <1>2 DEF HomingRecord, SameMachine, SameFlags, SameSquaring, SameCycle, SameMotion
<1>4. /\ DOMAIN r = HomingFields
      /\ r.at = "approach" /\ r.lock = d.cycle /\ r.left \in Nat /\ r.step = -1 /\ r.lag = 0
      /\ r.mode = "seek" /\ r.passes = d.passes
      /\ r.position \in [Axes -> Int] /\ \A a \in Axes \ d.cycle : r.position[a] = d.position[a]
      /\ SameMachine(r, d) /\ SameFlags(r, d) /\ SameSquaring(r, d) /\ SameCycle(r, d)
    <2> DEFINE mode == "seek"
    <2>1. mode \in {"seek", "pulloff", "locate"} /\ mode # "pulloff" /\ mode = "seek" /\ r = Pass(d, mode)
        BY <1>2
    <2> HIDE DEF mode
    <2> QED BY <1>3, <2>1, PassIs
<1>5. d.cycle = c.cycle
    BY <1>1 DEF SameCycle
<1> QED BY <1>1, <1>4, <1>5 DEF SameMachine, SameFlags, SameSquaring, SameCycle

\* An axis is where a record says it is.
At(a, position) ==
    /\ Near(place[Reference(a)], position)
    /\ homing.squared /\ a = "x" => Near(place["xb"], place["xa"] + homing.offset)

PlacedAt(c, a) == At(a, c.position[a])

\* A cycle in progress, with what is known of its motors.
InCycle(c) ==
    /\ HomingRecord(c) /\ SameMachine(c, homing) /\ c.state = "homing" /\ ~c.complete
    /\ c.reset => c.lost
    /\ c.squaring = "both"

LEMMA BeginKept ==
    ASSUME HomingAssumption, HomingType, PhaseInv, NEW c, InCycle(c), c.disabled = {}, c.todo # << >>,
           \A a \in c.homed : PlacedAt(c, a) \/ (c.reset /\ c.lost),
           place' = place, homing' = Begin(c)
    PROVE  HomingInv'
<1> DEFINE d == [c EXCEPT !.cycle = Head(c.todo), !.todo = Tail(c.todo), !.limits = FALSE]
           engaged == Squared(d.cycle) \cap AllSignals # {}
<1>1. HomingRecord(c)
    BY DEF InCycle
<1>2. /\ DOMAIN d = HomingFields /\ d.cycle = Head(c.todo) /\ d.todo = Tail(c.todo) /\ d.limits = FALSE
      /\ SameMachine(d, c) /\ SameFlags(d, c) /\ SameSquaring(d, c) /\ SamePass(d, c) /\ SameMotion(d, c)
    BY <1>1 DEF HomingRecord, HomingFields, SameMachine, SameFlags, SameSquaring, SamePass, SameMotion
<1>3. homing' = IF engaged THEN Motion(d, "engaged", Squared(d.cycle), Pulloff * LocateScalar, 1) ELSE FirstPass(d)
    BY DEF Begin
<1> HIDE DEF d
<1>4. d.cycle \subseteq Axes /\ d.todo \in Seq(SUBSET Axes)
    BY <1>1, <1>2 DEF HomingRecord
<1>5. Pulloff * LocateScalar \in Nat /\ 2 * LocateCycles + 1 \in Nat /\ LocateCycles \in Nat
    BY DEF HomingAssumption
<1>6. /\ DOMAIN homing' = HomingFields /\ homing'.at = IF engaged THEN "engaged" ELSE "approach"
      /\ homing'.lock = (IF engaged THEN Squared(d.cycle) ELSE d.cycle)
      /\ homing'.left \in Nat /\ homing'.step = (IF engaged THEN 1 ELSE -1) /\ homing'.lag = 0
      /\ homing'.mode = (IF engaged THEN d.mode ELSE "seek")
      /\ homing'.passes = (IF engaged THEN d.passes ELSE 2 * LocateCycles + 1)
      /\ homing'.position \in [Axes -> Int] /\ \A a \in Axes \ d.cycle : homing'.position[a] = d.position[a]
      /\ SameMachine(homing', d) /\ SameFlags(homing', d) /\ SameSquaring(homing', d) /\ SameCycle(homing', d)
    <2>1. CASE engaged
        <3>1. homing' = Motion(d, "engaged", Squared(d.cycle), Pulloff * LocateScalar, 1)
            BY <1>3, <2>1
        <3>2. /\ DOMAIN homing' = HomingFields
              /\ homing'.at = "engaged" /\ homing'.lock = Squared(d.cycle) /\ homing'.left = Pulloff * LocateScalar
              /\ homing'.step = 1 /\ homing'.lag = 0
              /\ SameMachine(homing', d) /\ SameFlags(homing', d) /\ SameSquaring(homing', d) /\ SameCycle(homing', d)
              /\ SamePass(homing', d)
            BY <1>2, <3>1, MotionIs
        <3>3. d.position \in [Axes -> Int]
            BY <1>1, <1>2 DEF HomingRecord, SamePass
        <3> QED BY <1>5, <2>1, <3>2, <3>3 DEF SamePass
    <2>2. CASE ~engaged
        <3>1. homing' = FirstPass(d)
            BY <1>3, <2>2
        <3>2. HomingRecord(d)
            BY <1>1, <1>2, <1>4 DEF HomingRecord, SameMachine, SameFlags, SameSquaring, SamePass, SameMotion
        <3> QED BY <2>2, <3>1, <3>2, FirstPassIs
    <2> QED BY <2>1, <2>2
<1>7. /\ homing'.squared = homing.squared /\ homing'.switch = homing.switch /\ homing'.offset = homing.offset
      /\ homing'.state = "homing" /\ homing'.homed = c.homed /\ homing'.disabled = {} /\ homing'.squaring = "both"
      /\ homing'.reset = c.reset /\ homing'.lost = c.lost /\ (c.reset => c.lost)
      /\ homing'.door = c.door /\ homing'.check = c.check /\ homing'.trigger = c.trigger
      /\ homing'.complete = c.complete /\ ~c.complete
      /\ homing'.cycle = d.cycle /\ homing'.todo = d.todo /\ homing'.limits = FALSE
    BY <1>2, <1>6 DEF InCycle, SameMachine, SameFlags, SameSquaring, SameCycle
<1>8. homing'.mode \in {"seek", "pulloff", "locate"} /\ homing'.passes \in Nat /\ homing'.lock \subseteq homing'.cycle
    <2>1. d.mode \in {"seek", "pulloff", "locate"} /\ d.passes \in Nat
        BY <1>1, <1>2 DEF HomingRecord, SamePass
    <2>2. Squared(d.cycle) \subseteq d.cycle
        BY DEF Squared
    <2> QED BY <1>5, <1>6, <1>7, <2>1, <2>2
<1>9. HomingType'
    <2>1. homing'.at \in Working /\ homing'.step \in {-1, 0, 1} /\ homing'.lag \in Nat /\ homing'.left \in Nat
        BY <1>6 DEF Working
    <2>2. homing'.lock \subseteq Axes
        BY <1>4, <1>7, <1>8
    <2>3. HomingRecord(homing)'
        BY <1>1, <1>4, <1>6, <1>7, <1>8, <2>1, <2>2 DEF HomingType, HomingRecord
    <2> QED BY <2>3 DEF HomingType
<1>10. PhaseInv'
    <2>1. ~homing.squared => place["xa"] = place["xb"] /\ homing.offset = 0
        BY DEF PhaseInv
    <2> QED BY <1>6, <1>7, <1>8, <2>1 DEF PhaseInv
<1>11. PlacedInv'
    <2> SUFFICES ASSUME NEW a \in c.homed
                 PROVE  \/ Placed(a)' \/ (homing'.at \in Working /\ a \in homing'.cycle)
                        \/ (homing'.reset /\ homing'.lost)
        BY <1>7 DEF PlacedInv
    <2>1. CASE a \in d.cycle
        BY <1>6, <1>7, <2>1 DEF Working
    <2>2. CASE a \notin d.cycle /\ PlacedAt(c, a)
        <3>1. a \in Axes /\ homing'.position[a] = c.position[a]
            BY <1>1, <1>2, <1>6, <2>2 DEF HomingRecord, SamePass
        <3>2. Reference(a)' = Reference(a)
            BY <1>7 DEF Reference
        <3> QED BY <1>7, <2>2, <3>1, <3>2 DEF Placed, PlacedAt, At, Near
    <2> QED BY <1>7, <2>1, <2>2
<1>12. CycleInv'
    <2>1. engaged => EngagedInv'
        BY <1>6, <1>7 DEF EngagedInv, Squared
    <2>2. ~engaged => ApproachInv'
        <3>1. Halted' = {}
            BY <1>7 DEF Halted
        <3> QED BY <1>5, <1>6, <1>7, <3>1 DEF ApproachInv, Passes
    <2> QED BY <1>6, <2>1, <2>2 DEF CycleInv
<1> QED BY <1>9, <1>10, <1>11, <1>12 DEF HomingInv

LEMMA LocatedKept ==
    ASSUME HomingAssumption, HomingType, PhaseInv, NEW c, InCycle(c), c.lock \subseteq c.cycle,
           \A a \in c.homed : a \in c.cycle \/ PlacedAt(c, a) \/ (c.reset /\ c.lost),
           \A a \in c.cycle : At(a, Pulloff) \/ (c.reset /\ c.lost),
           place' = place, homing' = Located(c)
    PROVE  HomingInv'
<1> DEFINE d == [c EXCEPT !.homed = c.homed \cup c.cycle, !.left = 0, !.disabled = {},
                          !.position = [a \in Axes |-> IF a \in c.cycle THEN Pulloff ELSE c.position[a]]]
<1>1. HomingRecord(c) /\ Pulloff \in Nat
    BY DEF InCycle, HomingAssumption
<1>2. /\ DOMAIN d = HomingFields /\ d.homed = c.homed \cup c.cycle /\ d.left = 0 /\ d.disabled = {}
      /\ d.position = [a \in Axes |-> IF a \in c.cycle THEN Pulloff ELSE c.position[a]]
      /\ SameMachine(d, c) /\ SameCycle(d, c)
      /\ d.state = c.state /\ d.reset = c.reset /\ d.door = c.door /\ d.lost = c.lost /\ d.complete = c.complete
      /\ d.squaring = c.squaring /\ d.check = c.check /\ d.trigger = c.trigger
      /\ d.at = c.at /\ d.lock = c.lock /\ d.step = c.step /\ d.lag = c.lag
      /\ d.mode = c.mode /\ d.passes = c.passes
    BY <1>1 DEF HomingRecord, HomingFields, SameMachine, SameCycle
<1>3. homing' = IF d.todo # << >> THEN Begin(d) ELSE [d EXCEPT !.at = "finish", !.limits = TRUE]
    BY DEF Located
<1> HIDE DEF d
<1>4. d.position \in [Axes -> Int] /\ \A a \in Axes : d.position[a] = IF a \in c.cycle THEN Pulloff ELSE c.position[a]
    BY <1>1, <1>2 DEF HomingRecord
<1>5. HomingRecord(d)
    BY <1>1, <1>2, <1>4 DEF HomingRecord, SameMachine, SameCycle
<1>6. InCycle(d)
    BY <1>2, <1>5 DEF InCycle, SameMachine
<1>7. ASSUME NEW a \in d.homed
      PROVE  PlacedAt(d, a) \/ (d.reset /\ d.lost)
    <2>1. a \in Axes
        BY <1>5, <1>7 DEF HomingRecord
    <2>2. CASE a \in c.cycle
        BY <1>2, <1>4, <2>1, <2>2 DEF PlacedAt
    <2>3. CASE a \notin c.cycle
        BY <1>2, <1>4, <1>7, <2>1, <2>3 DEF PlacedAt
    <2> QED BY <2>2, <2>3
<1>8. CASE d.todo # << >>
    BY <1>2, <1>3, <1>6, <1>7, <1>8, BeginKept
<1>9. CASE d.todo = << >>
    <2>1. homing' = [d EXCEPT !.at = "finish", !.limits = TRUE]
        BY <1>3, <1>9
    <2>2. /\ DOMAIN homing' = HomingFields /\ homing'.at = "finish" /\ homing'.limits = TRUE
          /\ SameMachine(homing', d) /\ SameFlags(homing', d) /\ SameSquaring(homing', d) /\ SamePass(homing', d)
          /\ homing'.todo = d.todo /\ homing'.cycle = d.cycle
          /\ homing'.lock = d.lock /\ homing'.left = d.left /\ homing'.step = d.step /\ homing'.lag = d.lag
        BY <1>2, <2>1 DEF HomingFields, SameMachine, SameFlags, SameSquaring, SamePass
    <2>3. /\ homing'.squared = homing.squared /\ homing'.switch = homing.switch /\ homing'.offset = homing.offset
          /\ homing'.state = "homing" /\ homing'.homed = d.homed /\ homing'.disabled = {} /\ homing'.squaring = "both"
          /\ homing'.reset = d.reset /\ homing'.lost = d.lost /\ (d.reset => d.lost)
          /\ homing'.door = d.door /\ homing'.check = d.check /\ homing'.trigger = d.trigger
          /\ homing'.complete = d.complete /\ ~d.complete /\ homing'.left = 0 /\ homing'.position = d.position
          /\ homing'.lock \subseteq homing'.cycle /\ homing'.mode = d.mode /\ homing'.passes = d.passes
        BY <1>2, <1>6, <2>2 DEF InCycle, SameMachine, SameFlags, SameSquaring, SamePass, SameCycle
    <2>4. HomingType'
        <3>0. homing'.at \in Working \cup {"main", "finish", "aborting"}
            BY <2>2
        <3>1. HomingRecord(homing)'
            BY <1>5, <2>2, <2>3, <3>0 DEF HomingType, HomingRecord
        <3> QED BY <3>1 DEF HomingType
    <2>5. PhaseInv'
        <3>1. ~homing.squared => place["xa"] = place["xb"] /\ homing.offset = 0
            BY DEF PhaseInv
        <3> QED BY <2>2, <2>3, <3>1 DEF PhaseInv
    <2>6. PlacedInv'
        <3> SUFFICES ASSUME NEW a \in d.homed
                     PROVE  Placed(a)' \/ (homing'.reset /\ homing'.lost)
            BY <2>3 DEF PlacedInv
        <3>1. Reference(a)' = Reference(a)
            BY <2>3 DEF Reference
        <3> QED BY <1>7, <2>3, <3>1 DEF Placed, PlacedAt, At, Near
    <2>7. CycleInv'
        BY <2>2 DEF CycleInv
    <2> QED BY <2>4, <2>5, <2>6, <2>7 DEF HomingInv
<1> QED BY <1>8, <1>9

\* What must be known of the motors before a pass.
PassReady(c, mode) ==
    /\ c.disabled = {}
    /\ mode = "seek" => c.passes = 2 * LocateCycles + 1
    /\ mode = "pulloff" =>
           /\ c.passes <= 2 * LocateCycles /\ \E k \in 0 .. LocateCycles : c.passes = 2 * k
           /\ \A a \in c.cycle : \A n \in Watched(a) :
                  homing.switch[n] /\ (c.passes < 2 * LocateCycles => place[n] \in 1 - LocateLag .. 0)
    /\ mode = "locate" =>
           /\ c.passes < 2 * LocateCycles /\ \E k \in 0 .. LocateCycles : c.passes = 2 * k + 1
           /\ \A a \in c.cycle : \A n \in Watched(a) : homing.switch[n] => place[n] >= 1

LEMMA PassKept ==
    ASSUME HomingAssumption, HomingType, PhaseInv, NEW c, InCycle(c), NEW mode \in {"seek", "pulloff", "locate"},
           \A a \in c.homed : a \in c.cycle \/ PlacedAt(c, a) \/ (c.reset /\ c.lost),
           ~c.reset => PassReady(c, mode), ~homing.squared => c.disabled = {},
           place' = place, homing' = Pass(c, mode)
    PROVE  HomingInv'
<1>1. HomingRecord(c) /\ Pulloff \in Nat /\ LocateLag \in Nat /\ LocateCycles \in Nat
    BY DEF InCycle, HomingAssumption
<1>2. /\ DOMAIN homing' = HomingFields
      /\ mode = "pulloff" => homing'.at = "pulloff" /\ homing'.step = 1 /\ homing'.left = Pulloff
      /\ mode # "pulloff" => homing'.at = "approach" /\ homing'.step = -1
      /\ homing'.lock = c.cycle /\ homing'.left \in Nat /\ homing'.lag = 0
      /\ homing'.mode = mode /\ homing'.passes = c.passes
      /\ homing'.position \in [Axes -> Int] /\ \A a \in Axes \ c.cycle : homing'.position[a] = c.position[a]
      /\ SameMachine(homing', c) /\ SameFlags(homing', c) /\ SameSquaring(homing', c) /\ SameCycle(homing', c)
    BY <1>1, PassIs
<1>3. /\ homing'.squared = homing.squared /\ homing'.switch = homing.switch /\ homing'.offset = homing.offset
      /\ homing'.state = "homing" /\ homing'.homed = c.homed
      /\ homing'.disabled = c.disabled /\ homing'.squaring = "both"
      /\ homing'.reset = c.reset /\ homing'.lost = c.lost /\ (c.reset => c.lost)
      /\ homing'.door = c.door /\ homing'.check = c.check /\ homing'.trigger = c.trigger
      /\ homing'.complete = c.complete /\ ~c.complete
      /\ homing'.cycle = c.cycle /\ homing'.todo = c.todo /\ homing'.limits = c.limits
    BY <1>2 DEF InCycle, SameMachine, SameFlags, SameSquaring, SameCycle
<1>4. homing'.at \in {"approach", "pulloff"} /\ homing'.step \in {-1, 0, 1}
    BY <1>2
<1>5. HomingType'
    <2>1. homing'.at \in Working /\ homing'.lag \in Nat
        BY <1>2, <1>4 DEF Working
    <2>2. HomingRecord(homing)'
        BY <1>1, <1>2, <1>3, <1>4, <2>1 DEF HomingType, HomingRecord
    <2> QED BY <2>2 DEF HomingType
<1>6. PhaseInv'
    <2>1. ~homing.squared => place["xa"] = place["xb"] /\ homing.offset = 0 /\ c.disabled = {}
        BY DEF PhaseInv
    <2> QED BY <1>2, <1>3, <1>4, <2>1 DEF PhaseInv
<1>7. PlacedInv'
    <2> SUFFICES ASSUME NEW a \in c.homed
                 PROVE  \/ Placed(a)' \/ (homing'.at \in Working /\ a \in homing'.cycle)
                        \/ (homing'.reset /\ homing'.lost)
        BY <1>3 DEF PlacedInv
    <2>1. CASE a \in c.cycle
        BY <1>3, <1>4, <2>1 DEF Working
    <2>2. CASE a \notin c.cycle /\ PlacedAt(c, a)
        <3>1. a \in Axes /\ homing'.position[a] = c.position[a]
            BY <1>1, <1>2, <2>2 DEF HomingRecord
        <3>2. Reference(a)' = Reference(a)
            BY <1>3 DEF Reference
        <3> QED BY <1>3, <2>2, <3>1, <3>2 DEF Placed, PlacedAt, At, Near
    <2> QED BY <1>3, <2>1, <2>2
<1>8. (\A a : Watched(a)' = Watched(a)) /\ Halted' = {}
    BY <1>3 DEF Watched, Halted
<1>9. ASSUME ~c.reset, mode # "pulloff"
      PROVE  ApproachInv'
    <2>1. Passes'
        BY <1>2, <1>3, <1>9 DEF PassReady, Passes
    <2>2. ASSUME NEW a \in c.cycle, NEW n \in Watched(a)
          PROVE  mode = "locate" /\ homing.switch[n] => place[n] >= 1 - homing'.lag
        BY <1>2, <1>9, <2>2 DEF PassReady
    <2> QED BY <1>1, <1>2, <1>3, <1>8, <1>9, <2>1, <2>2 DEF ApproachInv, PassReady
<1>10. ASSUME ~c.reset, mode = "pulloff"
       PROVE  PullOffInv'
    <2>1. Passes' /\ (Last' <=> c.passes < 2 * LocateCycles)
        BY <1>2, <1>3, <1>10 DEF PassReady, Passes, Last
    <2>2. ASSUME NEW a \in c.cycle, NEW n \in Watched(a)
          PROVE  homing.switch[n] /\ (Last' => place[n] - (Pulloff - homing'.left) \in 1 - LocateLag .. 0)
        <3>1. homing.switch[n] /\ (Last' => place[n] \in 1 - LocateLag .. 0)
            BY <1>10, <2>1, <2>2 DEF PassReady
        <3>2. a \in Axes
            BY <1>1 DEF HomingRecord
        <3>3. place[n] \in Int
            BY <3>2, MotorsAre DEF HomingType
        <3>4. place[n] - (Pulloff - homing'.left) = place[n]
            BY <1>1, <1>2, <1>10, <3>3
        <3> QED BY <3>1, <3>4
    <2> QED BY <1>2, <1>3, <1>8, <1>10, <2>1, <2>2 DEF PullOffInv, PassReady
<1>11. CycleInv'
    BY <1>2, <1>3, <1>9, <1>10 DEF CycleInv
<1> QED BY <1>5, <1>6, <1>7, <1>11 DEF HomingInv

\* A cycle that fails ends in a reset.
LEMMA FailKept ==
    ASSUME HomingType, PhaseInv, homing.state = "homing", NEW c, HomingRecord(c), SameMachine(c, homing),
           c.state = "homing", c.reset => c.lost, c.complete => c.left = 0, c.lock \subseteq c.cycle,
           c.squaring # "both" => "x" \in c.cycle,
           ~homing.squared => c.disabled = {} /\ c.squaring = "both",
           place' = place, homing' = Fail(c)
    PROVE  HomingInv'
<1> DEFINE d == [c EXCEPT !.reset = TRUE, !.lost = homing.state = "homing", !.left = 0]
           e == IF c.reset THEN c ELSE d
<1>1. /\ DOMAIN d = HomingFields /\ d.reset = TRUE /\ d.lost = TRUE /\ d.left = 0
      /\ SameMachine(d, c) /\ SameSquaring(d, c) /\ SameCycle(d, c) /\ SamePass(d, c)
      /\ d.state = c.state /\ d.homed = c.homed /\ d.door = c.door /\ d.complete = c.complete
      /\ d.at = c.at /\ d.lock = c.lock /\ d.step = c.step /\ d.lag = c.lag
    BY DEF HomingRecord, HomingFields, SameMachine, SameSquaring, SameCycle, SamePass
<1>2. homing' = [e EXCEPT !.at = "aborting"]
    BY DEF Fail, MotorsStopped
<1> HIDE DEF d
<1>3. HomingRecord(d)
    <2>1. d.reset \in BOOLEAN /\ d.lost \in BOOLEAN
        BY <1>1, Zenon
    <2>3. d.left \in Nat
        BY <1>1
    <2>2. d.state = c.state /\ d.at = c.at /\ d.homed = c.homed /\ d.complete = c.complete /\ d.door = c.door
        BY <1>1
    <2> QED BY <1>1, <2>1, <2>2, <2>3 DEF HomingRecord, SameMachine, SameSquaring, SameCycle, SamePass
<1>4. /\ HomingRecord(e) /\ e.reset = TRUE /\ e.lost = TRUE /\ (e.complete => e.left = 0)
      /\ SameMachine(e, c) /\ SameSquaring(e, c) /\ SameCycle(e, c) /\ SamePass(e, c)
      /\ e.state = c.state /\ e.homed = c.homed /\ e.door = c.door /\ e.complete = c.complete
      /\ e.lock = c.lock /\ e.step = c.step /\ e.lag = c.lag
    <2>1. CASE c.reset
        <3>1. e = c /\ c.reset \in BOOLEAN /\ c.lost \in BOOLEAN
            BY <2>1 DEF HomingRecord
        <3> QED BY <2>1, <3>1 DEF SameMachine, SameSquaring, SameCycle, SamePass
    <2>2. CASE ~c.reset
        <3>1. e = d
            BY <2>2
        <3> QED BY <1>1, <1>3, <3>1
    <2> QED BY <2>1, <2>2
<1> HIDE DEF e
<1>5. /\ DOMAIN homing' = HomingFields /\ homing'.at = "aborting" /\ homing'.left = e.left
      /\ homing'.lock = e.lock /\ homing'.step = e.step /\ homing'.lag = e.lag
      /\ SameMachine(homing', e) /\ SameFlags(homing', e) /\ SameSquaring(homing', e) /\ SameCycle(homing', e)
      /\ SamePass(homing', e)
    BY <1>2, <1>4 DEF HomingRecord, HomingFields, SameMachine, SameFlags, SameSquaring, SameCycle, SamePass
<1>6. /\ homing'.squared = homing.squared /\ homing'.switch = homing.switch /\ homing'.offset = homing.offset
      /\ homing'.state = "homing" /\ homing'.disabled = c.disabled /\ homing'.squaring = c.squaring
      /\ homing'.reset = TRUE /\ homing'.lost = TRUE /\ (homing'.complete => homing'.left = 0)
      /\ homing'.lock \subseteq homing'.cycle /\ homing'.cycle = c.cycle
    BY <1>4, <1>5 DEF SameMachine, SameFlags, SameSquaring, SameCycle
<1>7. HomingType'
    <2>1. homing'.at \in Working \cup {"main", "finish", "aborting"}
        BY <1>5
    <2>2. HomingRecord(homing)'
        BY <1>4, <1>5, <2>1 DEF HomingRecord, SameMachine, SameFlags, SameSquaring, SameCycle, SamePass
    <2> QED BY <2>2 DEF HomingType
<1>8. PhaseInv'
    <2>1. ~homing.squared => place["xa"] = place["xb"] /\ homing.offset = 0
        BY DEF PhaseInv
    <2> QED BY <1>5, <1>6, <2>1 DEF PhaseInv
<1>9. PlacedInv' /\ CycleInv'
    BY <1>6 DEF PlacedInv, CycleInv
<1> QED BY <1>7, <1>8, <1>9 DEF HomingInv

LEMMA LookedAtIs ==
    ASSUME HomingInv, NEW r, r = LookedAt, NEW first, first = (IF Engaged("xa") THEN "xa" ELSE "xb"),
           NEW found, found = Signals(Ignored) \ (IF OneOfTwo THEN {"x"} ELSE {})
    PROVE  /\ HomingRecord(r) /\ SameMachine(r, homing) /\ SameFlags(r, homing) /\ SameCycle(r, homing)
           /\ SamePass(r, homing) /\ r.at = homing.at /\ r.left = homing.left /\ r.step = homing.step
           /\ r.lag = 0 /\ r.lock = homing.lock \ found
           /\ OneOfTwo => r.squaring = (IF first = "xa" THEN "a" ELSE "b") /\ r.disabled = {first}
           /\ ~OneOfTwo => r.squaring = homing.squaring /\ r.disabled = homing.disabled
<1> DEFINE w == [homing EXCEPT !.check = TRUE, !.trigger = 0, !.disabled = {first},
                               !.squaring = IF first = "xa" THEN "a" ELSE "b"]
           c == IF OneOfTwo THEN w ELSE homing
<1>1. HomingRecord(homing) /\ first \in Motors
    BY DEF HomingInv, HomingType, Motors
<1>2. /\ DOMAIN w = HomingFields /\ w.check = TRUE /\ w.trigger = 0 /\ w.disabled = {first}
      /\ w.squaring = (IF first = "xa" THEN "a" ELSE "b")
      /\ SameMachine(w, homing) /\ SameFlags(w, homing) /\ SameCycle(w, homing) /\ SamePass(w, homing)
      /\ SameMotion(w, homing)
    BY <1>1 DEF HomingRecord, HomingFields, SameMachine, SameFlags, SameCycle, SamePass, SameMotion
<1>3. r = [c EXCEPT !.lock = c.lock \ found, !.check = c.check /\ "x" \notin found, !.lag = 0]
    BY DEF LookedAt
<1> HIDE DEF w
<1>4. HomingRecord(w)
    <2>1. /\ w.squaring \in {"both", "a", "b"} /\ w.trigger \in Nat /\ w.disabled \subseteq Motors
        BY <1>1, <1>2
    <2>2. w.check \in BOOLEAN
        BY <1>2, Zenon
    <2> QED BY <1>1, <1>2, <2>1, <2>2 DEF HomingRecord, SameMachine, SameFlags, SameCycle, SamePass, SameMotion
<1>5. /\ HomingRecord(c) /\ SameMachine(c, homing) /\ SameFlags(c, homing) /\ SameCycle(c, homing)
      /\ SamePass(c, homing) /\ SameMotion(c, homing)
      /\ OneOfTwo => c.squaring = (IF first = "xa" THEN "a" ELSE "b") /\ c.disabled = {first}
      /\ ~OneOfTwo => c.squaring = homing.squaring /\ c.disabled = homing.disabled
    <2>1. CASE OneOfTwo
        BY <1>2, <1>4, <2>1
    <2>2. CASE ~OneOfTwo
        BY <1>1, <2>2 DEF SameMachine, SameFlags, SameCycle, SamePass, SameMotion
    <2> QED BY <2>1, <2>2
<1> HIDE DEF c
<1>6. /\ DOMAIN r = HomingFields /\ r.lock = c.lock \ found /\ r.check = (c.check /\ "x" \notin found) /\ r.lag = 0
      /\ SameMachine(r, c) /\ SameFlags(r, c) /\ SameCycle(r, c) /\ SamePass(r, c)
      /\ r.squaring = c.squaring /\ r.disabled = c.disabled /\ r.trigger = c.trigger
      /\ r.at = c.at /\ r.left = c.left /\ r.step = c.step
    BY <1>3, <1>5 DEF HomingRecord, HomingFields, SameMachine, SameFlags, SameCycle, SamePass
<1>7. r.check \in BOOLEAN
    BY <1>6, Zenon
<1>8. HomingRecord(r)
    BY <1>5, <1>6, <1>7 DEF HomingRecord, SameMachine, SameFlags, SameCycle, SamePass
<1> QED BY <1>5, <1>6, <1>8 DEF SameMachine, SameFlags, SameCycle, SamePass, SameMotion

\* The axes and motors that are held after a look are those that were, and those found now.
LEMMA SeenIs ==
    ASSUME HomingInv, homing.disabled = Halted, NEW r, r = LookedAt, NEW a \in homing.cycle, NEW n \in Watched(a)
    PROVE  a \notin r.lock \/ n \in r.disabled <=> a \notin homing.lock \/ n \in Halted \/ Engaged(n)
<1> DEFINE first == IF Engaged("xa") THEN "xa" ELSE "xb"
           found == Signals(Ignored) \ (IF OneOfTwo THEN {"x"} ELSE {})
<1>1. HomingType /\ PhaseInv /\ HomingRecord(homing) /\ a \in Axes
    BY DEF HomingInv, HomingType, HomingRecord
<1>2. /\ r.lock = homing.lock \ found
      /\ OneOfTwo => r.disabled = {first}
      /\ ~OneOfTwo => r.disabled = homing.disabled
    BY LookedAtIs
<1>3. a \in found <=> a \in Signals(Ignored) /\ (OneOfTwo => a # "x")
    OBVIOUS
<1>4. /\ "y" \in Signals(Ignored) <=> "y" \notin Ignored /\ Engaged("y")
      /\ "x" \in Signals(Ignored) <=> \/ "xa" \notin Ignored /\ Engaged("xa")
                                      \/ "xb" \notin Ignored /\ Engaged("xb")
    BY SignalsAre
<1>5. first \in {"xa", "xb"} /\ (OneOfTwo => \A k \in {"xa", "xb"} : Engaged(k) <=> k = first)
    <2>1. OneOfTwo => (Engaged("xa") /\ ~Engaged("xb")) \/ (~Engaged("xa") /\ Engaged("xb"))
        BY DEF OneOfTwo, Engaged
    <2> QED BY <2>1
<1> HIDE DEF first, found
<1>6. /\ homing.squared \in BOOLEAN /\ homing.squaring \in {"both", "a", "b"}
      /\ ~homing.squared => homing.squaring = "both"
    BY <1>1 DEF HomingRecord, PhaseInv
<1>7. /\ ~homing.squared => Ignored = {"xb"}
      /\ homing.squared /\ homing.squaring = "both" => Ignored = {} /\ Halted = {}
      /\ homing.squared /\ homing.squaring = "a" => Ignored = {"xa"} /\ Halted = {"xa"}
      /\ homing.squared /\ homing.squaring = "b" => Ignored = {"xb"} /\ Halted = {"xb"}
      /\ ~homing.squared => Halted = {}
    BY <1>6 DEF Ignored, Halted
<1>8. OneOfTwo => homing.squared /\ homing.squaring = "both"
    BY DEF OneOfTwo, Squared
<1>9. CASE a = "y"
    <2>1. n = "y" /\ n \notin Halted /\ n \notin r.disabled /\ "y" \notin Ignored
        BY <1>2, <1>5, <1>6, <1>7, <1>9 DEF Watched
    <2> QED BY <1>2, <1>3, <1>4, <1>9, <2>1
<1>10. CASE a = "x" /\ ~homing.squared
    <2>1. n = "xa" /\ ~OneOfTwo /\ Halted = {} /\ Ignored = {"xb"}
        BY <1>7, <1>8, <1>10 DEF Watched
    <2> QED BY <1>2, <1>3, <1>4, <1>10, <2>1
<1>11. CASE a = "x" /\ homing.squared
    <2>0. n \in {"xa", "xb"}
        BY <1>11 DEF Watched
    <2>1. CASE OneOfTwo
        BY <1>2, <1>3, <1>5, <1>7, <1>8, <1>11, <2>0, <2>1
    <2>2. CASE homing.squaring = "both" /\ ~OneOfTwo
        <3>1. Engaged("xa") <=> Engaged("xb")
            BY <1>11, <2>2 DEF OneOfTwo, Squared
        <3> QED BY <1>2, <1>3, <1>4, <1>7, <1>11, <2>0, <2>2, <3>1
    <2>3. CASE homing.squaring = "a"
        BY <1>2, <1>3, <1>4, <1>7, <1>8, <1>11, <2>0, <2>3
    <2>4. CASE homing.squaring = "b"
        BY <1>2, <1>3, <1>4, <1>7, <1>8, <1>11, <2>0, <2>4
    <2> QED BY <1>6, <2>1, <2>2, <2>3, <2>4
<1> QED BY <1>1, <1>9, <1>10, <1>11 DEF Axes

\* A motor waits only for the other one of its axis.
LEMMA LookSafe ==
    ASSUME HomingInv, NEW r, r = LookedAt
    PROVE  /\ r.squaring # "both" => "x" \in homing.cycle
           /\ ~homing.squared => r.disabled = {} /\ r.squaring = "both"
<1> DEFINE first == IF Engaged("xa") THEN "xa" ELSE "xb"
           found == Signals(Ignored) \ (IF OneOfTwo THEN {"x"} ELSE {})
<1>1. PhaseInv
    BY DEF HomingInv
<1>3. /\ OneOfTwo => r.squaring = (IF first = "xa" THEN "a" ELSE "b") /\ r.disabled = {first}
      /\ ~OneOfTwo => r.squaring = homing.squaring /\ r.disabled = homing.disabled
    BY LookedAtIs
<1>4. OneOfTwo => homing.squared /\ "x" \in homing.cycle
    BY DEF OneOfTwo, Squared
<1> HIDE DEF first, found
<1> QED BY <1>1, <1>3, <1>4 DEF PhaseInv

LEMMA LookKept ==
    ASSUME HomingAssumption, HomingInv, homing.at = "approach", ~homing.reset, NEW r, r = LookedAt
    PROVE  /\ r.disabled = CASE r.squaring = "both" -> {} [] r.squaring = "a" -> {"xa"} [] OTHER -> {"xb"}
           /\ r.squaring # "both" => "x" \in homing.cycle
           /\ ~homing.squared => r.disabled = {} /\ r.squaring = "both"
           /\ \A a \in homing.cycle : \A n \in Watched(a) :
                  IF a \notin r.lock \/ n \in r.disabled THEN Found(n)
                  ELSE homing.mode = "locate" /\ homing.switch[n] => place[n] >= 1
<1> DEFINE first == IF Engaged("xa") THEN "xa" ELSE "xb"
           found == Signals(Ignored) \ (IF OneOfTwo THEN {"x"} ELSE {})
<1>1. HomingType /\ PhaseInv /\ HomingRecord(homing) /\ ApproachInv
    BY DEF HomingInv, HomingType, CycleInv
<1>2. homing.disabled = Halted /\ homing.cycle \subseteq Axes
    BY <1>1 DEF ApproachInv, HomingRecord
<1>3. /\ OneOfTwo => r.squaring = (IF first = "xa" THEN "a" ELSE "b") /\ r.disabled = {first}
      /\ ~OneOfTwo => r.squaring = homing.squaring /\ r.disabled = homing.disabled
    BY LookedAtIs
<1>4. first \in {"xa", "xb"} /\ (OneOfTwo => homing.squared /\ "x" \in homing.cycle)
    BY DEF OneOfTwo, Squared
<1> HIDE DEF first, found
<1>5. r.disabled = CASE r.squaring = "both" -> {} [] r.squaring = "a" -> {"xa"} [] OTHER -> {"xb"}
    <2>1. CASE OneOfTwo
        BY <1>3, <1>4, <2>1
    <2>2. CASE ~OneOfTwo
        BY <1>2, <1>3, <2>2 DEF Halted
    <2> QED BY <2>1, <2>2
<1>6. r.squaring # "both" => "x" \in homing.cycle
    BY <1>1, <1>3, <1>4 DEF PhaseInv
<1>7. ~homing.squared => r.disabled = {} /\ r.squaring = "both"
    BY <1>1, <1>3, <1>4 DEF PhaseInv
<1>8. ASSUME NEW a \in homing.cycle, NEW n \in Watched(a)
      PROVE  IF a \notin r.lock \/ n \in r.disabled THEN Found(n)
             ELSE homing.mode = "locate" /\ homing.switch[n] => place[n] >= 1
    <2>1. a \notin r.lock \/ n \in r.disabled <=> a \notin homing.lock \/ n \in Halted \/ Engaged(n)
        BY <1>2, <1>8, SeenIs
    <2>2. IF a \notin homing.lock \/ n \in Halted THEN Found(n)
          ELSE homing.mode = "locate" /\ homing.switch[n] => place[n] >= 1 - homing.lag
        BY <1>1, <1>8 DEF ApproachInv
    <2>3. place[n] \in Int /\ homing.lag \in Nat /\ LocateLag \in Nat /\ (homing.mode = "locate" => homing.lag <= LocateLag)
        <3>1. a \in Axes
            BY <1>2, <1>8
        <3>2. n \in Motors
            BY <1>1, <1>8, <3>1, MotorsAre
        <3> QED BY <1>1, <3>2 DEF HomingType, HomingRecord, ApproachInv, HomingAssumption
    <2>4. CASE a \notin homing.lock \/ n \in Halted
        BY <2>1, <2>2, <2>4
    <2>5. CASE ~(a \notin homing.lock \/ n \in Halted) /\ Engaged(n)
        BY <2>1, <2>2, <2>3, <2>5 DEF Engaged, Found
    <2>6. CASE ~(a \notin homing.lock \/ n \in Halted) /\ ~Engaged(n)
        BY <2>1, <2>3, <2>6 DEF Engaged
    <2> QED BY <2>4, <2>5, <2>6
<1> QED BY <1>5, <1>6, <1>7, <1>8

\* What stays of the axes that are homed while a cycle goes on.
LEMMA StayPlaced ==
    ASSUME PlacedInv, place' = place, SameMachine(homing', homing), homing'.homed = homing.homed,
           homing'.position = homing.position, homing'.cycle = homing.cycle,
           homing.at \in Working => homing'.at \in Working,
           homing.reset /\ homing.lost => homing'.reset /\ homing'.lost
    PROVE  PlacedInv'
<1> SUFFICES ASSUME NEW a \in homing.homed
             PROVE  Placed(a)' \/ (homing'.at \in Working /\ a \in homing'.cycle) \/ (homing'.reset /\ homing'.lost)
    BY DEF PlacedInv
<1>1. Reference(a)' = Reference(a)
    BY DEF Reference, SameMachine
<1>2. Placed(a) => Placed(a)'
    BY <1>1 DEF Placed, Near, SameMachine
<1>3. Placed(a) \/ (homing.at \in Working /\ a \in homing.cycle) \/ (homing.reset /\ homing.lost)
    BY DEF PlacedInv
<1> QED BY <1>2, <1>3

LEMMA ApproachKept ==
    ASSUME HomingAssumption, HomingInv, Approach
    PROVE  HomingInv'
<1> DEFINE r == LookedAt
           first == IF Engaged("xa") THEN "xa" ELSE "xb"
           found == Signals(Ignored) \ (IF OneOfTwo THEN {"x"} ELSE {})
           delay == [r EXCEPT !.at = "delay", !.left = 0]
           failed == (r.check /\ r.trigger > FailDistance) \/ Over(homing)
<1>1. homing.at = "approach" /\ place' = place /\ r = LookedAt
    BY DEF Approach
<1>2. /\ failed => homing' = Fail(r)
      /\ ~failed /\ r.lock = {} => homing' = delay
      /\ ~failed /\ r.lock # {} => homing' = r
    BY DEF Approach
<1>3. /\ HomingRecord(r) /\ SameMachine(r, homing) /\ SameFlags(r, homing) /\ SameCycle(r, homing)
      /\ SamePass(r, homing) /\ r.at = homing.at /\ r.left = homing.left /\ r.step = homing.step
      /\ r.lag = 0 /\ r.lock = homing.lock \ found
    BY LookedAtIs
<1>4. /\ r.squaring # "both" => "x" \in homing.cycle
      /\ ~homing.squared => r.disabled = {} /\ r.squaring = "both"
    BY LookSafe
<1>5. HomingType /\ PhaseInv /\ PlacedInv /\ CycleInv
    BY DEF HomingInv
<1>6. ~homing.reset =>
          /\ r.disabled = CASE r.squaring = "both" -> {} [] r.squaring = "a" -> {"xa"} [] OTHER -> {"xb"}
          /\ \A a \in homing.cycle : \A n \in Watched(a) :
                 IF a \notin r.lock \/ n \in r.disabled THEN Found(n)
                 ELSE homing.mode = "locate" /\ homing.switch[n] => place[n] >= 1
    BY <1>1, LookKept
<1>7. ~failed => ~homing.reset /\ ~homing.door /\ ~homing.complete
    BY DEF Over
<1> HIDE DEF r, first, found, failed
<1>8. /\ r.state = "homing" /\ (r.reset => r.lost) /\ (r.complete => r.left = 0)
      /\ r.lock \subseteq r.cycle /\ r.cycle = homing.cycle
      /\ homing.state = "homing"
    BY <1>1, <1>3, <1>5 DEF SameFlags, SameCycle, PhaseInv
<1>9. CASE failed
    <2>1. homing' = Fail(r)
        BY <1>2, <1>9
    <2>2. r.squaring # "both" => "x" \in r.cycle
        BY <1>4, <1>8
    <2> QED BY <1>1, <1>3, <1>4, <1>5, <1>8, <2>1, <2>2, FailKept
<1>10. CASE ~failed
    <2>1. ~homing.reset /\ ~homing.door /\ ~homing.complete /\ ApproachInv
        BY <1>1, <1>5, <1>7, <1>10 DEF CycleInv
    <2>2. /\ DOMAIN delay = HomingFields /\ delay.at = "delay" /\ delay.left = 0
          /\ SameMachine(delay, r) /\ SameFlags(delay, r) /\ SameCycle(delay, r) /\ SamePass(delay, r)
          /\ SameSquaring(delay, r) /\ delay.lock = r.lock /\ delay.step = r.step /\ delay.lag = r.lag
        BY <1>3 DEF HomingRecord, HomingFields, SameMachine, SameFlags, SameCycle, SamePass, SameSquaring
    <2>3. homing' = IF r.lock = {} THEN delay ELSE r
        BY <1>2, <1>10
    <2> HIDE DEF delay
    <2>4. /\ DOMAIN homing' = HomingFields
          /\ homing'.at = (IF r.lock = {} THEN "delay" ELSE "approach")
          /\ homing'.left = (IF r.lock = {} THEN 0 ELSE r.left)
          /\ SameMachine(homing', r) /\ SameFlags(homing', r) /\ SameCycle(homing', r) /\ SamePass(homing', r)
          /\ SameSquaring(homing', r) /\ homing'.lock = r.lock /\ homing'.step = r.step /\ homing'.lag = r.lag
        <3>1. CASE r.lock = {}
            BY <2>2, <2>3, <3>1
        <3>2. CASE r.lock # {}
            <4>1. homing' = r /\ r.at = "approach" /\ DOMAIN r = HomingFields
                BY <1>1, <1>3, <2>3, <3>2 DEF HomingRecord
            <4> QED BY <3>2, <4>1 DEF SameMachine, SameFlags, SameCycle, SamePass, SameSquaring
        <3> QED BY <3>1, <3>2
    <2>5. /\ SameMachine(homing', homing) /\ SameFlags(homing', homing) /\ SameCycle(homing', homing)
          /\ SamePass(homing', homing) /\ homing'.step = homing.step /\ homing'.lag = 0
          /\ homing'.disabled = r.disabled /\ homing'.squaring = r.squaring
        BY <1>3, <2>4 DEF SameMachine, SameFlags, SameCycle, SamePass, SameSquaring
    <2>6. HomingType'
        <3>1. homing'.at \in Working \cup {"main", "finish", "aborting"} /\ homing'.left \in Nat
            BY <1>3, <2>4 DEF Working, HomingRecord
        <3>2. HomingRecord(homing)'
            BY <1>3, <2>4, <3>1 DEF HomingRecord, SameMachine, SameFlags, SameCycle, SamePass, SameSquaring
        <3> QED BY <1>1, <1>5, <3>2 DEF HomingType
    <2>7. PhaseInv'
        <3>1. /\ homing'.squared = homing.squared /\ homing'.offset = homing.offset /\ homing'.state = "homing"
              /\ homing'.reset = homing.reset /\ homing'.complete = homing.complete /\ homing'.cycle = homing.cycle
            BY <1>8, <2>5 DEF SameMachine, SameFlags, SameCycle
        <3>2. ~homing.squared => place["xa"] = place["xb"] /\ homing.offset = 0
            BY <1>5 DEF PhaseInv
        <3> QED BY <1>1, <1>4, <1>8, <2>1, <2>4, <2>5, <3>1, <3>2 DEF PhaseInv
    <2>8. PlacedInv'
        <3>1. /\ homing'.homed = homing.homed /\ homing'.position = homing.position /\ homing'.cycle = homing.cycle
              /\ homing'.reset = homing.reset /\ homing'.lost = homing.lost /\ homing'.at \in Working
            BY <2>4, <2>5 DEF SameFlags, SameCycle, SamePass, Working
        <3> QED BY <1>1, <1>5, <2>5, <3>1, StayPlaced
    <2>9. /\ homing'.mode = homing.mode /\ homing'.passes = homing.passes /\ homing'.cycle = homing.cycle
          /\ homing'.switch = homing.switch /\ homing'.squared = homing.squared
        BY <2>5 DEF SameMachine, SameCycle, SamePass
    <2>10. (\A a : Watched(a)' = Watched(a)) /\ (\A n : Found(n)' = Found(n)) /\ Passes' = Passes /\ homing'.disabled = Halted'
        <3>1. homing'.disabled = Halted'
            BY <1>6, <2>1, <2>5 DEF Halted
        <3> QED BY <1>1, <2>9, <3>1 DEF Watched, Found, Passes
    <2>11. CASE r.lock = {}
        <3>1. homing'.at = "delay" /\ homing.mode # "pulloff"
            BY <2>1, <2>4, <2>11 DEF ApproachInv
        <3>2. \A a \in homing.cycle : \A n \in Watched(a) : Found(n)
            BY <1>6, <2>1, <2>11
        <3>3. homing'.squaring # "both" => "x" \in homing.cycle
            BY <1>4, <2>5
        <3>4. DelayInv'
            BY <2>1, <2>9, <2>10, <3>1, <3>2, <3>3 DEF DelayInv, ApproachInv, Halted
        <3> QED BY <2>6, <2>7, <2>8, <3>1, <3>4 DEF CycleInv, HomingInv
    <2>12. CASE r.lock # {}
        <3>1. homing'.at = "approach" /\ homing'.lock = r.lock
            BY <2>4, <2>12
        <3>2. homing'.squaring # "both" => "x" \in homing.cycle
            BY <1>4, <2>5
        <3>3. ASSUME NEW a \in homing.cycle, NEW n \in Watched(a)
              PROVE  IF a \notin homing'.lock \/ n \in Halted' THEN Found(n)
                     ELSE homing.mode = "locate" /\ homing.switch[n] => place[n] >= 1 - homing'.lag
            BY <1>6, <2>1, <2>5, <2>10, <3>1, <3>3
        <3>4. homing.mode = "locate" => homing'.lag <= LocateLag
            BY <2>5 DEF HomingAssumption
        <3>5. ApproachInv'
            BY <1>1, <2>1, <2>5, <2>9, <2>10, <3>2, <3>3, <3>4 DEF ApproachInv, Halted
        <3> QED BY <2>6, <2>7, <2>8, <3>1, <3>5 DEF CycleInv, HomingInv
    <2> QED BY <2>11, <2>12
<1> QED BY <1>9, <1>10

LEMMA HomedAre ==
    ASSUME PlacedInv, NEW c, c.homed = homing.homed, c.position = homing.position, c.cycle = homing.cycle,
           c.reset = homing.reset, c.lost = homing.lost
    PROVE  \A a \in c.homed : a \in c.cycle \/ PlacedAt(c, a) \/ (c.reset /\ c.lost)
BY DEF PlacedInv, Placed, PlacedAt, At

LEMMA NearOff ==
    ASSUME HomingAssumption, NEW p \in Int, NEW q \in Int, p - q \in 1 - LocateLag .. 0
    PROVE  Near(p, q)
BY DEF Near, HomingAssumption

LEMMA NearEachOther ==
    ASSUME HomingAssumption, NEW p \in Int, NEW q \in Int, NEW d \in {-1, 0, 1},
           p - Pulloff - (IF d = 1 THEN 1 ELSE 0) \in 1 - LocateLag .. 0,
           q - Pulloff - (IF d = -1 THEN 1 ELSE 0) \in 1 - LocateLag .. 0
    PROVE  Near(p, q + d)
<1>1. LocateLag \in Int /\ Pulloff \in Int
    BY DEF HomingAssumption
<1>2. CASE d = 0
    BY <1>1, <1>2 DEF Near
<1>3. CASE d = 1
    BY <1>1, <1>3 DEF Near
<1>4. CASE d = -1
    BY <1>1, <1>4 DEF Near
<1> QED BY <1>2, <1>3, <1>4

\* Axes whose motors stand off their switches by the pull-off have that position.
LEMMA PulledOffAt ==
    ASSUME HomingAssumption, HomingType, PhaseInv, NEW a \in Axes, homing.squared /\ a = "x" => homing.offset = 0,
           \A n \in Watched(a) : place[n] - Pulloff \in 1 - LocateLag .. 0
    PROVE  At(a, Pulloff)
<1>1. /\ place["xa"] \in Int /\ place["xb"] \in Int /\ place["y"] \in Int /\ Pulloff \in Nat /\ LocateLag \in Nat
      /\ homing.offset \in {-1, 0, 1} /\ homing.squared \in BOOLEAN
      /\ ~homing.squared => place["xa"] = place["xb"] /\ homing.offset = 0
    BY DEF HomingType, HomingRecord, PhaseInv, HomingAssumption, Motors
<1>2. CASE a = "y"
    <2>1. Reference(a) = "y" /\ place["y"] - Pulloff \in 1 - LocateLag .. 0
        BY <1>2 DEF Reference, Watched
    <2> QED BY <1>1, <1>2, <2>1 DEF At, Near
<1>3. CASE a = "x" /\ ~homing.squared
    <2>1. Reference(a) = "xb" /\ place["xa"] - Pulloff \in 1 - LocateLag .. 0
        BY <1>1, <1>3 DEF Reference, Watched
    <2> QED BY <1>1, <1>3, <2>1 DEF At, Near
<1>4. CASE a = "x" /\ homing.squared
    <2>1. /\ Reference(a) = "xb" /\ homing.offset = 0
          /\ place["xa"] - Pulloff \in 1 - LocateLag .. 0 /\ place["xb"] - Pulloff \in 1 - LocateLag .. 0
        BY <1>1, <1>4 DEF Reference, Watched
    <2>2. Near(place["xb"], Pulloff)
        BY <1>1, <2>1, NearOff
    <2>3. /\ place["xb"] - Pulloff - (IF homing.offset = 1 THEN 1 ELSE 0) \in 1 - LocateLag .. 0
          /\ place["xa"] - Pulloff - (IF homing.offset = -1 THEN 1 ELSE 0) \in 1 - LocateLag .. 0
        BY <1>1, <2>1
    <2>4. Near(place["xb"], place["xa"] + homing.offset)
        BY <1>1, <2>3, NearEachOther
    <2> QED BY <2>1, <2>2, <2>4 DEF At
<1> QED BY <1>1, <1>2, <1>3, <1>4 DEF Axes

\* The same after one motor of two was moved by the offset.
LEMMA OffsetAt ==
    ASSUME HomingAssumption, HomingType, PhaseInv, OffsetInv, homing.left = 0, NEW a \in homing.cycle
    PROVE  At(a, Pulloff)
<1>1. /\ place["xa"] \in Int /\ place["xb"] \in Int /\ place["y"] \in Int /\ Pulloff \in Nat /\ LocateLag \in Nat
      /\ homing.offset \in {-1, 1} /\ homing.squared /\ a \in Axes
    BY DEF HomingType, HomingRecord, PhaseInv, HomingAssumption, Motors, OffsetInv
<1>0. \A n \in Watched(a) : place[n] - Pulloff - (IF n = Moved THEN 1 ELSE 0) \in 1 - LocateLag .. 0
    <2> SUFFICES ASSUME NEW n \in Watched(a)
                 PROVE  place[n] - Pulloff - (IF n = Moved THEN 1 ELSE 0) \in 1 - LocateLag .. 0
        OBVIOUS
    <2>1. place[n] - Pulloff - (IF n = Moved THEN 1 - homing.left ELSE 0) \in 1 - LocateLag .. 0
        BY DEF OffsetInv
    <2>2. 1 - homing.left = 1
        OBVIOUS
    <2> QED BY <2>1, <2>2
<1>2. CASE a = "y"
    <2>1. Reference(a) = "y" /\ Moved # "y" /\ place["y"] - Pulloff - 0 \in 1 - LocateLag .. 0
        BY <1>0, <1>2 DEF Reference, Watched, Moved
    <2> QED BY <1>1, <1>2, <2>1 DEF At, Near
<1>3. CASE a = "x" /\ homing.offset = 1
    <2>1. /\ Reference(a) = "xa" /\ Moved = "xb"
          /\ place["xa"] - Pulloff - 0 \in 1 - LocateLag .. 0 /\ place["xb"] - Pulloff - 1 \in 1 - LocateLag .. 0
        BY <1>0, <1>1, <1>3 DEF Reference, Watched, Moved
    <2>2. Near(place["xa"], Pulloff)
        BY <1>1, <2>1, NearOff
    <2>3. /\ place["xb"] - Pulloff - (IF homing.offset = 1 THEN 1 ELSE 0) \in 1 - LocateLag .. 0
          /\ place["xa"] - Pulloff - (IF homing.offset = -1 THEN 1 ELSE 0) \in 1 - LocateLag .. 0
        BY <1>3, <2>1
    <2>4. Near(place["xb"], place["xa"] + homing.offset)
        BY <1>1, <2>3, NearEachOther
    <2> QED BY <2>1, <2>2, <2>4 DEF At
<1>4. CASE a = "x" /\ homing.offset = -1
    <2>1. /\ Reference(a) = "xb" /\ Moved = "xa"
          /\ place["xa"] - Pulloff - 1 \in 1 - LocateLag .. 0 /\ place["xb"] - Pulloff - 0 \in 1 - LocateLag .. 0
        BY <1>0, <1>1, <1>4 DEF Reference, Watched, Moved
    <2>2. Near(place["xb"], Pulloff)
        BY <1>1, <2>1, NearOff
    <2>3. /\ place["xb"] - Pulloff - (IF homing.offset = 1 THEN 1 ELSE 0) \in 1 - LocateLag .. 0
          /\ place["xa"] - Pulloff - (IF homing.offset = -1 THEN 1 ELSE 0) \in 1 - LocateLag .. 0
        BY <1>4, <2>1
    <2>4. Near(place["xb"], place["xa"] + homing.offset)
        BY <1>1, <2>3, NearEachOther
    <2> QED BY <2>1, <2>2, <2>4 DEF At
<1> QED BY <1>1, <1>2, <1>3, <1>4 DEF Axes

\* Both motors run again after a pass.
LEMMA BothAgainIs ==
    ASSUME NEW c, HomingRecord(c), NEW r, r = BothAgain(c)
    PROVE  /\ HomingRecord(r) /\ r.squaring = "both" /\ r.disabled = {}
           /\ SameMachine(r, c) /\ SameFlags(r, c) /\ SameCycle(r, c) /\ SamePass(r, c) /\ SameMotion(r, c)
<1>1. /\ DOMAIN r = HomingFields /\ r.squaring = "both" /\ r.check = FALSE /\ r.disabled = {} /\ r.trigger = c.trigger
      /\ SameMachine(r, c) /\ SameFlags(r, c) /\ SameCycle(r, c) /\ SamePass(r, c) /\ SameMotion(r, c)
    BY DEF BothAgain, HomingRecord, HomingFields, SameMachine, SameFlags, SameCycle, SamePass, SameMotion
<1>2. r.check \in BOOLEAN
    BY <1>1, Zenon
<1>3. HomingRecord(r)
    BY <1>1, <1>2 DEF HomingRecord, SameMachine, SameFlags, SameCycle, SamePass, SameMotion
<1> QED BY <1>1, <1>3

\* The next pass is ready when the one before it ended at its switches.
LEMMA NextPassReady ==
    ASSUME HomingAssumption, HomingType, DelayInv, homing.passes > 0, NEW c, c.disabled = {}, c.cycle = homing.cycle,
           c.passes = homing.passes - 1, NEW mode, mode = (IF homing.mode = "pulloff" THEN "locate" ELSE "pulloff")
    PROVE  PassReady(c, mode)
<1>1. /\ homing.passes \in Nat /\ LocateCycles \in Nat /\ homing.mode \in {"seek", "pulloff", "locate"}
      /\ homing.cycle \subseteq Axes
    BY DEF HomingType, HomingRecord, HomingAssumption
<1>2. CASE homing.mode = "seek"
    <2>1. homing.passes = 2 * LocateCycles + 1 /\ mode = "pulloff"
        BY <1>2 DEF DelayInv, Passes
    <2>2. c.passes = 2 * LocateCycles /\ LocateCycles \in 0 .. LocateCycles
        BY <1>1, <2>1
    <2>3. \A a \in c.cycle : \A n \in Watched(a) : homing.switch[n]
        BY DEF DelayInv, Found
    <2> QED BY <1>1, <2>1, <2>2, <2>3 DEF PassReady
<1>3. CASE homing.mode = "locate"
    <2>1. PICK k \in 0 .. LocateCycles : homing.passes = 2 * k + 1
        BY <1>3 DEF DelayInv, Passes
    <2>2. homing.passes < 2 * LocateCycles /\ mode = "pulloff"
        BY <1>3 DEF DelayInv, Passes
    <2>3. c.passes = 2 * k /\ c.passes <= 2 * LocateCycles
        BY <1>1, <2>1, <2>2
    <2>4. \A a \in c.cycle : \A n \in Watched(a) : homing.switch[n] /\ place[n] \in 1 - LocateLag .. 0
        BY <1>3 DEF DelayInv, Found
    <2> QED BY <2>1, <2>2, <2>3, <2>4 DEF PassReady
<1>4. CASE homing.mode = "pulloff"
    <2>1. PICK k \in 0 .. LocateCycles : homing.passes = 2 * k
        BY <1>4 DEF DelayInv, Passes
    <2>2. homing.passes <= 2 * LocateCycles /\ mode = "locate"
        BY <1>4 DEF DelayInv, Passes
    <2>3. k - 1 \in 0 .. LocateCycles /\ c.passes = 2 * (k - 1) + 1 /\ c.passes < 2 * LocateCycles
        BY <1>1, <2>1, <2>2
    <2>4. \A a \in c.cycle : \A n \in Watched(a) : homing.switch[n] => place[n] >= 1
        BY <1>4 DEF DelayInv
    <2> QED BY <2>2, <2>3, <2>4 DEF PassReady
<1> QED BY <1>1, <1>2, <1>3, <1>4

LEMMA DelayedKept ==
    ASSUME HomingAssumption, HomingInv, Delayed
    PROVE  HomingInv'
<1> DEFINE c == IF Squared(homing.cycle) # {} THEN BothAgain(homing) ELSE homing
<1>1. homing.at = "delay" /\ place' = place /\ homing' = AfterPass(c)
    BY DEF Delayed
<1>2. /\ HomingType /\ PhaseInv /\ PlacedInv /\ HomingRecord(homing) /\ LocateCycles \in Nat \ {0}
      /\ ~homing.reset => DelayInv
    BY <1>1 DEF HomingInv, HomingType, CycleInv, HomingAssumption
<1>3. /\ homing.state = "homing" /\ ~homing.complete /\ (homing.reset => homing.lost) /\ homing.left = 0
      /\ homing.lock \subseteq homing.cycle /\ (homing.squaring # "both" => "x" \in homing.cycle)
      /\ ~homing.squared => homing.disabled = {} /\ homing.squaring = "both"
    BY <1>1, <1>2 DEF PhaseInv
<1>4. /\ HomingRecord(c) /\ SameMachine(c, homing) /\ SameFlags(c, homing) /\ SameCycle(c, homing)
      /\ SamePass(c, homing) /\ SameMotion(c, homing)
      /\ c.squaring = "both" /\ (~homing.reset \/ ~homing.squared => c.disabled = {})
    <2>1. CASE Squared(homing.cycle) # {}
        <3>1. c = BothAgain(homing)
            BY <2>1
        <3> QED BY <1>2, <3>1, BothAgainIs
    <2>2. CASE Squared(homing.cycle) = {}
        <3>1. c = homing
            BY <2>2
        <3>2. homing.squared => "x" \notin homing.cycle
            BY <2>2 DEF Squared
        <3>3. homing.squaring = "both"
            BY <1>2, <1>3, <3>2 DEF HomingRecord
        <3>4. ~homing.reset => homing.disabled = {}
            BY <1>2, <3>3 DEF DelayInv, Halted
        <3>5. SameMachine(homing, homing) /\ SameFlags(homing, homing) /\ SameCycle(homing, homing)
              /\ SamePass(homing, homing) /\ SameMotion(homing, homing)
            BY DEF SameMachine, SameFlags, SameCycle, SamePass, SameMotion
        <3> QED BY <1>2, <1>3, <3>1, <3>3, <3>4, <3>5
    <2> QED BY <2>1, <2>2
<1> HIDE DEF c
<1>5. /\ c.state = "homing" /\ c.complete = homing.complete /\ c.reset = homing.reset /\ c.lost = homing.lost
      /\ c.homed = homing.homed /\ c.cycle = homing.cycle /\ c.position = homing.position
      /\ c.passes = homing.passes /\ c.mode = homing.mode /\ c.lock = homing.lock /\ c.offset = homing.offset
      /\ c.squared = homing.squared
    BY <1>3, <1>4 DEF SameMachine, SameFlags, SameCycle, SamePass, SameMotion
<1>6. InCycle(c)
    BY <1>3, <1>4, <1>5 DEF InCycle
<1>7. CASE c.passes > 0
    <2> DEFINE d == [c EXCEPT !.passes = c.passes - 1]
               mode == IF c.mode = "pulloff" THEN "locate" ELSE "pulloff"
    <2>1. homing' = Pass(d, mode)
        BY <1>1, <1>7 DEF AfterPass
    <2>2. /\ DOMAIN d = HomingFields /\ d.passes = c.passes - 1 /\ SameMotion(d, c)
          /\ d.mode = c.mode /\ d.position = c.position
          /\ SameMachine(d, c) /\ SameFlags(d, c) /\ SameSquaring(d, c) /\ SameCycle(d, c)
        BY <1>4 DEF HomingRecord, HomingFields, SameMachine, SameFlags, SameSquaring, SameCycle, SameMotion
    <2>3. mode \in {"seek", "pulloff", "locate"} /\ mode = (IF homing.mode = "pulloff" THEN "locate" ELSE "pulloff")
        BY <1>5
    <2> HIDE DEF d, mode
    <2>4. d.passes \in Nat /\ c.passes \in Nat
        BY <1>4, <1>7, <2>2 DEF HomingRecord
    <2>5. HomingRecord(d)
        BY <1>4, <2>2, <2>4 DEF HomingRecord, SameMachine, SameFlags, SameSquaring, SameCycle, SameMotion
    <2>6. /\ d.reset = homing.reset /\ d.lost = homing.lost /\ d.homed = homing.homed /\ d.cycle = homing.cycle
          /\ d.position = homing.position /\ d.disabled = c.disabled
        BY <1>5, <2>2 DEF SameFlags, SameSquaring, SameCycle
    <2>7. InCycle(d)
        BY <1>6, <2>2, <2>5 DEF InCycle, SameMachine, SameFlags, SameSquaring
    <2>8. \A a \in d.homed : a \in d.cycle \/ PlacedAt(d, a) \/ (d.reset /\ d.lost)
        BY <1>2, <2>6, HomedAre
    <2>9. ASSUME ~d.reset
          PROVE  PassReady(d, mode)
        <3>1. DelayInv /\ d.disabled = {} /\ homing.passes > 0 /\ d.passes = homing.passes - 1
            BY <1>2, <1>4, <1>5, <1>7, <2>2, <2>6, <2>9
        <3> QED BY <1>2, <2>3, <2>6, <3>1, NextPassReady
    <2>10. ~homing.squared => d.disabled = {}
        BY <1>4, <2>6
    <2> QED BY <1>1, <1>2, <2>1, <2>3, <2>7, <2>8, <2>9, <2>10, PassKept
<1>8. ASSUME ~(c.passes > 0), ~homing.reset
      PROVE  \A a \in homing.cycle : \A n \in Watched(a) : place[n] - Pulloff \in 1 - LocateLag .. 0
    <2>1. homing.passes = 0 /\ DelayInv
        BY <1>2, <1>5, <1>8 DEF HomingRecord
    <2>2. Last
        BY <1>2, <2>1 DEF Last
    <2>3. homing.mode = "pulloff"
        <3>1. homing.mode # "seek"
            <4> SUFFICES ASSUME homing.mode = "seek"
                         PROVE  FALSE
                OBVIOUS
            <4>1. homing.passes = 2 * LocateCycles + 1
                BY <2>1 DEF DelayInv, Passes
            <4>2. LocateCycles \in Nat
                BY <1>2
            <4> QED BY <2>1, <4>1, <4>2
        <3>2. homing.mode # "locate"
            <4> SUFFICES ASSUME homing.mode = "locate"
                         PROVE  FALSE
                OBVIOUS
            <4>1. PICK k \in 0 .. LocateCycles : homing.passes = 2 * k + 1
                BY <2>1 DEF DelayInv, Passes
            <4> QED BY <1>2, <2>1, <4>1
        <3> QED BY <1>2, <3>1, <3>2 DEF HomingRecord
    <2> QED BY <2>1, <2>2, <2>3 DEF DelayInv
<1>9. CASE ~(c.passes > 0) /\ Squared(c.cycle) # {} /\ c.offset # 0
    <2> DEFINE d == [c EXCEPT !.disabled = {IF c.offset < 0 THEN "xb" ELSE "xa"}]
    <2>1. homing' = Motion(d, "offset", {"x"}, 1, 1)
        BY <1>1, <1>9 DEF AfterPass
    <2>2. /\ DOMAIN d = HomingFields /\ d.disabled = {IF c.offset < 0 THEN "xb" ELSE "xa"}
          /\ d.squaring = c.squaring /\ d.check = c.check /\ d.trigger = c.trigger
          /\ SameMachine(d, c) /\ SameFlags(d, c) /\ SameCycle(d, c) /\ SamePass(d, c) /\ SameMotion(d, c)
        BY <1>4 DEF HomingRecord, HomingFields, SameMachine, SameFlags, SameCycle, SamePass, SameMotion
    <2> HIDE DEF d
    <2>3. /\ DOMAIN homing' = HomingFields /\ homing'.at = "offset" /\ homing'.lock = {"x"} /\ homing'.left = 1
          /\ homing'.step = 1 /\ homing'.lag = 0
          /\ SameMachine(homing', d) /\ SameFlags(homing', d) /\ SameSquaring(homing', d) /\ SameCycle(homing', d)
          /\ SamePass(homing', d)
        BY <2>1, <2>2, MotionIs
    <2>4. "x" \in homing.cycle /\ homing.squared
        BY <1>5, <1>9, <1>4 DEF Squared
    <2>5. /\ SameMachine(homing', homing) /\ SameCycle(homing', homing) /\ SamePass(homing', homing)
          /\ SameFlags(homing', homing) /\ homing'.squaring = "both" /\ homing'.disabled = d.disabled
          /\ homing'.check = c.check /\ homing'.trigger = c.trigger
        BY <1>4, <2>2, <2>3 DEF SameMachine, SameFlags, SameSquaring, SameCycle, SamePass
    <2>6. HomingType'
        <3>1. /\ homing'.at \in Working /\ homing'.step \in {-1, 0, 1} /\ homing'.lag \in Nat /\ homing'.left \in Nat
              /\ homing'.disabled \subseteq Motors /\ homing'.squaring \in {"both", "a", "b"}
              /\ homing'.lock \subseteq Axes
            BY <2>2, <2>3, <2>5 DEF Working, Motors, Axes
        <3>2. HomingRecord(homing)'
            BY <1>2, <1>4, <2>3, <2>5, <3>1 DEF HomingRecord, SameMachine, SameFlags, SameCycle, SamePass
        <3> QED BY <1>1, <1>2, <3>2 DEF HomingType
    <2>7. PhaseInv'
        <3>1. /\ homing'.squared = homing.squared /\ homing'.state = "homing" /\ homing'.cycle = homing.cycle
              /\ homing'.reset = homing.reset /\ homing'.lost = homing.lost /\ homing'.complete = homing.complete
            BY <1>3, <2>5 DEF SameMachine, SameFlags, SameCycle
        <3> QED BY <1>3, <2>3, <2>4, <2>5, <3>1 DEF PhaseInv
    <2>8. PlacedInv'
        <3>1. /\ homing'.homed = homing.homed /\ homing'.position = homing.position /\ homing'.cycle = homing.cycle
              /\ homing'.reset = homing.reset /\ homing'.lost = homing.lost /\ homing'.at \in Working
            BY <2>3, <2>5 DEF SameFlags, SameCycle, SamePass, Working
        <3> QED BY <1>1, <1>2, <2>5, <3>1, StayPlaced
    <2>9. ASSUME ~homing.reset
          PROVE  OffsetInv'
        <3>1. /\ homing'.squared = homing.squared /\ homing'.offset = homing.offset /\ homing'.cycle = homing.cycle
              /\ Moved' = Moved /\ \A a : Watched(a)' = Watched(a)
            BY <2>5 DEF SameMachine, SameCycle, Moved, Watched
        <3>2. homing'.disabled = {"xa", "xb"} \ {Moved}
            BY <1>5, <2>2, <2>5 DEF Moved
        <3>3. ASSUME NEW a \in homing.cycle, NEW n \in Watched(a)
              PROVE  place[n] - Pulloff - (IF n = Moved THEN 1 - homing'.left ELSE 0) \in 1 - LocateLag .. 0
            <4>1. place[n] - Pulloff \in 1 - LocateLag .. 0
                BY <1>8, <1>9, <2>9, <3>3
            <4>2. place[n] \in Int /\ Pulloff \in Int
                <5>1. a \in Axes /\ n \in Motors
                    BY <1>2, <3>3, MotorsAre DEF HomingRecord
                <5> QED BY <1>2, <5>1 DEF HomingType, HomingAssumption
            <4>3. (IF n = Moved THEN 1 - homing'.left ELSE 0) = 0
                BY <2>3
            <4> QED BY <4>1, <4>2, <4>3
        <3> QED BY <1>1, <1>5, <1>9, <2>3, <2>4, <2>5, <3>1, <3>2, <3>3 DEF OffsetInv
    <2>10. CycleInv'
        <3>1. homing'.reset = homing.reset
            BY <2>5 DEF SameFlags
        <3> QED BY <2>3, <2>9, <3>1 DEF CycleInv
    <2> QED BY <2>6, <2>7, <2>8, <2>10 DEF HomingInv
<1>10. CASE ~(c.passes > 0) /\ ~(Squared(c.cycle) # {} /\ c.offset # 0)
    <2>1. homing' = Located(c)
        BY <1>1, <1>10 DEF AfterPass
    <2>2. ASSUME NEW a \in c.cycle
          PROVE  At(a, Pulloff) \/ (c.reset /\ c.lost)
        <3>1. a \in Axes /\ a \in homing.cycle
            BY <1>2, <1>5, <2>2 DEF HomingRecord
        <3>2. homing.squared /\ a = "x" => homing.offset = 0
            BY <1>5, <1>4, <1>10, <3>1 DEF Squared
        <3>3. CASE ~homing.reset
            BY <1>2, <1>8, <1>10, <3>1, <3>2, <3>3, PulledOffAt
        <3>4. CASE homing.reset
            BY <1>3, <1>5, <3>4
        <3> QED BY <3>3, <3>4
    <2>3. \A a \in c.homed : a \in c.cycle \/ PlacedAt(c, a) \/ (c.reset /\ c.lost)
        BY <1>2, <1>5, HomedAre
    <2>4. c.lock \subseteq c.cycle
        BY <1>3, <1>5
    <2> QED BY <1>1, <1>2, <1>6, <2>1, <2>2, <2>3, <2>4, LocatedKept
<1> QED BY <1>7, <1>9, <1>10

LEMMA PullOffKept ==
    ASSUME HomingAssumption, HomingInv, PullOff
    PROVE  HomingInv'
<1> DEFINE c == [homing EXCEPT !.lag = 0]
           d == [c EXCEPT !.complete = FALSE, !.left = 0]
           failed == ~PulledOff(IF homing.at = "pulloff" THEN homing.cycle ELSE {"x"})
<1>1. homing.at \in {"engaged", "pulloff", "offset"} /\ place' = place
    BY DEF PullOff
<1>2. /\ ~Over(homing) => homing' = c
      /\ Over(homing) /\ failed => homing' = Fail(c)
      /\ Over(homing) /\ ~failed =>
             /\ homing.at = "engaged" => homing' = FirstPass(d)
             /\ homing.at = "pulloff" => homing' = [d EXCEPT !.at = "delay"]
             /\ homing.at = "offset" => homing' = Located(d)
    BY DEF PullOff
<1>3. ~failed => /\ ~homing.reset /\ ~homing.door
                 /\ AllSignals \cap (IF homing.at = "pulloff" THEN homing.cycle ELSE {"x"}) = {}
    BY DEF PulledOff
<1>4. /\ HomingType /\ PhaseInv /\ PlacedInv /\ CycleInv /\ HomingRecord(homing)
    BY DEF HomingInv, HomingType
<1>5. /\ DOMAIN c = HomingFields /\ c.lag = 0 /\ SameMachine(c, homing) /\ SameFlags(c, homing)
      /\ SameSquaring(c, homing) /\ SameCycle(c, homing) /\ SamePass(c, homing)
      /\ c.at = homing.at /\ c.lock = homing.lock /\ c.left = homing.left /\ c.step = homing.step
    BY <1>4 DEF HomingRecord, HomingFields, SameMachine, SameFlags, SameSquaring, SameCycle, SamePass
<1>6. HomingRecord(c)
    BY <1>4, <1>5 DEF HomingRecord, SameMachine, SameFlags, SameSquaring, SameCycle, SamePass
<1>7. /\ DOMAIN d = HomingFields /\ d.lag = 0 /\ d.left = 0 /\ d.complete = FALSE
      /\ SameMachine(d, c) /\ SameSquaring(d, c) /\ SameCycle(d, c) /\ SamePass(d, c)
      /\ d.state = c.state /\ d.homed = c.homed /\ d.reset = c.reset /\ d.door = c.door /\ d.lost = c.lost
      /\ d.at = c.at /\ d.lock = c.lock /\ d.step = c.step
    BY <1>5, <1>6 DEF HomingRecord, HomingFields, SameMachine, SameSquaring, SameCycle, SamePass
<1> HIDE DEF c, d, failed
<1>8. HomingRecord(d)
    <2>1. d.complete \in BOOLEAN
        BY <1>7, Zenon
    <2>2. d.state = c.state /\ d.at = c.at /\ d.homed = c.homed /\ d.left \in Nat
        BY <1>7
    <2> QED BY <1>6, <1>7, <2>1, <2>2 DEF HomingRecord, SameMachine, SameSquaring, SameCycle, SamePass
<1>9. /\ homing.state = "homing" /\ (homing.reset => homing.lost) /\ (homing.complete => homing.left = 0)
      /\ homing.lock \subseteq homing.cycle /\ (homing.squaring # "both" => "x" \in homing.cycle)
      /\ ~homing.squared => homing.disabled = {} /\ homing.squaring = "both"
    BY <1>1, <1>4 DEF PhaseInv
<1>10. CASE ~Over(homing)
    <2>1. homing' = c /\ ~homing.reset
        BY <1>2, <1>10 DEF Over
    <2>2. /\ homing'.squared = homing.squared /\ homing'.switch = homing.switch /\ homing'.offset = homing.offset
          /\ homing'.state = homing.state /\ homing'.homed = homing.homed /\ homing'.reset = homing.reset
          /\ homing'.lost = homing.lost /\ homing'.complete = homing.complete
          /\ homing'.squaring = homing.squaring /\ homing'.disabled = homing.disabled
          /\ homing'.cycle = homing.cycle /\ homing'.limits = homing.limits
          /\ homing'.mode = homing.mode /\ homing'.passes = homing.passes /\ homing'.position = homing.position
          /\ homing'.at = homing.at /\ homing'.lock = homing.lock /\ homing'.left = homing.left
          /\ homing'.step = homing.step
        BY <1>5, <2>1 DEF SameMachine, SameFlags, SameSquaring, SameCycle, SamePass
    <2>3. HomingType'
        BY <1>1, <1>4, <1>6, <2>1 DEF HomingType
    <2>4. PhaseInv'
        BY <1>1, <1>4, <2>2 DEF PhaseInv
    <2>5. PlacedInv'
        BY <1>1, <1>4, <2>2, StayPlaced DEF SameMachine
    <2>6. (\A a : Watched(a)' = Watched(a)) /\ Passes' = Passes /\ Last' = Last /\ Moved' = Moved
        BY <2>2 DEF Watched, Passes, Last, Moved
    <2>7. homing.at = "engaged" => EngagedInv'
        BY <1>4, <2>1, <2>2 DEF CycleInv, EngagedInv, Squared
    <2>8. homing.at = "pulloff" => PullOffInv'
        BY <1>1, <1>4, <2>1, <2>2, <2>6 DEF CycleInv, PullOffInv
    <2>9. homing.at = "offset" => OffsetInv'
        BY <1>1, <1>4, <2>1, <2>2, <2>6 DEF CycleInv, OffsetInv
    <2> QED BY <1>1, <2>2, <2>3, <2>4, <2>5, <2>7, <2>8, <2>9 DEF CycleInv, HomingInv
<1>11. CASE Over(homing) /\ failed
    <2>1. homing' = Fail(c)
        BY <1>2, <1>11
    <2>2. /\ c.state = "homing" /\ (c.reset => c.lost) /\ (c.complete => c.left = 0) /\ c.lock \subseteq c.cycle
          /\ (c.squaring # "both" => "x" \in c.cycle)
          /\ ~homing.squared => c.disabled = {} /\ c.squaring = "both"
        BY <1>5, <1>9 DEF SameFlags, SameSquaring, SameCycle
    <2> QED BY <1>1, <1>4, <1>5, <1>6, <1>9, <2>1, <2>2, FailKept
<1>12. CASE Over(homing) /\ ~failed
    <2>1. ~homing.reset /\ ~homing.door /\ homing.complete /\ homing.left = 0
        BY <1>3, <1>9, <1>12 DEF Over
    <2>2. /\ SameMachine(d, homing) /\ SameCycle(d, homing) /\ SamePass(d, homing)
          /\ d.state = "homing" /\ d.homed = homing.homed /\ d.reset = homing.reset /\ d.door = homing.door
          /\ d.lost = homing.lost /\ d.at = homing.at /\ d.lock = homing.lock /\ d.step = homing.step
          /\ d.squaring = homing.squaring /\ d.disabled = homing.disabled
          /\ d.check = homing.check /\ d.trigger = homing.trigger
        BY <1>5, <1>7, <1>9 DEF SameMachine, SameCycle, SamePass, SameFlags, SameSquaring
    <2>3. homing.squaring = "both"
        BY <1>1, <1>4, <2>1 DEF CycleInv, EngagedInv, PullOffInv, OffsetInv
    <2>4. InCycle(d)
        BY <1>7, <1>8, <2>1, <2>2, <2>3 DEF InCycle
    <2>5. \A a \in d.homed : a \in d.cycle \/ PlacedAt(d, a) \/ (d.reset /\ d.lost)
        <3>1. d.cycle = homing.cycle /\ d.position = homing.position
            BY <2>2 DEF SameCycle, SamePass
        <3> QED BY <1>4, <2>2, <3>1, HomedAre
    <2>6. CASE homing.at = "engaged"
        <3> DEFINE e == [d EXCEPT !.passes = 2 * LocateCycles + 1]
                   mode == "seek"
        <3>1. homing' = Pass(e, mode) /\ mode \in {"seek", "pulloff", "locate"} /\ mode = "seek"
            BY <1>2, <1>12, <2>6 DEF FirstPass
        <3>2. /\ DOMAIN e = HomingFields /\ e.passes = 2 * LocateCycles + 1 /\ SameMotion(e, d)
              /\ e.mode = d.mode /\ e.position = d.position
              /\ SameMachine(e, d) /\ SameFlags(e, d) /\ SameSquaring(e, d) /\ SameCycle(e, d)
            BY <1>8 DEF HomingRecord, HomingFields, SameMachine, SameFlags, SameSquaring, SameCycle, SameMotion
        <3> HIDE DEF e, mode
        <3>3. 2 * LocateCycles + 1 \in Nat
            BY DEF HomingAssumption
        <3>4. HomingRecord(e)
            BY <1>8, <3>2, <3>3 DEF HomingRecord, SameMachine, SameFlags, SameSquaring, SameCycle, SameMotion
        <3>5. /\ e.reset = d.reset /\ e.lost = d.lost /\ e.homed = d.homed /\ e.cycle = d.cycle
              /\ e.disabled = d.disabled /\ e.position = d.position
            BY <3>2 DEF SameFlags, SameSquaring, SameCycle
        <3>6. InCycle(e)
            BY <2>4, <3>2, <3>4 DEF InCycle, SameMachine, SameFlags, SameSquaring
        <3>7. \A a \in e.homed : a \in e.cycle \/ PlacedAt(e, a) \/ (e.reset /\ e.lost)
            BY <2>5, <3>5 DEF PlacedAt
        <3>8. e.disabled = {}
            BY <1>4, <2>1, <2>2, <2>6, <3>5 DEF CycleInv, EngagedInv
        <3>9. PassReady(e, mode)
            BY <3>1, <3>2, <3>8 DEF PassReady
        <3> QED BY <1>1, <1>4, <3>1, <3>6, <3>7, <3>8, <3>9, PassKept
    <2>7. CASE homing.at = "offset"
        <3>1. homing' = Located(d) /\ OffsetInv
            BY <1>2, <1>4, <1>12, <2>1, <2>7 DEF CycleInv
        <3>2. d.cycle = homing.cycle /\ d.lock \subseteq d.cycle
            BY <1>9, <2>2 DEF SameCycle
        <3>3. \A a \in d.cycle : At(a, Pulloff) \/ (d.reset /\ d.lost)
            BY <1>4, <2>1, <3>1, <3>2, OffsetAt
        <3> QED BY <1>1, <1>4, <2>4, <2>5, <3>1, <3>2, <3>3, LocatedKept
    <2>8. CASE homing.at = "pulloff"
        <3>1. homing' = [d EXCEPT !.at = "delay"] /\ PullOffInv /\ AllSignals \cap homing.cycle = {}
            BY <1>2, <1>3, <1>4, <1>12, <2>1, <2>8 DEF CycleInv
        <3>2. /\ DOMAIN homing' = HomingFields /\ homing'.at = "delay" /\ SameMachine(homing', d)
              /\ SameFlags(homing', d) /\ SameSquaring(homing', d) /\ SameCycle(homing', d) /\ SamePass(homing', d)
              /\ homing'.lock = d.lock /\ homing'.left = d.left /\ homing'.step = d.step /\ homing'.lag = d.lag
            BY <1>8, <3>1 DEF HomingRecord, HomingFields, SameMachine, SameFlags, SameSquaring, SameCycle, SamePass
        <3>3. /\ homing'.squared = homing.squared /\ homing'.switch = homing.switch /\ homing'.offset = homing.offset
              /\ homing'.state = "homing" /\ homing'.homed = homing.homed /\ homing'.reset = homing.reset
              /\ homing'.lost = homing.lost /\ ~homing'.complete
              /\ homing'.squaring = homing.squaring /\ homing'.disabled = homing.disabled
              /\ homing'.cycle = homing.cycle /\ homing'.limits = homing.limits
              /\ homing'.mode = homing.mode /\ homing'.passes = homing.passes /\ homing'.position = homing.position
              /\ homing'.lock = homing.lock /\ homing'.left = 0
            BY <1>7, <2>2, <3>2 DEF SameMachine, SameFlags, SameSquaring, SameCycle, SamePass
        <3>4. HomingType'
            <4>1. homing'.at \in Working
                BY <3>2 DEF Working
            <4>2. HomingRecord(homing)'
                BY <1>8, <3>2, <4>1 DEF HomingRecord, SameMachine, SameFlags, SameSquaring, SameCycle, SamePass
            <4> QED BY <1>1, <1>4, <4>2 DEF HomingType
        <3>5. PhaseInv'
            BY <1>1, <1>4, <2>1, <3>2, <3>3 DEF PhaseInv
        <3>6. PlacedInv'
            BY <1>1, <1>4, <3>2, <3>3, StayPlaced DEF SameMachine, Working
        <3>7. (\A a : Watched(a)' = Watched(a)) /\ (\A n : Found(n)' = Found(n)) /\ Passes' = Passes
              /\ Last' = Last /\ Halted' = Halted
            BY <1>1, <3>3 DEF Watched, Passes, Found, Last, Halted
        <3>8. ASSUME NEW a \in homing.cycle, NEW n \in Watched(a)
              PROVE  Found(n) /\ place[n] >= 1 /\ (Last => place[n] - Pulloff \in 1 - LocateLag .. 0)
            <4>1. homing.switch[n] /\ (Last => place[n] - (Pulloff - homing.left) \in 1 - LocateLag .. 0)
                BY <3>1, <3>8 DEF PullOffInv
            <4>2. a \in Axes /\ n \in Motors /\ place[n] \in Int /\ Pulloff \in Nat
                <5>1. a \in Axes
                    BY <1>4, <3>8 DEF HomingRecord
                <5>2. n \in Motors
                    BY <1>4, <3>8, <5>1, MotorsAre
                <5> QED BY <1>4, <5>1, <5>2 DEF HomingType, HomingAssumption
            <4>3. ~Engaged(n)
                <5> DEFINE ignored == IF homing.squared THEN {} ELSE {"xb"}
                <5>1. a \notin Signals(ignored)
                    BY <3>1, <3>8 DEF AllSignals
                <5>2. ignored = IF homing.squared THEN {} ELSE {"xb"}
                    OBVIOUS
                <5> HIDE DEF ignored
                <5>3. /\ "y" \in Signals(ignored) <=> "y" \notin ignored /\ Engaged("y")
                      /\ "x" \in Signals(ignored) <=> \/ "xa" \notin ignored /\ Engaged("xa")
                                                      \/ "xb" \notin ignored /\ Engaged("xb")
                    BY SignalsAre
                <5> QED BY <3>8, <4>2, <5>1, <5>2, <5>3 DEF Watched, Axes
            <4>4. place[n] >= 1
                BY <4>1, <4>2, <4>3 DEF Engaged
            <4>5. Pulloff - homing.left = Pulloff
                BY <2>1, <4>2
            <4>6. homing.mode # "locate"
                BY <3>1 DEF PullOffInv
            <4> QED BY <4>1, <4>4, <4>5, <4>6 DEF Found
        <3>9. DelayInv'
            <4>1. homing.disabled = Halted /\ Halted = {}
                BY <3>1 DEF PullOffInv, Halted
            <4> QED BY <1>1, <3>1, <3>3, <3>7, <3>8, <4>1 DEF DelayInv, PullOffInv
        <3> QED BY <3>2, <3>4, <3>5, <3>6, <3>9 DEF CycleInv, HomingInv
    <2> QED BY <1>1, <2>6, <2>7, <2>8
<1> QED BY <1>10, <1>11, <1>12

\* $H and $H<axis>.
LEMMA HomeKept ==
    ASSUME HomingAssumption, HomingInv, NEW cycles \in Seq(SUBSET Axes) \ {<< >>}, Home(cycles)
    PROVE  HomingInv'
<1> DEFINE c == [homing EXCEPT !.state = "homing", !.todo = cycles, !.homings = @ + 1,
                               !.homed = IF cycles = Cycles THEN {} ELSE @]
<1>1. /\ homing.at = "main" /\ ~homing.reset /\ place' = place /\ homing' = Begin(c)
      /\ HomingType /\ PhaseInv /\ PlacedInv /\ HomingRecord(homing)
    BY DEF Home, HomingInv, HomingType
<1>2. /\ DOMAIN c = HomingFields /\ c.state = "homing" /\ c.todo = cycles
      /\ c.homed \subseteq homing.homed /\ c.reset = homing.reset /\ c.door = homing.door /\ c.lost = homing.lost
      /\ c.complete = homing.complete /\ c.cycle = homing.cycle /\ c.limits = homing.limits
      /\ SameMachine(c, homing) /\ SameSquaring(c, homing) /\ SamePass(c, homing) /\ SameMotion(c, homing)
    BY <1>1 DEF HomingRecord, HomingFields, SameMachine, SameSquaring, SamePass, SameMotion
<1> HIDE DEF c
<1>3. HomingRecord(c)
    <2>1. c.todo \in Seq(SUBSET Axes) /\ c.homed \subseteq Axes /\ c.state \in {"idle", "alarm", "homing"}
        BY <1>1, <1>2 DEF HomingRecord
    <2> QED BY <1>1, <1>2, <2>1 DEF HomingRecord, SameMachine, SameSquaring, SamePass, SameMotion
<1>4. homing.squaring = "both" /\ homing.disabled = {} /\ ~homing.complete
    BY <1>1 DEF PhaseInv
<1>5. InCycle(c) /\ c.disabled = {} /\ c.todo # << >>
    BY <1>1, <1>2, <1>3, <1>4 DEF InCycle, SameSquaring
<1>6. \A a \in c.homed : PlacedAt(c, a) \/ (c.reset /\ c.lost)
    BY <1>1, <1>2 DEF PlacedInv, Placed, PlacedAt, At, Working, SamePass
<1> QED BY <1>1, <1>5, <1>6, BeginKept

LEMMA UnlockKept ==
    ASSUME HomingInv, Unlock
    PROVE  HomingInv'
<1>1. /\ homing.at = "main" /\ homing.state = "alarm" /\ ~homing.reset /\ place' = place
      /\ HomingType /\ PhaseInv /\ PlacedInv /\ HomingRecord(homing)
    BY DEF Unlock, HomingInv, HomingType
<1>2. /\ DOMAIN homing' = HomingFields /\ homing'.state = "idle"
      /\ homing'.homed = homing.homed /\ homing'.reset = homing.reset /\ homing'.door = homing.door
      /\ homing'.lost = homing.lost /\ homing'.complete = homing.complete
      /\ SameMachine(homing', homing) /\ SameSquaring(homing', homing) /\ SameCycle(homing', homing)
      /\ SamePass(homing', homing) /\ SameMotion(homing', homing)
    BY <1>1 DEF Unlock, HomingRecord, HomingFields, SameMachine, SameSquaring, SameCycle, SamePass, SameMotion
<1>3. HomingType'
    <2>1. homing'.state \in {"idle", "alarm", "homing"}
        BY <1>2
    <2>2. HomingRecord(homing)'
        BY <1>1, <1>2, <2>1 DEF HomingRecord, SameMachine, SameSquaring, SameCycle, SamePass, SameMotion
    <2> QED BY <1>1, <2>2 DEF HomingType
<1>4. PhaseInv'
    BY <1>1, <1>2 DEF PhaseInv, SameMachine, SameSquaring, SameCycle, SameMotion
<1>5. PlacedInv'
    <2>1. /\ homing'.position = homing.position /\ homing'.cycle = homing.cycle /\ homing'.at = homing.at
          /\ homing'.homed = homing.homed /\ homing'.reset = homing.reset /\ homing'.lost = homing.lost
        BY <1>2 DEF SamePass, SameCycle, SameMotion
    <2> QED BY <1>1, <1>2, <2>1, StayPlaced
<1>6. CycleInv'
    BY <1>1, <1>2 DEF CycleInv, SameMotion
<1> QED BY <1>3, <1>4, <1>5, <1>6 DEF HomingInv

LEMMA FinishKept ==
    ASSUME HomingInv, Finish
    PROVE  HomingInv'
<1>1. /\ homing.at = "finish" /\ ~homing.reset /\ place' = place
      /\ HomingType /\ PhaseInv /\ PlacedInv /\ HomingRecord(homing)
    BY DEF Finish, HomingInv, HomingType
<1>2. /\ DOMAIN homing' = HomingFields /\ homing'.state = "idle" /\ homing'.at = "main" /\ homing'.lock = {}
      /\ homing'.cycle = {} /\ homing'.door = FALSE /\ homing'.todo = homing.todo /\ homing'.limits = homing.limits
      /\ homing'.homed = homing.homed /\ homing'.reset = homing.reset
      /\ homing'.lost = homing.lost /\ homing'.complete = homing.complete
      /\ homing'.left = homing.left /\ homing'.step = homing.step /\ homing'.lag = homing.lag
      /\ SameMachine(homing', homing) /\ SameSquaring(homing', homing) /\ SamePass(homing', homing)
    BY <1>1 DEF Finish, HomingRecord, HomingFields, SameMachine, SameSquaring, SamePass
<1>3. HomingType'
    <2>1. /\ homing'.state \in {"idle", "alarm", "homing"} /\ homing'.at \in Working \cup {"main", "finish", "aborting"}
          /\ homing'.lock \subseteq Axes /\ homing'.cycle \subseteq Axes
        BY <1>2
    <2>2. homing'.door \in BOOLEAN
        BY <1>2, Zenon
    <2>3. HomingRecord(homing)'
        BY <1>1, <1>2, <2>1, <2>2 DEF HomingRecord, SameMachine, SameSquaring, SamePass
    <2> QED BY <1>1, <2>3 DEF HomingType
<1>4. PhaseInv'
    BY <1>1, <1>2 DEF PhaseInv, SameMachine, SameSquaring
<1>5. PlacedInv'
    <2> SUFFICES ASSUME NEW a \in homing.homed
                 PROVE  Placed(a)' \/ (homing'.reset /\ homing'.lost)
        BY <1>2 DEF PlacedInv
    <2>1. Placed(a)
        BY <1>1 DEF PlacedInv, Working
    <2>2. Reference(a)' = Reference(a) /\ homing'.position = homing.position
        BY <1>2 DEF Reference, SameMachine, SamePass
    <2> QED BY <1>1, <1>2, <2>1, <2>2 DEF Placed, Near, SameMachine
<1>6. CycleInv'
    BY <1>2 DEF CycleInv
<1> QED BY <1>3, <1>4, <1>5, <1>6 DEF HomingInv

LEMMA ResetKeyKept ==
    ASSUME HomingInv, ResetKey
    PROVE  HomingInv'
<1>1. /\ ~homing.reset /\ place' = place /\ HomingType /\ PhaseInv /\ PlacedInv /\ HomingRecord(homing)
      /\ homing' = [homing EXCEPT !.reset = TRUE, !.lost = homing.state = "homing", !.left = 0]
    BY DEF ResetKey, MotorsStopped, HomingInv, HomingType
<1>2. /\ DOMAIN homing' = HomingFields /\ homing'.reset = TRUE /\ homing'.lost = (homing.state = "homing")
      /\ homing'.left = 0 /\ homing'.at = homing.at /\ homing'.lock = homing.lock
      /\ homing'.step = homing.step /\ homing'.lag = homing.lag
      /\ homing'.state = homing.state /\ homing'.homed = homing.homed /\ homing'.door = homing.door
      /\ homing'.complete = homing.complete
      /\ SameMachine(homing', homing) /\ SameSquaring(homing', homing) /\ SameCycle(homing', homing)
      /\ SamePass(homing', homing)
    BY <1>1 DEF HomingRecord, HomingFields, SameMachine, SameSquaring, SameCycle, SamePass
<1>3. HomingType'
    <2>1. homing'.reset \in BOOLEAN /\ homing'.lost \in BOOLEAN
        BY <1>2, Zenon
    <2>2. homing'.state = homing.state /\ homing'.left \in Nat
        BY <1>2
    <2>3. HomingRecord(homing)'
        BY <1>1, <1>2, <2>1, <2>2 DEF HomingRecord, SameMachine, SameSquaring, SameCycle, SamePass
    <2> QED BY <1>1, <2>3 DEF HomingType
<1>4. PhaseInv'
    BY <1>1, <1>2 DEF PhaseInv, SameMachine, SameSquaring, SameCycle
<1>5. PlacedInv'
    <2>1. /\ homing'.position = homing.position /\ homing'.cycle = homing.cycle /\ homing'.at = homing.at
        BY <1>2 DEF SamePass, SameCycle
    <2> QED BY <1>1, <1>2, <2>1, StayPlaced
<1>6. CycleInv'
    BY <1>2 DEF CycleInv
<1> QED BY <1>3, <1>4, <1>5, <1>6 DEF HomingInv

LEMMA DoorOpensKept ==
    ASSUME HomingInv, DoorOpens
    PROVE  HomingInv'
<1>1. /\ place' = place /\ HomingType /\ PhaseInv /\ PlacedInv /\ CycleInv /\ HomingRecord(homing)
      /\ homing' = [homing EXCEPT !.door = TRUE]
    BY DEF DoorOpens, HomingInv, HomingType
<1>2. /\ DOMAIN homing' = HomingFields /\ homing'.door = TRUE
      /\ homing'.squared = homing.squared /\ homing'.switch = homing.switch /\ homing'.offset = homing.offset
      /\ homing'.state = homing.state /\ homing'.homed = homing.homed /\ homing'.reset = homing.reset
      /\ homing'.lost = homing.lost /\ homing'.complete = homing.complete
      /\ homing'.squaring = homing.squaring /\ homing'.disabled = homing.disabled
      /\ homing'.check = homing.check /\ homing'.trigger = homing.trigger
      /\ homing'.todo = homing.todo /\ homing'.cycle = homing.cycle /\ homing'.limits = homing.limits
      /\ homing'.mode = homing.mode /\ homing'.passes = homing.passes /\ homing'.position = homing.position
      /\ homing'.at = homing.at /\ homing'.lock = homing.lock /\ homing'.left = homing.left
      /\ homing'.step = homing.step /\ homing'.lag = homing.lag
    BY <1>1 DEF HomingRecord, HomingFields
<1>3. HomingType'
    <2>1. homing'.door \in BOOLEAN
        BY <1>2, Zenon
    <2>2. HomingRecord(homing)'
        BY <1>1, <1>2, <2>1 DEF HomingRecord
    <2> QED BY <1>1, <2>2 DEF HomingType
<1>4. PhaseInv'
    BY <1>1, <1>2 DEF PhaseInv
<1>5. PlacedInv'
    BY <1>1, <1>2, StayPlaced DEF SameMachine
<1>6. /\ \A a : Watched(a)' = Watched(a) /\ Squared(homing.cycle)' = Squared(homing.cycle)
      /\ Passes' = Passes /\ Last' = Last /\ Moved' = Moved /\ Halted' = Halted
      /\ \A n : Found(n)' = Found(n)
    BY <1>1, <1>2 DEF Watched, Squared, Passes, Last, Moved, Halted, Found
<1>7. /\ EngagedInv => EngagedInv'
      /\ PullOffInv => PullOffInv'
      /\ OffsetInv => OffsetInv'
    BY <1>1, <1>2, <1>6 DEF EngagedInv, PullOffInv, OffsetInv
<1>8. ApproachInv => ApproachInv'
    BY <1>1, <1>2, <1>6 DEF ApproachInv
<1>9. DelayInv => DelayInv'
    BY <1>1, <1>2, <1>6 DEF DelayInv
<1>10. CycleInv'
    BY <1>1, <1>2, <1>7, <1>8, <1>9 DEF CycleInv
<1> QED BY <1>3, <1>4, <1>5, <1>10 DEF HomingInv

\* After a reset: what was homed counts only when nothing was lost.
LEMMA HandleResetKept ==
    ASSUME ~KeepOnReset, HomingInv, HandleReset
    PROVE  HomingInv'
<1> DEFINE c == BothAgain(homing)
<1>1. /\ homing.reset /\ homing.at \in {"main", "finish", "aborting"} /\ place' = place
      /\ HomingType /\ PhaseInv /\ PlacedInv /\ HomingRecord(homing)
      /\ homing' = [c EXCEPT !.reset = FALSE, !.door = FALSE, !.complete = FALSE, !.at = "main", !.left = 0,
                             !.state = IF homing.lost THEN "alarm" ELSE @, !.lost = FALSE,
                             !.homed = IF homing.lost /\ ~KeepOnReset THEN {} ELSE @,
                             !.limits = TRUE, !.lock = {}, !.cycle = {}, !.todo = << >>]
    BY DEF HandleReset, HomingInv, HomingType
<1>2. /\ HomingRecord(c) /\ c.squaring = "both" /\ c.disabled = {}
      /\ SameMachine(c, homing) /\ SameFlags(c, homing) /\ SameCycle(c, homing) /\ SamePass(c, homing)
      /\ SameMotion(c, homing)
    BY <1>1, BothAgainIs
<1> HIDE DEF c
<1>3. /\ DOMAIN homing' = HomingFields /\ homing'.reset = FALSE /\ homing'.door = FALSE /\ homing'.complete = FALSE
      /\ homing'.at = "main" /\ homing'.left = 0 /\ homing'.state = (IF homing.lost THEN "alarm" ELSE c.state)
      /\ homing'.lost = FALSE /\ homing'.homed = (IF homing.lost /\ ~KeepOnReset THEN {} ELSE c.homed)
      /\ homing'.limits = TRUE /\ homing'.lock = {} /\ homing'.cycle = {} /\ homing'.todo = << >>
      /\ homing'.step = c.step /\ homing'.lag = c.lag
      /\ SameMachine(homing', c) /\ SamePass(homing', c) /\ SameSquaring(homing', c)
    BY <1>1, <1>2 DEF HomingRecord, HomingFields, SameMachine, SamePass, SameSquaring
<1>4. /\ homing'.squared = homing.squared /\ homing'.switch = homing.switch /\ homing'.offset = homing.offset
      /\ homing'.position = homing.position /\ homing'.squaring = "both" /\ homing'.disabled = {}
      /\ c.state = homing.state /\ c.homed = homing.homed
    BY <1>2, <1>3 DEF SameMachine, SamePass, SameSquaring, SameFlags
<1>5. homing.lost \/ homing.state # "homing"
    BY <1>1 DEF PhaseInv
<1>6. HomingType'
    <2>1. /\ homing'.reset \in BOOLEAN /\ homing'.door \in BOOLEAN /\ homing'.complete \in BOOLEAN
          /\ homing'.lost \in BOOLEAN /\ homing'.limits \in BOOLEAN
        BY <1>3, Zenon
    <2>2. homing'.state \in {"idle", "alarm", "homing"} /\ homing'.homed \subseteq Axes
        <3>1. homing.state \in {"idle", "alarm", "homing"} /\ homing.homed \subseteq Axes
            BY <1>1 DEF HomingRecord
        <3>2. homing'.state \in {"alarm", homing.state} /\ homing'.homed \subseteq homing.homed
            BY <1>3, <1>4
        <3> QED BY <3>1, <3>2
    <2>4. /\ homing'.at \in Working \cup {"main", "finish", "aborting"} /\ homing'.left \in Nat
          /\ homing'.lock \subseteq Axes /\ homing'.cycle \subseteq Axes /\ homing'.todo \in Seq(SUBSET Axes)
        BY <1>3
    <2>3. HomingRecord(homing)'
        BY <1>2, <1>3, <2>1, <2>2, <2>4 DEF HomingRecord, SameMachine, SamePass, SameSquaring
    <2> QED BY <1>1, <2>3 DEF HomingType
<1>7. PhaseInv'
    <2>1. ~homing.squared => place["xa"] = place["xb"] /\ homing.offset = 0
        BY <1>1 DEF PhaseInv
    <2>2. homing'.state # "homing"
        BY <1>3, <1>4, <1>5
    <2>3. homing'.limits /\ ~homing'.complete /\ ~homing'.reset
        BY <1>3, Zenon
    <2> QED BY <1>1, <1>3, <1>4, <2>1, <2>2, <2>3 DEF PhaseInv
<1>8. PlacedInv'
    <2>1. CASE homing.lost
        BY <1>3, <2>1 DEF PlacedInv
    <2>2. CASE ~homing.lost
        <3> SUFFICES ASSUME NEW a \in homing.homed
                     PROVE  Placed(a)'
            BY <1>3, <1>4, <2>2 DEF PlacedInv
        <3>1. Placed(a)
            BY <1>1, <2>2 DEF PlacedInv, Working
        <3>2. Reference(a)' = Reference(a)
            BY <1>4 DEF Reference
        <3> QED BY <1>1, <1>4, <3>1, <3>2 DEF Placed, Near
    <2> QED BY <2>1, <2>2
<1>9. CycleInv'
    BY <1>3 DEF CycleInv
<1> QED BY <1>6, <1>7, <1>8, <1>9 DEF HomingInv

LEMMA HomingInitially ==
    ASSUME HomingInit
    PROVE  HomingInv
<1>1. /\ place \in [Motors -> 0..Travel] /\ place["xa"] = place["xb"]
      /\ ~homing.squared => homing.offset = 0
    BY DEF HomingInit
<1>2. /\ DOMAIN homing = HomingFields
      /\ homing.squared \in BOOLEAN /\ homing.switch \in [Motors -> BOOLEAN] /\ homing.offset \in {-1, 0, 1}
      /\ homing.state = "idle" /\ homing.at = "main" /\ homing.homed = {}
      /\ homing.position = [a \in Axes |-> 0] /\ homing.todo = << >> /\ homing.cycle = {} /\ homing.mode = "seek"
      /\ homing.passes = 0 /\ homing.lock = {} /\ homing.left = 0 /\ homing.step = 0 /\ homing.lag = 0
      /\ homing.squaring = "both" /\ homing.trigger = 0 /\ homing.disabled = {}
      /\ ~homing.check /\ ~homing.complete /\ ~homing.reset /\ ~homing.door /\ ~homing.lost /\ homing.limits
    BY DEF HomingInit, HomingFields
<1>3. /\ homing.check \in BOOLEAN /\ homing.complete \in BOOLEAN /\ homing.reset \in BOOLEAN
      /\ homing.door \in BOOLEAN /\ homing.lost \in BOOLEAN /\ homing.limits \in BOOLEAN
    BY DEF HomingInit
<1>4. HomingType
    <2>1. place \in [Motors -> Int]
        BY <1>1
    <2>2. HomingRecord(homing)
        BY <1>2, <1>3 DEF HomingRecord
    <2> QED BY <2>1, <2>2 DEF HomingType
<1>5. PhaseInv /\ PlacedInv /\ CycleInv
    BY <1>1, <1>2 DEF PhaseInv, PlacedInv, CycleInv
<1> QED BY <1>4, <1>5 DEF HomingInv

LEMMA HomingNextKept ==
    ASSUME HomingAssumption, ~KeepOnReset, HomingInv, [HomingNext]_homingVars
    PROVE  HomingInv'
<1>1. CASE HomingStep
    BY <1>1, StepType, StepPlaced, StepCycle DEF HomingInv
<1>2. CASE HomingPoll
    BY <1>2, ApproachKept, PullOffKept, DelayedKept, FinishKept, HandleResetKept DEF HomingPoll
<1>3. CASE Unlock \/ ResetKey \/ DoorOpens
    BY <1>3, UnlockKept, ResetKeyKept, DoorOpensKept
<1>4. CASE Home(Cycles)
    <2>1. Cycles \in Seq(SUBSET Axes) \ {<< >>}
        BY DEF HomingAssumption, Axes
    <2> QED BY <1>4, <2>1, HomeKept
<1>5. ASSUME NEW a \in Axes, Home(<<{a}>>)
      PROVE  HomingInv'
    <2>1. <<{a}>> \in Seq(SUBSET Axes) \ {<< >>}
        <3> DEFINE b == {a}
                   S == SUBSET Axes
        <3>1. b \in S
            OBVIOUS
        <3> HIDE DEF b, S
        <3>2. <<b>> \in Seq(S) /\ Len(<<b>>) = 1
            BY <3>1
        <3>3. Len(<< >>) = 0
            OBVIOUS
        <3>4. <<b>> # << >>
            BY <3>2, <3>3
        <3>5. <<b>> \in Seq(S) \ {<< >>}
            BY <3>2, <3>4
        <3> QED BY <3>5, Zenon DEF b, S
    <2> QED BY <1>5, <2>1, HomeKept
<1>6. CASE UNCHANGED homingVars
    <2>1. place' = place /\ homing' = homing
        BY <1>6 DEF homingVars
    <2>2. HomingType' /\ PhaseInv'
        BY <2>1 DEF HomingInv, HomingType, PhaseInv
    <2>3. PlacedInv'
        BY <2>1, StayPlaced DEF HomingInv, SameMachine
    <2>4. /\ \A a : Watched(a)' = Watched(a) /\ Squared(homing.cycle)' = Squared(homing.cycle)
          /\ Passes' = Passes /\ Last' = Last /\ Moved' = Moved /\ Halted' = Halted
          /\ \A n : Found(n)' = Found(n)
        BY <2>1 DEF Watched, Squared, Passes, Last, Moved, Halted, Found
    <2>5. EngagedInv' = EngagedInv /\ PullOffInv' = PullOffInv /\ OffsetInv' = OffsetInv
        BY <2>1, <2>4 DEF EngagedInv, PullOffInv, OffsetInv
    <2>6. ApproachInv' = ApproachInv /\ DelayInv' = DelayInv
        BY <2>1, <2>4 DEF ApproachInv, DelayInv
    <2>7. CycleInv'
        BY <2>1, <2>5, <2>6 DEF HomingInv, CycleInv
    <2> QED BY <2>2, <2>3, <2>7 DEF HomingInv
<1> QED BY <1>1, <1>2, <1>3, <1>4, <1>5, <1>6 DEF HomingNext

\* HomedIsTrue, MachineGivenBack: wherever the switches are found, whatever fails and
\* whenever a reset comes, an axis that counts as homed is where the machine position
\* says, a squared axis is square, and out of the cycle the hard limits are watched and
\* all motors run; for every travel, pull-off, number of locate passes and latency, and
\* unless the homed state is kept over a reset by the setting for it.
THEOREM HomedIsSound ==
    ASSUME HomingAssumption, ~KeepOnReset
    PROVE  HomingSpec => []HomedSound
<1>1. HomingInit => HomingInv
    BY HomingInitially
<1>2. HomingInv /\ [HomingNext]_homingVars => HomingInv'
    BY HomingNextKept
<1>3. HomingInv => HomedSound
    <2> SUFFICES ASSUME HomingInv, AtRest
                 PROVE  /\ \A a \in homing.homed : Placed(a)
                        /\ homing.limits /\ homing.disabled = {}
        BY DEF HomedSound, HomedIsTrue, MachineGivenBack, Placed
    <2> QED BY DEF HomingInv, PhaseInv, PlacedInv, AtRest, Working
<1> QED BY <1>1, <1>2, <1>3, PTL DEF HomingSpec

-----------------------------------------------------------------------------
(* The motor's inductive invariant: the steps of its ramp and those it has *)
(* still to make, add up to its move.                                      *)

MotorFields ==
    {"state", "infinite", "move", "no", "run", "down", "c", "delay", "first", "min", "denom", "n",
     "prev", "back", "position", "lost", "timer"}

\* What a motor is made of: the ramp it made is a number of steps.
Shaped(x) ==
    /\ DOMAIN x = MotorFields
    /\ x.state \in {"idle", "accel", "run", "infinite", "decel", "decelTo"}
    /\ x.move \in Int /\ x.no \in Int /\ x.run \in Int /\ x.down \in Int /\ x.position \in Int
    /\ x.n \in Nat /\ x.prev \in Int /\ x.infinite \in BOOLEAN /\ x.back \in BOOLEAN
    /\ x.denom \in Int /\ Ramp(x) \in Nat /\ x.denom = 4 * Ramp(x) + 1

\* The speed a motor runs at, and the steps to a lower one: it made them.
Steady(x) ==
    /\ x.state \in {"run", "infinite"} => x.delay = x.min
    /\ x.state \in {"infinite", "decelTo"} => x.infinite
    /\ x.state = "run" => ~x.infinite
    /\ x.state = "decelTo" => x.no =< x.run /\ x.run - x.no =< Ramp(x)

\* Where a move nobody interferes with is, after the steps it has made.
OnItsWay(x, made) ==
    /\ x.state \notin {"infinite", "decelTo"}
    /\ IF x.state = "idle" THEN made - x.move \in 2 .. 3 /\ ~x.timer ELSE made = x.no
    /\ x.state = "accel" => Ramp(x) = x.no /\ x.no =< x.run /\ x.run =< x.down /\ x.run + x.down = x.move
    /\ x.state = "run" => x.no =< x.down /\ x.down + Ramp(x) - x.move \in 0 .. 1
    /\ x.state = "decel" => x.no + Ramp(x) + 1 - x.move \in 2 .. 3

MotionFields == {"calls", "from", "asIs", "stop"}

MotorInv ==
    /\ Shaped(motor) /\ Steady(motor)
    /\ motion.from \in Int
    /\ DOMAIN motion = MotionFields
    /\ motion.asIs /\ ~motor.infinite /\ motor.move > 1 => OnItsWay(motor, Made)

LEMMA QuotientIsNat ==
    ASSUME NEW a \in Nat, NEW b \in Nat \ {0}
    PROVE  a \div b \in Nat
    OBVIOUS

\* The parts of a motor that the ramp leaves alone.
SameMove(y, x) ==
    /\ y.move = x.move /\ y.no = x.no /\ y.position = x.position /\ y.infinite = x.infinite
    /\ y.back = x.back /\ y.timer = x.timer

LEMMA FasterRamp ==
    ASSUME NEW x, Shaped(x)
    PROVE  /\ Shaped(Faster(x)) /\ SameMove(Faster(x), x) /\ Faster(x).state = x.state
           /\ Faster(x).run = x.run /\ Faster(x).down = x.down /\ Faster(x).min = x.min
           /\ Ramp(Faster(x)) = Ramp(x) + 1
<1> DEFINE c == x.c - Change(x.c, x.denom + 4)
           y == [x EXCEPT !.denom = x.denom + 4, !.c = c, !.delay = Rounded(c)]
<1>1. Faster(x) = y
    BY DEF Faster
<1> HIDE DEF c
<1>2. Shaped(y) /\ SameMove(y, x) /\ y.state = x.state /\ y.run = x.run /\ y.down = x.down
      /\ y.min = x.min /\ Ramp(y) = Ramp(x) + 1
    BY DEF Shaped, SameMove, Ramp, MotorFields
<1> QED BY <1>1, <1>2

LEMMA SlowerRamp ==
    ASSUME NEW x, Shaped(x), Ramp(x) > 0
    PROVE  /\ Shaped(Slower(x)) /\ SameMove(Slower(x), x) /\ Slower(x).state = x.state
           /\ Slower(x).run = x.run /\ Ramp(Slower(x)) = Ramp(x) - 1
<1> DEFINE c == x.c + Change(x.c, x.denom - 4)
           y == [x EXCEPT !.denom = x.denom - 4, !.c = c, !.delay = Rounded(c)]
<1>1. Slower(x) = y
    BY DEF Slower
<1> HIDE DEF c
<1>2. PICK r \in Nat \ {0} : r = Ramp(x) /\ x.denom = 4 * r + 1
    BY DEF Shaped
<1>3. y.denom = 4 * (r - 1) + 1
    BY <1>2 DEF Shaped, MotorFields
<1>4. Ramp(y) = r - 1
    BY <1>2, <1>3 DEF Ramp
<1>5. Shaped(y) /\ SameMove(y, x) /\ y.state = x.state /\ y.run = x.run
    BY <1>2, <1>3, <1>4 DEF Shaped, SameMove, MotorFields
<1> QED BY <1>1, <1>2, <1>4, <1>5

LEMMA CruiseReached ==
    ASSUME NEW x, Shaped(x)
    PROVE  /\ Shaped(Cruise(x)) /\ SameMove(Cruise(x), x) /\ Steady(Cruise(x))
           /\ Cruise(x).state = IF x.infinite THEN "infinite" ELSE "run"
           /\ Cruise(x).down = x.move - x.no /\ Ramp(Cruise(x)) = Ramp(x)
<1> DEFINE y == [x EXCEPT !.state = IF x.infinite THEN "infinite" ELSE "run", !.delay = x.min,
                          !.down = x.move - x.no]
<1>1. Cruise(x) = y
    BY DEF Cruise, Cruising
<1>2. Shaped(y) /\ SameMove(y, x) /\ y.down = x.move - x.no /\ Ramp(y) = Ramp(x)
      /\ y.state = (IF x.infinite THEN "infinite" ELSE "run")
    BY DEF Shaped, SameMove, Ramp, MotorFields
<1>3. Steady(y)
    BY <1>2 DEF Shaped, Steady, MotorFields, SameMove
<1> QED BY <1>1, <1>2, <1>3

LEMMA AccelerateKept ==
    ASSUME NEW x, Shaped(x), x.state = "accel"
    PROVE  LET y == Accelerate(x)
           IN /\ Shaped(y) /\ SameMove(y, x) /\ Steady(y)
              /\ y.state \in {"accel", "run", "infinite", "decel"}
              /\ (~x.infinite /\ OnItsWay(x, x.no)) =>
                    /\ y.state # "infinite"
                    /\ y.state = "accel" => /\ Ramp(y) = y.no + 1 /\ y.no + 1 =< y.run
                                            /\ y.run =< y.down /\ y.run + y.down = y.move
                    /\ y.state = "run" => /\ y.no + 1 =< y.down /\ y.down + Ramp(y) - y.move \in 0 .. 1
                    /\ y.state = "decel" => y.no + 1 + Ramp(y) + 1 - y.move \in 2 .. 3
<1>1. CASE x.no # x.run /\ Faster(x).delay < x.min
    <2> DEFINE z == Faster(x)
    <2>1. Accelerate(x) = Cruise(z)
        BY <1>1 DEF Accelerate
    <2>2. Shaped(z) /\ SameMove(z, x) /\ Ramp(z) = Ramp(x) + 1
        BY FasterRamp
    <2> HIDE DEF z
    <2>3. /\ Shaped(Cruise(z)) /\ SameMove(Cruise(z), z) /\ Steady(Cruise(z))
          /\ Cruise(z).state = IF z.infinite THEN "infinite" ELSE "run"
          /\ Cruise(z).down = z.move - z.no /\ Ramp(Cruise(z)) = Ramp(z)
        BY <2>2, CruiseReached
    <2>4. SameMove(Cruise(z), x)
        BY <2>2, <2>3 DEF SameMove
    <2>5. ASSUME ~x.infinite, OnItsWay(x, x.no)
          PROVE  /\ Cruise(z).state = "run" /\ x.no + 1 =< Cruise(z).down
                 /\ Cruise(z).down + Ramp(Cruise(z)) - x.move \in 0 .. 1
        <3>1. Cruise(z).state = "run"
            BY <2>2, <2>3, <2>5 DEF SameMove
        <3>2. Cruise(z).down = x.move - x.no /\ Ramp(Cruise(z)) = x.no + 1
            BY <2>2, <2>3, <2>5 DEF SameMove, OnItsWay
        <3>3. /\ x.no \in Int /\ x.run \in Int /\ x.down \in Int /\ x.move \in Int
              /\ x.no < x.run /\ x.run =< x.down /\ x.run + x.down = x.move
            BY <1>1, <2>5 DEF OnItsWay, Shaped
        <3> QED BY <3>1, <3>2, <3>3
    <2> QED BY <2>1, <2>2, <2>3, <2>4, <2>5 DEF SameMove
<1>2. CASE x.no # x.run /\ ~(Faster(x).delay < x.min)
    <2> DEFINE z == Faster(x)
    <2>1. Accelerate(x) = z
        BY <1>2 DEF Accelerate
    <2>2. /\ Shaped(z) /\ SameMove(z, x) /\ Ramp(z) = Ramp(x) + 1 /\ z.state = x.state
          /\ z.run = x.run /\ z.down = x.down
        BY FasterRamp
    <2> HIDE DEF z
    <2>3. Steady(z)
        BY <2>2 DEF Steady
    <2>4. ASSUME ~x.infinite, OnItsWay(x, x.no)
          PROVE  /\ Ramp(z) = z.no + 1 /\ z.no + 1 =< z.run /\ z.run =< z.down /\ z.run + z.down = z.move
        BY <1>2, <2>2, <2>4 DEF SameMove, OnItsWay, Shaped
    <2> QED BY <2>1, <2>2, <2>3, <2>4
<1>3. CASE x.no = x.run /\ x.run = x.down
    <2> DEFINE z == [x EXCEPT !.state = "decel"]
    <2>1. Accelerate(x) = z
        BY <1>3 DEF Accelerate
    <2>2. Shaped(z) /\ SameMove(z, x) /\ z.state = "decel" /\ Ramp(z) = Ramp(x)
        BY DEF Shaped, SameMove, Ramp, MotorFields
    <2> HIDE DEF z
    <2>3. Steady(z)
        BY <2>2 DEF Steady
    <2>4. ASSUME ~x.infinite, OnItsWay(x, x.no)
          PROVE  z.no + 1 + Ramp(z) + 1 - z.move \in 2 .. 3
        BY <1>3, <2>2, <2>4 DEF SameMove, OnItsWay, Shaped
    <2> QED BY <2>1, <2>2, <2>3, <2>4
<1>4. CASE x.no = x.run /\ x.run # x.down
    <2> DEFINE z == [x EXCEPT !.state = IF x.infinite THEN "infinite" ELSE "run", !.delay = x.min]
    <2>1. Accelerate(x) = z
        BY <1>4 DEF Accelerate, Cruising
    <2>2. /\ Shaped(z) /\ SameMove(z, x) /\ z.state = (IF x.infinite THEN "infinite" ELSE "run")
          /\ Ramp(z) = Ramp(x) /\ z.down = x.down /\ z.delay = z.min
        BY DEF Shaped, SameMove, Ramp, MotorFields
    <2> HIDE DEF z
    <2>3. Steady(z)
        BY <2>2 DEF Steady, Shaped, SameMove
    <2>4. ASSUME ~x.infinite, OnItsWay(x, x.no)
          PROVE  /\ z.state = "run" /\ z.no + 1 =< z.down /\ z.down + Ramp(z) - z.move \in 0 .. 1
        BY <1>4, <2>2, <2>4 DEF SameMove, OnItsWay, Shaped
    <2> QED BY <2>1, <2>2, <2>3, <2>4
<1> QED BY <1>1, <1>2, <1>3, <1>4
LEMMA DecelerateKept ==
    ASSUME NEW x, Shaped(x), x.state = "decel"
    PROVE  LET y == Decelerate(x)
           IN /\ Shaped(y) /\ SameMove(y, x)
              /\ \/ y.state = "decel" /\ Ramp(y) = Ramp(x) - 1
                 \/ y.state = "idle" /\ Ramp(y) = 0 /\ Ramp(x) = 0
<1>1. CASE x.denom < 2
    <2> DEFINE y == [x EXCEPT !.state = "idle", !.prev = 0, !.n = 0]
    <2>1. Decelerate(x) = y
        BY <1>1 DEF Decelerate
    <2>2. Shaped(y) /\ SameMove(y, x) /\ y.state = "idle" /\ Ramp(y) = Ramp(x)
        BY DEF Shaped, SameMove, Ramp, MotorFields
    <2>3. Ramp(x) = 0
        BY <1>1 DEF Shaped
    <2> QED BY <2>1, <2>2, <2>3
<1>2. CASE ~(x.denom < 2)
    <2> DEFINE c == x.c + Change(x.c, x.denom)
               y == [x EXCEPT !.c = c, !.delay = (c - Scale \div 2) \div Scale, !.denom = x.denom - 4]
    <2>1. Decelerate(x) = y
        BY <1>2 DEF Decelerate
    <2>2. PICK r \in Nat \ {0} : r = Ramp(x) /\ x.denom = 4 * r + 1
        BY <1>2 DEF Shaped
    <2> HIDE DEF c
    <2>3. y.denom = 4 * (r - 1) + 1
        BY <2>2 DEF Shaped, MotorFields
    <2>4. Ramp(y) = r - 1
        BY <2>3 DEF Ramp
    <2>5. Shaped(y) /\ SameMove(y, x) /\ y.state = "decel"
        BY <2>2, <2>3, <2>4 DEF Shaped, SameMove, MotorFields
    <2> QED BY <2>1, <2>2, <2>4, <2>5
<1> QED BY <1>1, <1>2 DEF Shaped

LEMMA DecelerateToKept ==
    ASSUME NEW x, Shaped(x), x.state = "decelTo", Steady(x)
    PROVE  LET y == DecelerateTo(x)
           IN /\ Shaped(y) /\ SameMove(y, x) /\ x.infinite
              /\ \/ y.state = "decelTo" /\ y.no + 1 =< y.run /\ y.run - y.no =< Ramp(y) + 1
                 \/ y.state = "infinite" /\ y.delay = y.min
<1>0. x.infinite
    BY DEF Steady
<1>1. CASE x.no # x.run
    <2>1. DecelerateTo(x) = Slower(x)
        BY <1>1 DEF DecelerateTo
    <2>2. /\ x.no \in Int /\ x.run \in Int /\ Ramp(x) \in Nat
          /\ x.no < x.run /\ x.run - x.no =< Ramp(x)
        BY <1>1 DEF Shaped, Steady
    <2>3. Ramp(x) > 0
        BY <2>2
    <2>4. /\ Shaped(Slower(x)) /\ SameMove(Slower(x), x) /\ Slower(x).state = x.state
          /\ Slower(x).run = x.run /\ Ramp(Slower(x)) = Ramp(x) - 1
        BY <2>3, SlowerRamp
    <2>5. Slower(x).no = x.no
        BY <2>4 DEF SameMove
    <2> QED BY <1>0, <2>1, <2>2, <2>4, <2>5
<1>2. CASE x.no = x.run
    <2> DEFINE y == [x EXCEPT !.delay = x.min, !.state = "infinite"]
    <2>1. DecelerateTo(x) = y
        BY <1>0, <1>2 DEF DecelerateTo, Cruising
    <2>2. Shaped(y) /\ SameMove(y, x) /\ y.state = "infinite" /\ y.delay = y.min
        BY DEF Shaped, SameMove, Ramp, MotorFields
    <2> QED BY <1>0, <2>1, <2>2
<1> QED BY <1>1, <1>2

\* A step is counted, and taken in the direction of the move.
Taken(y, x) ==
    /\ y.no = x.no + 1 /\ y.position = (IF x.back THEN x.position - 1 ELSE x.position + 1)
    /\ y.state = x.state /\ y.run = x.run /\ y.down = x.down /\ y.denom = x.denom
    /\ y.delay = x.delay /\ y.min = x.min /\ y.n = x.n
    /\ y.move = x.move /\ y.infinite = x.infinite /\ y.back = x.back /\ y.timer = x.timer

LEMMA SteppedTaken ==
    ASSUME NEW x, Shaped(x)
    PROVE  Shaped(Stepped(x)) /\ Taken(Stepped(x), x) /\ Ramp(Stepped(x)) = Ramp(x)
BY DEF Shaped, Stepped, Taken, Ramp, MotorFields

\* A motor about to take a step, which makes it steady and keeps it on its way.
SteadyAhead(u) ==
    /\ u.state \in {"run", "infinite"} => u.delay = u.min
    /\ u.state \in {"infinite", "decelTo"} => u.infinite
    /\ u.state = "run" => ~u.infinite
    /\ u.state = "decelTo" => u.no + 1 =< u.run /\ u.run - u.no =< Ramp(u) + 1

WayAhead(u) ==
    /\ u.state \notin {"infinite", "decelTo"}
    /\ u.state = "idle" => u.no + 1 - u.move \in 2 .. 3
    /\ u.state = "accel" => /\ Ramp(u) = u.no + 1 /\ u.no + 1 =< u.run
                            /\ u.run =< u.down /\ u.run + u.down = u.move
    /\ u.state = "run" => u.no + 1 =< u.down /\ u.down + Ramp(u) - u.move \in 0 .. 1
    /\ u.state = "decel" => u.no + 1 + Ramp(u) + 1 - u.move \in 2 .. 3

\* The state MotorRun takes the step in.
Turned(x) ==
    CASE x.state = "accel"   -> Accelerate(x)
      [] x.state = "run"     -> IF x.no = x.down THEN [x EXCEPT !.state = "decel"] ELSE x
      [] x.state = "decel"   -> Decelerate(x)
      [] x.state = "decelTo" -> DecelerateTo(x)
      [] OTHER -> x

LEMMA TurnedAhead ==
    ASSUME NEW x, Shaped(x), Steady(x)
    PROVE  LET u == Turned(x)
           IN /\ Shaped(u) /\ SameMove(u, x) /\ SteadyAhead(u)
              /\ (x.state # "idle" /\ ~x.infinite /\ OnItsWay(x, x.no)) => WayAhead(u)
<1>1. CASE x.state = "accel"
    <2> DEFINE u == Accelerate(x)
    <2>1. Turned(x) = u
        BY <1>1 DEF Turned
    <2>2. /\ Shaped(u) /\ SameMove(u, x) /\ Steady(u)
          /\ u.state \in {"accel", "run", "infinite", "decel"}
          /\ (~x.infinite /\ OnItsWay(x, x.no)) =>
                /\ u.state # "infinite"
                /\ u.state = "accel" => /\ Ramp(u) = u.no + 1 /\ u.no + 1 =< u.run
                                        /\ u.run =< u.down /\ u.run + u.down = u.move
                /\ u.state = "run" => /\ u.no + 1 =< u.down /\ u.down + Ramp(u) - u.move \in 0 .. 1
                /\ u.state = "decel" => u.no + 1 + Ramp(u) + 1 - u.move \in 2 .. 3
        BY <1>1, AccelerateKept
    <2> HIDE DEF u
    <2>3. SteadyAhead(u)
        BY <2>2 DEF Steady, SteadyAhead
    <2>4. (~x.infinite /\ OnItsWay(x, x.no)) => WayAhead(u)
        BY <2>2 DEF WayAhead
    <2> QED BY <2>1, <2>2, <2>3, <2>4
<1>2. CASE x.state = "run" /\ x.no = x.down
    <2> DEFINE u == [x EXCEPT !.state = "decel"]
    <2>1. Turned(x) = u
        BY <1>2 DEF Turned
    <2>2. Shaped(u) /\ SameMove(u, x) /\ u.state = "decel" /\ Ramp(u) = Ramp(x)
        BY DEF Shaped, SameMove, Ramp, MotorFields
    <2> HIDE DEF u
    <2>3. SteadyAhead(u)
        BY <2>2 DEF SteadyAhead
    <2>4. OnItsWay(x, x.no) => WayAhead(u)
        BY <1>2, <2>2 DEF WayAhead, OnItsWay, Shaped, SameMove
    <2> QED BY <2>1, <2>2, <2>3, <2>4
<1>3. CASE x.state = "run" /\ x.no # x.down
    <2>1. Turned(x) = x
        BY <1>3 DEF Turned
    <2>2. SteadyAhead(x) /\ SameMove(x, x)
        BY <1>3 DEF Steady, SteadyAhead, SameMove
    <2>3. ASSUME OnItsWay(x, x.no)
          PROVE  WayAhead(x)
        <3>1. x.no =< x.down /\ x.down + Ramp(x) - x.move \in 0 .. 1 /\ x.no \in Int /\ x.down \in Int
            BY <1>3, <2>3 DEF OnItsWay, Shaped
        <3>2. x.no + 1 =< x.down
            BY <1>3, <3>1
        <3> QED BY <1>3, <3>1, <3>2 DEF WayAhead
    <2> QED BY <2>1, <2>2, <2>3
<1>4. CASE x.state = "decel"
    <2> DEFINE u == Decelerate(x)
    <2>1. Turned(x) = u
        BY <1>4 DEF Turned
    <2>2. /\ Shaped(u) /\ SameMove(u, x)
          /\ \/ u.state = "decel" /\ Ramp(u) = Ramp(x) - 1
             \/ u.state = "idle" /\ Ramp(u) = 0 /\ Ramp(x) = 0
        BY <1>4, DecelerateKept
    <2> HIDE DEF u
    <2>3. SteadyAhead(u)
        BY <2>2 DEF SteadyAhead
    <2>4. ASSUME OnItsWay(x, x.no)
          PROVE  WayAhead(u)
        <3>1. x.no + Ramp(x) + 1 - x.move \in 2 .. 3 /\ x.no \in Int /\ x.move \in Int /\ Ramp(x) \in Nat
            BY <1>4, <2>4 DEF OnItsWay, Shaped
        <3>2. u.no = x.no /\ u.move = x.move
            BY <2>2 DEF SameMove
        <3>3. CASE u.state = "decel"
            BY <2>2, <3>1, <3>2, <3>3 DEF WayAhead
        <3>4. CASE u.state = "idle"
            BY <2>2, <3>1, <3>2, <3>4 DEF WayAhead
        <3> QED BY <2>2, <3>3, <3>4
    <2> QED BY <2>1, <2>2, <2>3, <2>4
<1>5. CASE x.state = "decelTo"
    <2> DEFINE u == DecelerateTo(x)
    <2>1. Turned(x) = u
        BY <1>5 DEF Turned
    <2>2. /\ Shaped(u) /\ SameMove(u, x) /\ x.infinite
          /\ \/ u.state = "decelTo" /\ u.no + 1 =< u.run /\ u.run - u.no =< Ramp(u) + 1
             \/ u.state = "infinite" /\ u.delay = u.min
        BY <1>5, DecelerateToKept
    <2> HIDE DEF u
    <2>3. SteadyAhead(u)
        BY <2>2 DEF SteadyAhead, SameMove
    <2> QED BY <2>1, <2>2, <2>3
<1>6. CASE x.state \in {"idle", "infinite"}
    <2>1. Turned(x) = x
        BY <1>6 DEF Turned
    <2>2. SteadyAhead(x) /\ SameMove(x, x)
        BY <1>6 DEF Steady, SteadyAhead, SameMove
    <2>3. (x.state # "idle" /\ OnItsWay(x, x.no)) => FALSE
        BY <1>6 DEF OnItsWay
    <2> QED BY <2>1, <2>2, <2>3
<1> QED BY <1>1, <1>2, <1>3, <1>4, <1>5, <1>6 DEF Shaped

LEMMA IrqKept ==
    ASSUME NEW x, Shaped(x), Steady(x)
    PROVE  LET y == MotorRun(x)
               z == [y EXCEPT !.timer = y.state # "idle"]
           IN /\ Shaped(z) /\ Steady(z)
              /\ z.move = x.move /\ z.infinite = x.infinite /\ z.back = x.back
              /\ z.position = IF x.back THEN x.position - 1 ELSE x.position + 1
              /\ (x.state # "idle" /\ ~x.infinite /\ OnItsWay(x, x.no)) => OnItsWay(z, x.no + 1)
<1> DEFINE u == Turned(x)
           y == Stepped(u)
           z == [y EXCEPT !.timer = y.state # "idle"]
<1>1. MotorRun(x) = y
    BY DEF MotorRun, Turned
<1>2. /\ Shaped(u) /\ SameMove(u, x) /\ SteadyAhead(u)
      /\ (x.state # "idle" /\ ~x.infinite /\ OnItsWay(x, x.no)) => WayAhead(u)
    BY TurnedAhead
<1> HIDE DEF u
<1>3. Shaped(y) /\ Taken(y, u) /\ Ramp(y) = Ramp(u)
    BY <1>2, SteppedTaken
<1> HIDE DEF y
<1>4. /\ Shaped(z) /\ z.timer = (y.state # "idle") /\ Ramp(z) = Ramp(u)
      /\ z.no = u.no + 1 /\ z.state = u.state /\ z.run = u.run /\ z.down = u.down
      /\ z.delay = u.delay /\ z.min = u.min /\ z.move = u.move /\ z.infinite = u.infinite
      /\ z.back = u.back /\ z.position = y.position
    <2>1. /\ Shaped(z) /\ z.timer = (y.state # "idle") /\ Ramp(z) = Ramp(y)
          /\ z.no = y.no /\ z.state = y.state /\ z.run = y.run /\ z.down = y.down
          /\ z.delay = y.delay /\ z.min = y.min /\ z.move = y.move /\ z.infinite = y.infinite
          /\ z.back = y.back /\ z.position = y.position
        BY <1>3 DEF Shaped, Ramp, MotorFields
    <2> HIDE DEF z
    <2> QED BY <1>3, <2>1 DEF Taken
<1>5. y.position = IF x.back THEN x.position - 1 ELSE x.position + 1
    BY <1>2, <1>3 DEF Taken, SameMove
<1> HIDE DEF z
<1>6. Steady(z)
    BY <1>2, <1>4 DEF Steady, SteadyAhead, Shaped
<1>7. ASSUME x.state # "idle", ~x.infinite, OnItsWay(x, x.no)
      PROVE  OnItsWay(z, x.no + 1)
    <2>1. WayAhead(u)
        BY <1>2, <1>7
    <2>2. z.no = x.no + 1 /\ (z.state = "idle" => ~z.timer)
        BY <1>2, <1>3, <1>4 DEF SameMove, Taken
    <2> QED BY <1>2, <1>4, <2>1, <2>2 DEF OnItsWay, WayAhead, SameMove, Shaped
<1> QED BY <1>1, <1>2, <1>4, <1>5, <1>6, <1>7 DEF SameMove, z

LEMMA SpedKept ==
    ASSUME MotorAssumption, NEW speed \in Speeds, NEW x, Shaped(x), Steady(x),
           x.state = "idle" \/ (x.state = "infinite" /\ ~TooNear(x, speed))
    PROVE  LET y == Sped(x, speed)
           IN /\ Shaped(y) /\ SameMove(y, x) /\ Steady(y)
              /\ x.state = "idle" => y.state = "idle"
<1> DEFINE steps == (speed * speed) \div (2 * Acceleration)
           n == IF steps = 0 THEN 1 ELSE steps
           min == 1000000 \div speed
           y == [x EXCEPT !.min = min, !.n = n]
           pn == y.n - Ramp(x)
           z == IF x.state = "idle" THEN y
                ELSE IF speed > x.prev THEN Up(y, pn)
                ELSE IF x.state = "decel" THEN y ELSE Down(y, pn)
           first == IF z.first < y.min THEN y.min ELSE z.first
           w == [z EXCEPT !.prev = speed, !.first = IF @ < y.min THEN y.min ELSE @]
<1>0. speed \in Nat \ {0}
    BY DEF MotorAssumption
<1>1. n \in Nat
    <2>1. speed * speed \in Nat /\ 2 * Acceleration \in Nat \ {0}
        BY <1>0 DEF MotorAssumption
    <2>2. steps \in Nat
        BY <2>1, QuotientIsNat
    <2> QED BY <2>2
<1>2. Sped(x, speed) = IF speed = x.prev THEN x ELSE IF x.state # "idle" /\ pn = 0 THEN y ELSE w
    BY DEF Sped
<1> HIDE DEF steps, n, min
<1>3. /\ Shaped(y) /\ SameMove(y, x) /\ y.n = n /\ y.state = x.state /\ Ramp(y) = Ramp(x)
      /\ y.prev = x.prev /\ pn \in Int /\ pn = n - Ramp(x)
    BY <1>1 DEF Shaped, SameMove, Ramp, MotorFields
<1> HIDE DEF y, pn
<1>4. CASE speed = x.prev
    BY <1>2, <1>4 DEF SameMove
<1>5. ASSUME speed # x.prev, Shaped(z)
      PROVE  /\ Shaped(w) /\ w.state = z.state /\ w.n = z.n /\ w.run = z.run /\ w.infinite = z.infinite
             /\ w.no = z.no /\ Ramp(w) = Ramp(z)
             /\ SameMove(z, x) => SameMove(w, x)
    <2> HIDE DEF z
    <2>1. w = [z EXCEPT !.prev = speed, !.first = first]
        BY <1>5 DEF Shaped, MotorFields
    <2> HIDE DEF w, first
    <2> QED BY <1>0, <1>5, <2>1 DEF Shaped, MotorFields, Ramp, SameMove
<1>6. CASE speed # x.prev /\ x.state = "idle"
    <2>1. z = y
        BY <1>6
    <2>2. Sped(x, speed) = w
        BY <1>2, <1>6
    <2> HIDE DEF z, w
    <2>3. Shaped(w) /\ SameMove(w, x) /\ w.state = "idle"
        BY <1>3, <1>5, <1>6, <2>1
    <2> QED BY <2>2, <2>3 DEF Steady
<1>7. CASE speed # x.prev /\ x.state = "infinite" /\ speed > x.prev
    <2>1. z = [y EXCEPT !.run = y.no + pn, !.state = "accel"]
        BY <1>3, <1>7 DEF Up
    <2>2. Shaped(z) /\ SameMove(z, y) /\ z.n = n /\ z.state = "accel"
        <3> HIDE DEF z
        <3> QED BY <1>3, <2>1 DEF Shaped, MotorFields, SameMove, Ramp
    <2>3. pn # 0
        <3> SUFFICES ASSUME pn = 0 PROVE FALSE
            OBVIOUS
        <3>1. Sped(x, speed) = y
            BY <1>2, <1>7
        <3> QED BY <1>3, <1>7, <3>1 DEF TooNear
    <2>4. Sped(x, speed) = w
        BY <1>2, <1>7, <2>3
    <2> HIDE DEF z, w
    <2>5. Shaped(w) /\ SameMove(w, x) /\ w.state = "accel"
        BY <1>3, <1>5, <1>7, <2>2 DEF SameMove
    <2> QED BY <1>7, <2>4, <2>5 DEF Steady
<1>8. CASE speed # x.prev /\ x.state = "infinite" /\ ~(speed > x.prev)
    <2>1. z = [y EXCEPT !.state = "decelTo", !.run = y.no - pn]
        BY <1>3, <1>8 DEF Down
    <2>2. /\ Shaped(z) /\ SameMove(z, y) /\ z.n = n /\ z.state = "decelTo" /\ z.run = y.no - pn
          /\ z.no = y.no /\ Ramp(z) = Ramp(x)
        <3> HIDE DEF z
        <3> QED BY <1>3, <2>1 DEF Shaped, MotorFields, SameMove, Ramp
    <2>3. pn # 0
        <3> SUFFICES ASSUME pn = 0 PROVE FALSE
            OBVIOUS
        <3>1. Sped(x, speed) = y
            BY <1>2, <1>8
        <3> QED BY <1>3, <1>8, <3>1 DEF TooNear
    <2>4. Sped(x, speed) = w
        BY <1>2, <1>8, <2>3
    <2> HIDE DEF z, w
    <2>5. /\ Shaped(w) /\ SameMove(w, x) /\ w.state = "decelTo" /\ w.n = n
          /\ w.run = w.no - pn /\ Ramp(w) = Ramp(x)
        BY <1>3, <1>5, <1>8, <2>2 DEF SameMove
    <2>6. speed < x.prev
        BY <1>0, <1>8 DEF Shaped
    <2>7. pn < 0
        BY <1>3, <1>8, <2>3, <2>4, <2>5, <2>6 DEF TooNear
    <2>8. x.infinite /\ w.infinite
        BY <1>8, <2>5 DEF Steady, SameMove
    <2>9. w.no =< w.run /\ w.run - w.no =< Ramp(w)
        BY <1>1, <1>3, <2>5, <2>7 DEF Shaped
    <2>10. Steady(w)
        BY <2>5, <2>8, <2>9 DEF Steady
    <2> QED BY <1>8, <2>4, <2>5, <2>10
<1> QED BY <1>4, <1>6, <1>7, <1>8

\* Where a move that began at `from' has got to.
MadeFrom(x, from) == IF x.back THEN from - x.position ELSE x.position - from

LEMMA StartedKept ==
    ASSUME NEW x, Shaped(x), x.state = "idle", NEW steps \in Int, NEW infinite \in BOOLEAN
    PROVE  LET y == Started(x, steps, infinite)
           IN /\ Shaped(y) /\ Steady(y)
              /\ (~y.infinite /\ y.move > 1) => OnItsWay(y, MadeFrom(y, x.position))
<1> DEFINE length == IF steps < 0 THEN -steps ELSE steps
           half == IF length \div 2 > x.n THEN x.n ELSE length \div 2
           y == [x EXCEPT !.infinite = infinite, !.move = length, !.back = steps < 0]
           run == IF infinite THEN x.n ELSE half
           down == IF infinite THEN x.n + 1 ELSE length - half
           w == [y EXCEPT !.run = run, !.down = down,
                          !.state = "accel", !.delay = x.first, !.c = x.first * Scale,
                          !.denom = 1, !.no = 0, !.timer = TRUE]
<1>1. Started(x, steps, infinite) = IF length = 0 /\ ~infinite THEN y
                                    ELSE IF length = 1 /\ ~infinite THEN Stepped(y) ELSE w
    BY DEF Started
<1>2. length \in Nat /\ half \in Int /\ half =< length - half /\ half >= 0
    BY DEF Shaped
<1> HIDE DEF length, half
<1>3. /\ Shaped(y) /\ y.state = "idle" /\ y.move = length /\ y.infinite = infinite
      /\ y.position = x.position /\ y.back = (steps < 0)
    BY <1>2 DEF Shaped, MotorFields, Ramp
<1> HIDE DEF y
<1>4. CASE length = 1 /\ ~infinite
    <2>1. Shaped(Stepped(y)) /\ Taken(Stepped(y), y)
        BY <1>3, SteppedTaken
    <2>2. Steady(Stepped(y)) /\ ~(Stepped(y).move > 1)
        BY <1>3, <1>4, <2>1 DEF Steady, Taken
    <2> QED BY <1>1, <1>4, <2>1, <2>2
<1>6. CASE length = 0 /\ ~infinite
    BY <1>1, <1>3, <1>6 DEF Steady
<1>5. CASE ~(length \in {0, 1} /\ ~infinite)
    <2>1. Started(x, steps, infinite) = w
        BY <1>1, <1>5
    <2>2. run \in Int /\ down \in Int /\ (~infinite => run = half /\ down = length - half)
        BY <1>2 DEF Shaped
    <2> HIDE DEF run, down
    <2>3. /\ DOMAIN w = MotorFields /\ w.state = "accel" /\ w.denom = 1 /\ w.no = 0 /\ w.run = run
          /\ w.down = down /\ w.move = length /\ w.infinite = infinite /\ w.back = y.back
          /\ w.position = x.position /\ w.n = y.n /\ w.prev = y.prev
        BY <1>3 DEF Shaped, MotorFields
    <2> HIDE DEF w
    <2>4. Ramp(w) = 0
        BY <2>3 DEF Ramp
    <2>5. Shaped(w)
        BY <1>2, <1>3, <2>2, <2>3, <2>4 DEF Shaped
    <2>6. Steady(w)
        BY <2>3 DEF Steady
    <2>7. MadeFrom(w, x.position) = 0
        BY <2>3 DEF MadeFrom, Shaped
    <2>8. ~infinite => OnItsWay(w, 0)
        BY <1>2, <2>2, <2>3, <2>4 DEF OnItsWay
    <2> QED BY <2>1, <2>3, <2>5, <2>6, <2>7, <2>8
<1> QED BY <1>4, <1>5, <1>6

LEMMA StoppingKept ==
    ASSUME NEW x, Shaped(x), Steady(x)
    PROVE  Shaped(Stopping(x)) /\ Steady(Stopping(x))
<1>1. CASE x.state = "accel"
    <2> DEFINE y == [x EXCEPT !.no = x.down - 1, !.run = x.down]
    <2>1. Stopping(x) = y
        BY <1>1 DEF Stopping
    <2>2. Shaped(y) /\ y.state = "accel"
        BY <1>1 DEF Shaped, MotorFields, Ramp
    <2> HIDE DEF y
    <2> QED BY <2>1, <2>2 DEF Steady
<1>2. CASE x.state = "run"
    <2> DEFINE y == [x EXCEPT !.no = x.down - 1]
    <2>1. Stopping(x) = y
        BY <1>2 DEF Stopping
    <2>2. Shaped(y) /\ y.state = "run" /\ y.delay = x.delay /\ y.min = x.min /\ y.infinite = x.infinite
        BY <1>2 DEF Shaped, MotorFields, Ramp
    <2> HIDE DEF y
    <2> QED BY <1>2, <2>1, <2>2 DEF Steady
<1>3. CASE x.state \in {"infinite", "decelTo"}
    <2> DEFINE y == [x EXCEPT !.state = "decel"]
    <2>1. Stopping(x) = y
        BY <1>3 DEF Stopping
    <2>2. Shaped(y) /\ y.state = "decel"
        BY <1>3 DEF Shaped, MotorFields, Ramp
    <2> HIDE DEF y
    <2> QED BY <2>1, <2>2 DEF Steady
<1>4. CASE x.state \in {"idle", "decel"}
    BY <1>4 DEF Stopping
<1> QED BY <1>1, <1>2, <1>3, <1>4 DEF Shaped

LEMMA MotorStepKept ==
    ASSUME MotorAssumption, MotorWindows = {}, MotorInv, MotorNext
    PROVE  MotorInv'
<1>1. ASSUME Irq
      PROVE  MotorInv'
    <2> DEFINE y == MotorRun(motor)
               z == [y EXCEPT !.timer = y.state # "idle"]
    <2>1. motor' = z /\ motion' = motion /\ motor.timer
        BY <1>1 DEF Irq
    <2>2. /\ Shaped(z) /\ Steady(z)
          /\ z.move = motor.move /\ z.infinite = motor.infinite /\ z.back = motor.back
          /\ z.position = IF motor.back THEN motor.position - 1 ELSE motor.position + 1
          /\ (motor.state # "idle" /\ ~motor.infinite /\ OnItsWay(motor, motor.no))
                => OnItsWay(z, motor.no + 1)
        BY IrqKept DEF MotorInv
    <2> HIDE DEF z
    <2>3. ASSUME motion.asIs, ~motor.infinite, motor.move > 1
          PROVE  OnItsWay(z, MadeFrom(z, motion.from))
        <3>1. OnItsWay(motor, Made)
            BY <2>3 DEF MotorInv
        <3>2. motor.state # "idle" /\ Made = motor.no
            BY <2>1, <3>1 DEF OnItsWay
        <3>3. MadeFrom(z, motion.from) = motor.no + 1
            BY <2>2, <3>2 DEF Made, MadeFrom, MotorInv, Shaped
        <3> QED BY <2>2, <2>3, <3>1, <3>2, <3>3
    <2>4. Made' = MadeFrom(z, motion.from)
        BY <2>1 DEF Made, MadeFrom
    <2> QED BY <2>1, <2>2, <2>3, <2>4 DEF MotorInv
<1>2. ASSUME Move
      PROVE  MotorInv'
    <2>1. PICK steps \in Moves, speed \in Speeds, infinite \in BOOLEAN :
            /\ motor' = Started(Sped(motor, speed), steps, infinite)
            /\ motion' = [calls |-> motion.calls + 1, from |-> motor.position, asIs |-> TRUE, stop |-> FALSE]
        BY <1>2 DEF Move
    <2> DEFINE x == Sped(motor, speed)
               y == Started(x, steps, infinite)
    <2>2. motor.state = "idle" /\ steps \in Int
        BY <1>2 DEF Move, Moving, MotorAssumption
    <2>3. Shaped(x) /\ SameMove(x, motor) /\ x.state = "idle"
        BY <2>2, SpedKept DEF MotorInv
    <2> HIDE DEF x
    <2>4. /\ Shaped(y) /\ Steady(y)
          /\ (~y.infinite /\ y.move > 1) => OnItsWay(y, MadeFrom(y, x.position))
        BY <2>2, <2>3, StartedKept
    <2>5. motor' = y /\ x.position = motor.position /\ motor.position \in Int
        BY <2>1, <2>3 DEF SameMove, x, MotorInv, Shaped
    <2> HIDE DEF y
    <2>6. DOMAIN motion' = MotionFields /\ motion'.from = motor.position
        BY <2>1 DEF MotionFields
    <2>7. Made' = MadeFrom(y, x.position)
        BY <2>5, <2>6 DEF Made, MadeFrom
    <2> QED BY <2>4, <2>5, <2>6, <2>7 DEF MotorInv
<1>3. ASSUME SetSpeed
      PROVE  MotorInv'
    <2>1. PICK speed \in Speeds : /\ motor.state \in {"idle", "infinite"}
                                  /\ ~Moving \/ ~TooNear(motor, speed)
                                  /\ motor' = Sped(motor, speed)
        BY <1>3 DEF SetSpeed
    <2>2. motor.state = "idle" \/ (motor.state = "infinite" /\ ~TooNear(motor, speed))
        BY <2>1 DEF Moving
    <2>3. Shaped(motor') /\ Steady(motor')
        BY <2>1, <2>2, SpedKept DEF MotorInv
    <2>4. motion' = [motion EXCEPT !.calls = motion.calls + 1, !.asIs = FALSE]
        BY <1>3 DEF SetSpeed, MotorInv
    <2>5. DOMAIN motion' = MotionFields /\ motion'.from = motion.from /\ motion'.asIs = FALSE
        BY <2>4 DEF MotorInv, MotionFields
    <2> QED BY <2>3, <2>5 DEF MotorInv
<1>4. ASSUME Stop
      PROVE  MotorInv'
    <2>1. motor' = Stopping(motor) /\ motion' = [motion EXCEPT !.stop = TRUE, !.asIs = FALSE]
        BY <1>4 DEF Stop
    <2>2. Shaped(motor') /\ Steady(motor')
        BY <2>1, StoppingKept DEF MotorInv
    <2>3. DOMAIN motion' = MotionFields /\ motion'.from = motion.from /\ motion'.asIs = FALSE
        BY <2>1 DEF MotorInv, MotionFields
    <2> QED BY <2>2, <2>3 DEF MotorInv
<1>5. ASSUME MotorReset
      PROVE  MotorInv'
    <2>1. /\ motor' = [motor EXCEPT !.lost = Moving, !.state = "idle"]
          /\ motion' = [motion EXCEPT !.stop = TRUE, !.asIs = FALSE]
        BY <1>5 DEF MotorReset
    <2>2. Shaped(motor') /\ motor'.state = "idle"
        BY <2>1 DEF MotorInv, Shaped, MotorFields, Ramp
    <2>3. DOMAIN motion' = MotionFields /\ motion'.from = motion.from /\ motion'.asIs = FALSE
        BY <2>1 DEF MotorInv, MotionFields
    <2> QED BY <2>2, <2>3 DEF MotorInv, Steady
<1>6. ASSUME SetPosition
      PROVE  MotorInv'
    <2>1. /\ motor' = [motor EXCEPT !.position = 0, !.lost = FALSE]
          /\ motion' = [motion EXCEPT !.from = motion.from - motor.position]
          /\ motor.state = "idle"
        BY <1>6 DEF SetPosition, Moving, MotorInv, MotionFields
    <2>2. /\ Shaped(motor') /\ motor'.state = "idle" /\ motor'.position = 0
          /\ motor'.back = motor.back /\ motor'.move = motor.move /\ motor'.infinite = motor.infinite
          /\ motor'.timer = motor.timer
        BY <2>1 DEF MotorInv, Shaped, MotorFields, Ramp
    <2>3. /\ DOMAIN motion' = MotionFields /\ motion'.from = motion.from - motor.position
          /\ motion'.asIs = motion.asIs
        BY <2>1 DEF MotorInv, MotionFields
    <2>4. Made' = Made /\ motion'.from \in Int
        BY <2>2, <2>3 DEF Made, MotorInv, Shaped
    <2>5. OnItsWay(motor, Made) => OnItsWay(motor, Made)'
        BY <2>1, <2>2, <2>4 DEF OnItsWay
    <2> QED BY <2>2, <2>3, <2>4, <2>5 DEF MotorInv, Steady
<1> QED BY <1>1, <1>2, <1>3, <1>4, <1>5, <1>6 DEF MotorNext

\* MoveMade, SpeedKept: a move nobody interferes with makes the steps it was told to
\* and two or three more, one at constant speed runs at the speed asked for, and no ramp
\* down goes below its beginning; for every acceleration, first delay, set of speeds and
\* lengths of moves, any number of calls and unless one comes in a moment that
\* MotorWindows names.
THEOREM MotorIsSound ==
    ASSUME MotorAssumption, MotorWindows = {}
    PROVE  MotorSpec => []MotorSound
<1>1. MotorInit => MotorInv
    <2> SUFFICES ASSUME MotorInit
                 PROVE  MotorInv
        OBVIOUS
    <2>1. /\ motor.state = "idle" /\ motor.denom = 1 /\ DOMAIN motor = MotorFields
          /\ motor.move = 0 /\ motor.no = 0 /\ motor.run = 0 /\ motor.down = 0 /\ motor.position = 0
          /\ motor.n = 0 /\ motor.prev = 0 /\ motor.infinite \in BOOLEAN /\ motor.back \in BOOLEAN
        BY DEF MotorInit, MotorFields
    <2>2. Ramp(motor) = 0
        BY <2>1 DEF Ramp
    <2>3. Shaped(motor) /\ Steady(motor)
        BY <2>1, <2>2 DEF Shaped, Steady
    <2>4. DOMAIN motion = MotionFields /\ motion.from = 0 /\ motion.asIs = FALSE
        BY DEF MotorInit, MotionFields
    <2> QED BY <2>3, <2>4 DEF MotorInv
<1>2. MotorInv /\ [MotorNext]_motorVars => MotorInv'
    <2>1. ASSUME MotorInv, UNCHANGED motorVars
          PROVE  MotorInv'
        BY <2>1 DEF MotorInv, motorVars, Shaped, Steady, OnItsWay, Made, Ramp
    <2> QED BY <2>1, MotorStepKept
<1>3. MotorInv => MotorSound
    <2> SUFFICES ASSUME MotorInv
                 PROVE  MotorSound
        OBVIOUS
    <2>1. MoveMade
        BY DEF MoveMade, MotorInv, OnItsWay, Moving
    <2>2. SpeedKept
        BY DEF SpeedKept, MotorInv, Steady, Shaped
    <2> QED BY <2>1, <2>2 DEF MotorSound
<1> QED BY <1>1, <1>2, <1>3, PTL DEF MotorSpec

=============================================================================
