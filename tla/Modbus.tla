------------------------------- MODULE Modbus -------------------------------
(***************************************************************************)
(* The Modbus RTU transport (modbus_rtu.c).  Messages that need not be     *)
(* waited for are queued and sent one at a time by modbus_poll, a task run *)
(* every millisecond; a blocking message is sent by its sender, which lets *)
(* the tasks run until the answer is there or has not come and all retries *)
(* are used up.  All of it runs in the foreground: an action is what       *)
(* happens between two calls of the task loop.                             *)
(*                                                                         *)
(* Modbus RTU has no transaction numbers: a late answer looks like the     *)
(* answer to the next message.  The device answers, or not, at any time,   *)
(* also with a refusal (an exception code) or with a damaged frame.        *)
(***************************************************************************)
EXTENDS Naturals, Sequences

CONSTANTS MaxSends,      \* bound of the messages sent
          QueueLength,   \* MODBUS_QUEUE_LENGTH
          RxTimeout,     \* modbus.rx_timeout, in ms
          Silence,       \* silence_timeout, in ms
          ResetSilence,  \* the 500 ms of a reset
          RetryDelay,    \* callbacks.retry_delay
          Retries,       \* the numbers of retries senders ask for
          Lateness,      \* ms after which the device does not answer any more
          FlushInFlight  \* may the queue be flushed while a message waits for its answer

\* An answer comes before the time-out and the silence after it are over.
Assumptions == Lateness <= RxTimeout + Silence /\ Lateness <= ResetSilence

VARIABLES m,       \* the transport and its line
          log      \* history: what was sent, what was answered to it, and what was dropped

busVars == <<m, log>>

Ids == 1..MaxSends
Refused == 0              \* on_rx_exception was called
Sync == QueueLength       \* sync_msg, the entry of the blocking message
Void == QueueLength + 1
Slots == 0..QueueLength - 1
Incr(i) == (i + 1) % QueueLength
NoMessage == [id |-> 0, retries |-> 0, handled |-> FALSE]

BusInit ==
    /\ m = [state |-> "idle", queue |-> [i \in Slots |-> NoMessage], tail |-> 0, head |-> 0,
            sync |-> NoMessage,
            packet |-> Void,     \* Void, Sync or a slot: the message in progress
            silence |-> 0,       \* ms until silence_until
            timeout |-> 0,       \* rx_timeout
            sender |-> "none",   \* the blocking sender waits for "idle" or for its "answer"
            sending |-> FALSE,   \* the transmit buffer is not empty yet
            wire |-> {},         \* requests the device may still answer, with their age
            rx |-> << >>,        \* the frames received
            halted |-> FALSE]    \* the processor faulted
    /\ log = [sent |-> 0, answers |-> [n \in Ids |-> << >>], dropped |-> {}]

Message == IF m.packet = Sync THEN m.sync ELSE m.queue[m.packet]

\* The callback of the message in progress gets an answer, which is the
\* number of the request it answers, or Refused.
Deliver(answer) ==
    log' = IF Message.handled THEN [log EXCEPT !.answers[Message.id] = Append(@, answer)] ELSE log

-----------------------------------------------------------------------------
(* modbus_poll, once every millisecond: one action for each state *)

Elapsed(c) ==
    [c EXCEPT !.silence = IF @ > 0 THEN @ - 1 ELSE 0,
              !.wire = {[id |-> r.id, age |-> r.age + 1] : r \in {q \in @ : q.age < Lateness}}]

TxMessage(c, p) ==
    [c EXCEPT !.packet = p, !.state = "tx", !.timeout = RxTimeout, !.rx = << >>, !.sending = TRUE]

PollIdle ==
    /\ m.state = "idle"
    /\ m' = LET c == Elapsed(m)
            IN IF m.tail # m.head /\ m.packet = Void
               THEN [TxMessage(c, m.tail) EXCEPT !.tail = Incr(@)]
               ELSE c
    /\ UNCHANGED log

PollSilent ==
    /\ m.state = "silent"
    /\ m' = LET c == Elapsed(m) IN [c EXCEPT !.state = IF c.silence = 0 THEN "idle" ELSE @]
    /\ UNCHANGED log

\* The request is out: whatever was received meanwhile is thrown away.
SentUnflushed(c) == [c EXCEPT !.state = "await"]   \* Mutant
Sent(c) == [c EXCEPT !.state = "await", !.rx = << >>]

PollSent ==
    /\ m.state = "tx"
    /\ m' = IF m.sending THEN Elapsed(m) ELSE Sent(Elapsed(m))
    /\ UNCHANGED log

\* A refusal is shorter than the answer waited for: it is found when time is up.
PollLate ==
    /\ m.state = "await" /\ m.timeout = 1
    /\ LET c == [Elapsed(m) EXCEPT !.timeout = 0, !.silence = Silence]
           refusal == m.rx # << >> /\ Head(m.rx).kind = "refusal"
       IN IF m.packet = Sync
          THEN m' = [c EXCEPT !.state = IF refusal THEN "exception" ELSE "timeout"] /\ UNCHANGED log
          ELSE m' = [c EXCEPT !.state = "silent", !.packet = Void] /\ Deliver(Refused)

PollReply ==
    /\ m.state = "await" /\ m.timeout > 1
    /\ LET c == [Elapsed(m) EXCEPT !.timeout = @ - 1]
           frame == Head(m.rx)
           got == [c EXCEPT !.silence = Silence, !.rx = Tail(@)]
       IN IF m.rx = << >> \/ Head(m.rx).kind = "refusal"
          THEN m' = c /\ UNCHANGED log
          ELSE IF m.packet # Sync
          THEN /\ m' = [got EXCEPT !.state = "silent", !.packet = Void]
               /\ Deliver(IF frame.kind = "damaged" THEN Refused ELSE frame.id)
          ELSE /\ m' = [got EXCEPT !.state = IF frame.kind = "damaged" THEN "exception" ELSE "reply",
                                   !.rx = m.rx]
               /\ UNCHANGED log

\* The sender of the message in progress is yet to look at the outcome.
PollOutcome ==
    /\ m.state \in {"timeout", "exception", "reply", "retry"}
    /\ m' = [Elapsed(m) EXCEPT !.silence = IF m.state = "timeout" THEN Silence ELSE @]
    /\ UNCHANGED log

Poll == PollIdle \/ PollSilent \/ PollSent \/ PollLate \/ PollReply \/ PollOutcome

-----------------------------------------------------------------------------
(* modbus_send_rtu *)

\* add_message: without callbacks, as in a reset, there are no retries.
NewMessage(retries, handled) ==
    [id |-> log.sent + 1, retries |-> IF handled THEN retries ELSE 0, handled |-> handled]

\* The message is dropped when the queue is full or a blocking one is in progress.
SendQueued ==
    /\ log.sent < MaxSends
    /\ \E handled \in BOOLEAN :
        IF m.packet # Sync /\ Incr(m.head) # m.tail
        THEN /\ m' = [m EXCEPT !.queue[m.head] = NewMessage(0, handled), !.head = Incr(@)]
             /\ log' = [log EXCEPT !.sent = @ + 1]
        ELSE /\ m' = m
             /\ log' = [log EXCEPT !.sent = @ + 1, !.dropped = @ \cup {log.sent + 1}]

\* One blocking message at a time; a second one is refused.
SendBlocking ==
    /\ log.sent < MaxSends /\ m.sender = "none"
    /\ \E retries \in Retries, handled \in BOOLEAN :
        m' = [m EXCEPT !.sender = "idle", !.sync = NewMessage(retries, handled)]
    /\ log' = [log EXCEPT !.sent = @ + 1]

SenderTurn ==
    /\ m.sender = "idle" /\ m.state = "idle"
    /\ m' = [TxMessage(m, Sync) EXCEPT !.sender = "answer"]
    /\ UNCHANGED log

Returned(c) == [c EXCEPT !.sender = "none", !.packet = Void, !.state = "silent"]

\* retry_exception while retries are left, then the exception of the sender
SenderFails ==
    /\ m.sender = "answer" /\ m.state \in {"timeout", "exception"}
    /\ IF m.sync.retries > 0
       THEN m' = [m EXCEPT !.state = "retry", !.silence = Silence + RetryDelay] /\ UNCHANGED log
       ELSE m' = Returned(m) /\ Deliver(Refused)

RetriedForEver(c) == c     \* Mutant
Retried(c) == [c EXCEPT !.sync.retries = @ - 1]

SenderRetries ==
    /\ m.sender = "answer" /\ m.state = "retry" /\ m.silence = 0
    /\ m' = TxMessage(Retried(m), Sync)
    /\ UNCHANGED log

SenderGets ==
    /\ m.sender = "answer" /\ m.state = "reply"
    /\ m' = Returned([m EXCEPT !.rx = Tail(@)])
    /\ Deliver(Head(m.rx).id)

Sender == SenderTurn \/ SenderFails \/ SenderRetries \/ SenderGets

-----------------------------------------------------------------------------
(* Reset, flush, and the other end of the line *)

Pending(c) == {c.queue[i].id : i \in {j \in Slots :
                  (j + QueueLength - c.tail) % QueueLength < (c.head + QueueLength - c.tail) % QueueLength}}

\* modbus_reset with sys.abort.  It writes through the pointer it has just
\* cleared: the write is without effect, or the processor faults.
Reset ==
    /\ m.sender = "none"
    /\ \E fault \in IF m.packet = Void THEN {FALSE} ELSE BOOLEAN :
        m' = [m EXCEPT !.packet = Void, !.tail = m.head, !.silence = ResetSilence,
                       !.state = "silent", !.sending = FALSE, !.rx = << >>, !.halted = fault]
    /\ log' = [log EXCEPT !.dropped = @ \cup Pending(m) \cup
                                      (IF m.packet = Void THEN {} ELSE {Message.id})]

\* modbus_rtu_flush_queue
Flush ==
    /\ m.tail # m.head /\ (m.packet = Void \/ FlushInFlight)
    /\ m' = [m EXCEPT !.tail = m.head]
    /\ log' = [log EXCEPT !.dropped = @ \cup Pending(m)]

Transmitted ==
    /\ m.sending
    /\ m' = [m EXCEPT !.sending = FALSE, !.wire = @ \cup {[id |-> Message.id, age |-> 0]}]
    /\ UNCHANGED log

Answer ==
    /\ \E r \in m.wire, kind \in {"answer", "refusal", "damaged"} :
        m' = [m EXCEPT !.wire = @ \ {r}, !.rx = Append(@, [id |-> r.id, kind |-> kind])]
    /\ UNCHANGED log

BusNext == ~m.halted /\ (Poll \/ SendQueued \/ SendBlocking \/ Sender \/ Reset \/ Flush \/ Transmitted \/ Answer)

\* The task loop runs on, and the transmit buffer empties.
BusSpec == BusInit /\ [][BusNext]_busVars
BusLiveSpec == BusSpec /\ WF_busVars(~m.halted /\ Poll) /\ WF_busVars(~m.halted /\ Sender)
                 /\ WF_busVars(~m.halted /\ Transmitted)

-----------------------------------------------------------------------------
(* Properties *)

\* What a message's callback is given is the answer to that message, and it
\* is called once: late answers are thrown away and the slot of the message
\* in progress is not used again (modbus_poll, modbus_send_rtu).
AnswersOwn ==
    \A n \in Ids : Len(log.answers[n]) <= 1 /\ \A i \in DOMAIN log.answers[n] : log.answers[n][i] \in {Refused, n}

\* A blocking sender returns, and a queued message comes to its turn: the
\* transport stays in no state for ever (modbus_send_rtu, modbus_poll).
SendersReturn == \A s \in {"idle", "answer"} : m.sender = s ~> m.sender # s
QueueDrains == \A n \in Ids : n \in Pending(m) ~> n \notin Pending(m)

EverySendEnds == SendersReturn /\ QueueDrains
=============================================================================
