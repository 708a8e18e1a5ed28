------------------------------- MODULE CanBus -------------------------------
(***************************************************************************)
(* The CAN bus (canbus.c): a ring of messages to be transmitted, filled    *)
(* and emptied by the foreground, and a ring of received messages, filled  *)
(* by the receive interrupt between any two accesses of the foreground,    *)
(* which passes one message per millisecond to the callback of its filter. *)
(* The callback may queue messages itself.                                 *)
(***************************************************************************)
EXTENDS Naturals, Sequences

CONSTANTS Frames,     \* messages
          BufferLen   \* CANBUS_BUFFER_LEN

VARIABLES tx, rx,     \* the rings: [buf, head, tail]
          enabled,    \* isEnabled
          calling     \* canbus_poll is in the callback of a received message

canVars == <<tx, rx, enabled, calling>>

Next1(i) == (i + 1) % BufferLen
RingEmpty(ring) == ring.head = ring.tail
RingFull(ring) == Next1(ring.head) = ring.tail
Put(ring, msg) == [ring EXCEPT !.buf[ring.head] = msg, !.head = Next1(@)]
TakenTwice(ring) == [ring EXCEPT !.tail = IF @ = BufferLen - 1 THEN 1 ELSE @ + 1]   \* Mutant
Taken(ring) == [ring EXCEPT !.tail = Next1(@)]

Ring == [buf |-> [i \in 0..BufferLen - 1 |-> 0], head |-> 0, tail |-> 0]

CanInit == tx = Ring /\ rx = Ring /\ enabled = FALSE /\ calling = FALSE

\* canbus_settings_load: the driver may have no CAN controller.
Start == ~enabled /\ enabled' = TRUE /\ UNCHANGED <<tx, rx, calling>>

QueueTx(msg) == ~RingFull(tx) /\ tx' = Put(tx, msg) /\ UNCHANGED <<rx, enabled, calling>>

\* canbus_queue_rx, the receive interrupt
QueueRx(msg) == enabled /\ ~RingFull(rx) /\ rx' = Put(rx, msg) /\ UNCHANGED <<tx, enabled, calling>>

\* canbus_poll: the controller takes a message when it has a free mailbox.
PollTx == /\ enabled /\ ~calling /\ ~RingEmpty(tx)
          /\ tx' = Taken(tx)
          /\ UNCHANGED <<rx, enabled, calling>>

PollRx == /\ enabled /\ ~calling /\ ~RingEmpty(rx)
          /\ calling' = TRUE
          /\ UNCHANGED <<tx, rx, enabled>>

\* The callback has returned: only now its slot is free.
PollRxEnd == /\ calling
             /\ calling' = FALSE /\ rx' = Taken(rx)
             /\ UNCHANGED <<tx, enabled>>

CanNext == \/ Start \/ PollTx \/ PollRx \/ PollRxEnd
        \/ \E msg \in Frames : QueueTx(msg) \/ QueueRx(msg)

CanSpec == CanInit /\ [][CanNext]_canVars

-----------------------------------------------------------------------------
(* The rings as what they are to their users: queues of messages *)

Contents(ring) ==
    [i \in 1..(ring.head + BufferLen - ring.tail) % BufferLen |-> ring.buf[(ring.tail + i - 1) % BufferLen]]

Received == INSTANCE CommandFifo
            WITH Commands <- Frames, Capacity <- BufferLen - 1, fifo <- Contents(rx), flushing <- FALSE
Transmitted == INSTANCE CommandFifo
               WITH Commands <- Frames, Capacity <- BufferLen - 1, fifo <- Contents(tx), flushing <- FALSE

\* Messages are passed on in the order they came, each once, in both
\* directions (canbus_queue_rx, canbus_queue_tx, canbus_poll).
ImplementsFifos == Received!FifoSpec /\ Transmitted!FifoSpec
=============================================================================
