----------------------------- MODULE CommandFifo -----------------------------
(***************************************************************************)
(* What the override queues of override.c promise: commands queued by the  *)
(* realtime character handler come out in the order they were accepted,    *)
(* each once; a command is dropped only when the queue holds Capacity of   *)
(* them or while the queue is being flushed.                               *)
(***************************************************************************)
EXTENDS Naturals, Sequences

CONSTANTS Commands,   \* the override command characters
          Capacity    \* how many of them the queue can hold

VARIABLES fifo,       \* accepted and not yet fetched
          flushing    \* TRUE while the queue is being emptied by a reset or a stop

fifoVars == <<fifo, flushing>>

FifoInit == fifo = <<>> /\ flushing = FALSE

Put(cmd) ==
    /\ ~flushing
    /\ Len(fifo) < Capacity
    /\ fifo' = Append(fifo, cmd)
    /\ UNCHANGED flushing

Take ==
    /\ ~flushing
    /\ fifo # <<>>
    /\ fifo' = Tail(fifo)
    /\ UNCHANGED flushing

FlushBegin == ~flushing /\ flushing' = TRUE /\ fifo' = <<>>

FlushEnd == flushing /\ flushing' = FALSE /\ UNCHANGED fifo

FifoNext == (\E cmd \in Commands : Put(cmd)) \/ Take \/ FlushBegin \/ FlushEnd

FifoSpec == FifoInit /\ [][FifoNext]_fifoVars
=============================================================================
