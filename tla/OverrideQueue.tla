---------------------------- MODULE OverrideQueue ----------------------------
(***************************************************************************)
(* One of the three single-producer single-consumer rings of override.c    *)
(* (feed, spindle and coolant are three copies of the same code).          *)
(*                                                                         *)
(* The realtime character handler enqueues from interrupt context.  The    *)
(* foreground fetches and flushes; it can be preempted by the interrupt    *)
(* between any two of its memory accesses, the interrupt never by the      *)
(* foreground.  state_machine.c also enqueues the spindle stop of a laser  *)
(* from the FOREGROUND (initiate_hold), which makes the spindle queue a    *)
(* ring with two producers; `laser' says whether the modelled ring is the  *)
(* spindle ring of a laser.                                                *)
(***************************************************************************)
EXTENDS Naturals, Sequences

CONSTANTS Commands,            \* command characters
          BufSize              \* OVERRIDE_BUFSIZE, a power of two

ASSUME BufSizeAssumption == BufSize \in Nat /\ BufSize > 1

VARIABLES laser,     \* the spindle ring of a laser: a second producer
          head, tail, buf,
          fg,        \* what the foreground is in the middle of
          bptr,      \* the foreground's local variable
          fetched,   \* the command the foreground's fetch is holding
          pending    \* the command the foreground's enqueue is holding

vars == <<laser, head, tail, buf, fg, bptr, fetched, pending>>

None == "none"

Index == 0 .. BufSize - 1

\* (i + 1) & (OVERRIDE_BUFSIZE - 1)
Succ(i) == IF i + 1 = BufSize THEN 0 ELSE i + 1

Init ==
    /\ laser \in BOOLEAN
    /\ head = 0 /\ tail = 0
    /\ buf \in [Index -> {None}]
    /\ fg = "idle" /\ bptr = 0
    /\ fetched = None /\ pending = None

-----------------------------------------------------------------------------
(* Interrupt context: runs to completion between two foreground accesses.  *)

\* Mutant: no test for a full ring.
EnqueueOverrunning(cmd) ==
    /\ buf' = [buf EXCEPT ![head] = cmd]
    /\ head' = Succ(head)
    /\ UNCHANGED <<laser, tail, fg, bptr, fetched, pending>>

\* enqueue_*_override: store and advance head, or drop when the ring is full.
Enqueue(cmd) ==
    /\ Succ(head) # tail
    /\ buf' = [buf EXCEPT ![head] = cmd]
    /\ head' = Succ(head)
    /\ UNCHANGED <<laser, tail, fg, bptr, fetched, pending>>

-----------------------------------------------------------------------------
(* Foreground: get_*_override, one action per access of shared memory.     *)

GetBegin ==
    /\ fg = "idle"
    /\ tail # head
    /\ fetched' = buf[tail]
    /\ fg' = "get"
    /\ UNCHANGED <<laser, head, tail, buf, bptr, pending>>

GetEnd ==
    /\ fg = "get"
    /\ tail' = Succ(tail)
    /\ fg' = "idle"
    /\ fetched' = None
    /\ UNCHANGED <<laser, head, buf, bptr, pending>>

\* flush_override_buffers: chained assignment, so tail is cleared before head.
FlushTail ==
    /\ fg = "idle"
    /\ tail' = 0
    /\ fg' = "flush"
    /\ UNCHANGED <<laser, head, buf, bptr, fetched, pending>>

\* Mutant: only the tail is cleared.
FlushHeadKept ==
    /\ fg = "flush"
    /\ fg' = "idle"
    /\ UNCHANGED <<laser, head, tail, buf, bptr, fetched, pending>>

FlushHead ==
    /\ fg = "flush"
    /\ head' = 0
    /\ fg' = "idle"
    /\ UNCHANGED <<laser, tail, buf, bptr, fetched, pending>>

\* The same enqueue called by the foreground: compute the next head and test
\* it, store, publish.  head is volatile and read again by the store.
ForegroundEnqueueBegin(cmd) ==
    /\ laser
    /\ fg = "idle"
    /\ Succ(head) # tail
    /\ bptr' = Succ(head)
    /\ pending' = cmd
    /\ fg' = "store"
    /\ UNCHANGED <<laser, head, tail, buf, fetched>>

ForegroundEnqueueStore ==
    /\ fg = "store"
    /\ buf' = [buf EXCEPT ![head] = pending]
    /\ fg' = "publish"
    /\ UNCHANGED <<laser, head, tail, bptr, fetched, pending>>

ForegroundEnqueueEnd ==
    /\ fg = "publish"
    /\ head' = bptr
    /\ bptr' = 0
    /\ pending' = None
    /\ fg' = "idle"
    /\ UNCHANGED <<laser, tail, buf, fetched>>

Next ==
    \/ \E cmd \in Commands : Enqueue(cmd) \/ ForegroundEnqueueBegin(cmd)
    \/ GetBegin \/ GetEnd
    \/ FlushTail \/ FlushHead
    \/ ForegroundEnqueueStore \/ ForegroundEnqueueEnd

Spec == Init /\ [][Next]_vars

-----------------------------------------------------------------------------
Used == IF head >= tail THEN head - tail ELSE head + BufSize - tail

At(i) == IF tail + i < BufSize THEN tail + i ELSE tail + i - BufSize

\* What the ring holds, oldest first.
Contents == [i \in 1 .. Used |-> buf[At(i - 1)]]

TypeOK ==
    /\ laser \in BOOLEAN
    /\ head \in Index /\ tail \in Index /\ bptr \in Index
    /\ buf \in [Index -> Commands \cup {None}]
    /\ fg \in {"idle", "get", "flush", "store", "publish"}
    /\ fetched \in Commands \cup {None}
    /\ pending \in Commands \cup {None}

\* A fetch in progress holds the oldest command of the ring, and the ring
\* cannot have become empty or lost it under the fetch, whatever the interrupt
\* did meanwhile (get_*_override reads head and tail once each).
FetchHoldsOldest == fg = "get" => /\ tail # head
                                  /\ fetched = buf[tail]
                                  /\ fetched \in Commands

\* With one producer the ring refines the queue of CommandFifo: order kept,
\* nothing lost after it was accepted, dropped only when full or during a flush.
\* Nothing of the kind holds for the ring with two.
Fifo == INSTANCE CommandFifo WITH
            Capacity <- BufSize - 1,
            fifo     <- IF laser \/ fg = "flush" THEN <<>> ELSE Contents,
            flushing <- ~laser /\ fg = "flush"

ImplementsFifo == Fifo!FifoSpec

=============================================================================
