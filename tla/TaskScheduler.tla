---------------------------- MODULE TaskScheduler ----------------------------
(***************************************************************************)
(* The foreground task scheduler of grbllib.c: a pool of task slots, a     *)
(* list of immediate tasks, a list of delayed tasks sorted by time, and    *)
(* task_execute, called from protocol_execute_realtime, which runs them.   *)
(*                                                                         *)
(* The functions that add and delete tasks run with interrupts disabled,   *)
(* so each is one action; task_execute disables them only to unlink, and   *)
(* is modelled one access of shared memory at a time.  A task it calls can *)
(* add and delete tasks and can call task_execute again.                   *)
(*                                                                         *)
(* Ticks are the low bits of the millisecond counter and wrap around.      *)
(***************************************************************************)
EXTENDS Integers, SequencesExt

CONSTANTS Fns,         \* functions to call
          PoolSize,    \* CORE_TASK_POOL_SIZE
          Delays,      \* delays tasks are added with
          Ticks,       \* range of the tick counter, 2^32 in the code
          MaxStall,    \* bound: ticks between two looks at the delayed tasks
          MaxDepth,    \* bound: nesting of task_execute
          Interrupts   \* what interrupt handlers call: subset of Calls

Calls == {"add_immediate", "add_delayed", "delete"}

ASSUME PoolAssumption == PoolSize \in Nat /\ PoolSize > 0
ASSUME TicksAssumption == Ticks \in Nat /\ Ticks > 1 /\ Ticks % 2 = 0
ASSUME DelaysAssumption ==
    \A d \in Delays : d \in Nat /\ 2 * (d + (MaxDepth + 1) * MaxStall) < Ticks
ASSUME InterruptsAssumption == Interrupts \subseteq Calls

VARIABLES pool,        \* task_pool
          immediate,   \* immediate_task
          delayed,     \* next_task
          lastFreed,   \* last_freed
          now,         \* hal.get_elapsed_ticks()
          lastMs,      \* last_ms of task_execute
          frames,      \* activations of task_execute, outermost first
          at           \* where the innermost activation is

vars == <<pool, immediate, delayed, lastFreed, now, lastMs, frames, at>>

Slots == 1 .. PoolSize
NULL == 0
None == "none"

\* `ready': the foreground is outside task_execute or in a function it calls.
Places == {"ready", "run", "unlink", "keep", "tick", "pick", "claim"}

\* Locals of task_execute: task, fn, now and which of its loops it is in.
Frames == [task : Slots \cup {NULL}, rest : Slots \cup {NULL},
           fn : Fns \cup {None}, ms : 0 .. Ticks - 1,
           loop : {"immediate", "delayed"}]

FreeSlot == [fn |-> None, next |-> NULL, time |-> 0]

Init ==
    /\ pool = [s \in Slots |-> FreeSlot]
    /\ immediate = NULL /\ delayed = NULL /\ lastFreed = NULL
    /\ now = 0 /\ lastMs = 0
    /\ frames = <<>> /\ at = "ready"

\* (int32_t)(a - b)
Diff(a, b) == LET d == (a - b + Ticks) % Ticks
              IN IF 2 * d >= Ticks THEN d - Ticks ELSE d

\* The slots of the list that starts with s, PoolSize + 1 of them if it has a
\* cycle.
RECURSIVE Links(_, _, _)
Links(p, s, n) == IF s = NULL \/ n = 0 THEN <<>>
                  ELSE <<s>> \o Links(p, p[s].next, n - 1)
Chain(p, s) == Links(p, s, PoolSize + 1)

-----------------------------------------------------------------------------
(* Calls that disable interrupts.                                          *)

FreeSlots == {s \in Slots : pool[s].fn = None}

\* task_alloc
Allocated == IF lastFreed # NULL THEN lastFreed
             ELSE IF FreeSlots = {} THEN NULL ELSE Max(FreeSlots)

\* Mutant: the last freed slot stays on offer.
TakenAgain == UNCHANGED lastFreed

\* task_alloc withdraws its offer.
Taken == lastFreed' = NULL

Unchanged == UNCHANGED <<now, lastMs, frames, at>>

AddImmediate(f) ==
    /\ Allocated # NULL
    /\ LET s == Allocated
           p == [pool EXCEPT ![s].fn = f, ![s].next = NULL]
           list == Chain(p, immediate)
       IN IF immediate = NULL
          THEN immediate' = s /\ pool' = p
          ELSE /\ pool' = [p EXCEPT ![list[Len(list)]].next = s]
               /\ UNCHANGED immediate
    /\ Taken
    /\ UNCHANGED delayed /\ Unchanged

\* The position in the list of delayed tasks after which to insert.
InsertAfter(p, time, list) ==
    CHOOSE i \in 1 .. Len(list) :
        /\ i = Len(list) \/ Diff(time, p[list[i + 1]].time) < 0
        /\ \A j \in 1 .. i - 1 : Diff(time, p[list[j + 1]].time) >= 0

Due(delay) == (now + delay) % Ticks

AddDelayed(f, delay) ==
    /\ Allocated # NULL
    /\ LET s == Allocated
           time == Due(delay)
           p == [pool EXCEPT ![s] = [fn |-> f, next |-> NULL, time |-> time]]
           list == Chain(p, delayed)
           t == list[InsertAfter(p, time, list)]
       IN IF delayed = NULL \/ Diff(time, p[delayed].time) <= 0
          THEN delayed' = s /\ pool' = [p EXCEPT ![s].next = delayed]
          ELSE /\ pool' = [p EXCEPT ![s].next = p[t].next, ![t].next = s]
               /\ UNCHANGED delayed
    /\ Taken
    /\ UNCHANGED immediate /\ Unchanged

\* Take slot s out of the list of delayed tasks.
Unlinked(p, s) ==
    [t \in Slots |-> IF p[t].next = s /\ t \in {Chain(p, delayed)[i] :
                                          i \in 1 .. Len(Chain(p, delayed))}
                     THEN [p[t] EXCEPT !.next = p[s].next] ELSE p[t]]

\* task_delete
Delete(f) ==
    \E i \in 1 .. Len(Chain(pool, delayed)) :
        LET list == Chain(pool, delayed)
            s == list[i]
        IN /\ pool[s].fn = f
           /\ \A j \in 1 .. i - 1 : pool[list[j]].fn # f
           /\ pool' = [Unlinked(pool, s) EXCEPT ![s] = FreeSlot]
           /\ delayed' = IF i = 1 THEN pool[s].next ELSE delayed
           /\ lastFreed' = IF lastFreed = NULL THEN s ELSE lastFreed
           /\ UNCHANGED immediate /\ Unchanged

-----------------------------------------------------------------------------
(* task_execute.                                                           *)

Here == frames[Len(frames)]
SetHere(frame) == frames' = [frames EXCEPT ![Len(frames)] = frame]
Popped == SubSeq(frames, 1, Len(frames) - 1)

Enter(frame) == frames' = Append(frames, frame)

\* The list of immediate tasks is taken over as a whole.
Execute ==
    /\ at = "ready" /\ Len(frames) < MaxDepth
    /\ Enter([task |-> immediate, rest |-> NULL, fn |-> None, ms |-> 0,
              loop |-> IF immediate = NULL THEN "delayed" ELSE "immediate"])
    /\ at' = IF immediate = NULL THEN "tick" ELSE "run"
    /\ immediate' = NULL
    /\ UNCHANGED <<pool, delayed, lastFreed, now, lastMs>>

\* Mutant: the function is left in the slot.
RunKept ==
    /\ at = "run"
    /\ SetHere([Here EXCEPT !.fn = pool[Here.task].fn,
                            !.rest = IF Here.loop = "immediate"
                                     THEN pool[Here.task].next ELSE NULL])
    /\ at' = "unlink"
    /\ UNCHANGED <<pool, immediate, delayed, lastFreed, now, lastMs>>

\* Read fn and next of the task; task_free clears fn (and the model time, which
\* the code leaves and never reads again) ...
Run ==
    /\ at = "run"
    /\ SetHere([Here EXCEPT !.fn = pool[Here.task].fn,
                            !.rest = IF Here.loop = "immediate"
                                     THEN pool[Here.task].next ELSE NULL])
    /\ pool' = [pool EXCEPT ![Here.task].fn = None, ![Here.task].time = 0]
    /\ at' = "unlink"
    /\ UNCHANGED <<immediate, delayed, lastFreed, now, lastMs>>

\* ... then next ...
FreeNext ==
    /\ at = "unlink"
    /\ pool' = [pool EXCEPT ![Here.task].next = NULL]
    /\ at' = "keep"
    /\ UNCHANGED <<immediate, delayed, lastFreed, now, lastMs, frames>>

\* ... and offers the slot to task_alloc.  Then fn is called.
FreeKeep ==
    /\ at = "keep"
    /\ lastFreed' = IF lastFreed = NULL THEN Here.task ELSE lastFreed
    /\ at' = "ready"
    /\ UNCHANGED <<pool, immediate, delayed, now, lastMs, frames>>

\* The function called returns: next immediate task, or look for delayed ones.
Return ==
    /\ at = "ready" /\ frames # <<>>
    /\ LET more == Here.loop = "immediate" /\ Here.rest # NULL
       IN /\ SetHere([Here EXCEPT !.fn = None,
                                  !.task = IF more THEN Here.rest ELSE NULL,
                                  !.rest = NULL,
                                  !.loop = IF more THEN @ ELSE "delayed"])
          /\ at' = IF more THEN "run"
                   ELSE IF Here.loop = "immediate" THEN "tick" ELSE "pick"
    /\ UNCHANGED <<pool, immediate, delayed, lastFreed, now, lastMs>>

\* Delayed tasks, if there are any, are looked at once per tick.
Tick ==
    /\ at = "tick"
    /\ IF now = lastMs \/ delayed = NULL
       THEN frames' = Popped /\ at' = "ready" /\ UNCHANGED lastMs
       ELSE SetHere([Here EXCEPT !.ms = now]) /\ at' = "pick" /\ lastMs' = now
    /\ UNCHANGED <<pool, immediate, delayed, lastFreed, now>>

\* The first delayed task is due: with interrupts still enabled.
Pick ==
    /\ at = "pick"
    /\ IF delayed # NULL /\ Diff(pool[delayed].time, Here.ms) <= 0
       THEN SetHere([Here EXCEPT !.task = delayed]) /\ at' = "claim"
       ELSE frames' = Popped /\ at' = "ready"
    /\ UNCHANGED <<pool, immediate, delayed, lastFreed, now, lastMs>>

\* Unlink it, with interrupts disabled; it may no longer be the first one.
Claim ==
    /\ at = "claim"
    /\ IF Here.task = delayed
       THEN delayed' = pool[delayed].next /\ UNCHANGED pool
       ELSE pool' = Unlinked(pool, Here.task) /\ UNCHANGED delayed
    /\ at' = "run"
    /\ UNCHANGED <<immediate, lastFreed, now, lastMs, frames>>

-----------------------------------------------------------------------------
\* A foreground function adds and deletes tasks where it is; interrupt
\* handlers do so anywhere.
May(call) == at = "ready" \/ call \in Interrupts

TimePasses ==
    /\ Diff(now, lastMs) < MaxStall
    /\ now' = (now + 1) % Ticks
    /\ UNCHANGED <<pool, immediate, delayed, lastFreed, lastMs, frames, at>>

Next ==
    \/ Execute \/ Run \/ FreeNext \/ FreeKeep \/ Return
    \/ Tick \/ Pick \/ Claim
    \/ TimePasses
    \/ \E f \in Fns :
          \/ May("add_immediate") /\ AddImmediate(f)
          \/ May("add_delayed") /\ \E d \in Delays : AddDelayed(f, d)
          \/ May("delete") /\ Delete(f)

Spec == Init /\ [][Next]_vars

-----------------------------------------------------------------------------
TypeOK ==
    /\ pool \in [Slots -> [fn : Fns \cup {None}, next : Slots \cup {NULL},
                           time : 0 .. Ticks - 1]]
    /\ {immediate, delayed, lastFreed} \subseteq Slots \cup {NULL}
    /\ {now, lastMs} \subseteq 0 .. Ticks - 1
    /\ frames \in Seq(Frames) /\ Len(frames) <= MaxDepth
    /\ at \in Places

\* The slots the activations of task_execute still have to run or to free.
Rests == FlattenSeq([i \in 1 .. Len(frames) |-> Chain(pool, frames[i].rest)])
Current == CASE at \in {"unlink", "keep"} -> <<Here.task>>
             [] at = "run" -> IF Here.loop = "delayed" THEN <<Here.task>>
                              ELSE Chain(pool, Here.task)
             [] OTHER -> <<>>

Listed == Chain(pool, delayed) \o Chain(pool, immediate) \o Rests \o Current

\* No slot is on two lists or twice on one, no task is on none, and the slot
\* task_alloc would hand out next is on none.
PoolSound ==
    /\ Cardinality(ToSet(Listed)) = Len(Listed)
    /\ \A s \in Slots : pool[s].fn # None => s \in ToSet(Listed)
    /\ Allocated # NULL => pool[Allocated].fn = None
    /\ lastFreed \notin ToSet(Listed)

\* The delayed tasks are in the order of their times, also across a wrap
\* around of the counter: task_execute stops at the first that is not due.
DelayedInOrder ==
    LET list == Chain(pool, delayed)
    IN \A i \in 2 .. Len(list) :
          Diff(pool[list[i]].time, pool[list[i - 1]].time) >= 0

\* The function pointer task_execute is about to call is that of a task.
NoNullCall == at \in {"unlink", "keep"} => Here.fn \in Fns

\* All of it: the lists and the pool are sound at every step of a walk.
ListsSound == PoolSound /\ DelayedInOrder /\ NoNullCall

\* "Enqueue a function to be called once by the foreground process"
\* (task_add_immediate): what was accepted is called once or deleted.
Tasks == INSTANCE TaskList WITH
    waiting <- [f \in Fns |-> Cardinality({s \in Slots : pool[s].fn = f})],
    running <- LET calling == SelectSeq(frames, LAMBDA frame : frame.fn # None)
               IN [i \in 1 .. Len(calling) |-> calling[i].fn]

ImplementsTaskList == Tasks!ListSpec
=============================================================================
