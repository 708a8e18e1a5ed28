------------------------------- MODULE TaskList -------------------------------
(***************************************************************************)
(* What the task scheduler of grbllib.c promises, whatever its lists look  *)
(* like: a function that was accepted is called once by the foreground, or *)
(* cancelled; nothing else is ever called.                                 *)
(***************************************************************************)
EXTENDS Naturals, Sequences

CONSTANT Fns        \* the functions tasks can be added for

VARIABLES waiting,  \* how often each function was accepted and not yet called
          running   \* the functions being called, outermost first

ListInit == waiting = [f \in Fns |-> 0] /\ running = <<>>

Accept(f) ==
    /\ waiting' = [waiting EXCEPT ![f] = @ + 1]
    /\ UNCHANGED running

Cancel(f) ==
    /\ waiting[f] > 0
    /\ waiting' = [waiting EXCEPT ![f] = @ - 1]
    /\ UNCHANGED running

Start(f) ==
    /\ waiting[f] > 0
    /\ waiting' = [waiting EXCEPT ![f] = @ - 1]
    /\ running' = Append(running, f)

Finish ==
    /\ running # <<>>
    /\ running' = SubSeq(running, 1, Len(running) - 1)
    /\ UNCHANGED waiting

ListNext == Finish \/ \E f \in Fns : Accept(f) \/ Cancel(f) \/ Start(f)

ListSpec == ListInit /\ [][ListNext]_<<waiting, running>>
=============================================================================
