----------------------------- MODULE StepQueue -----------------------------
(***************************************************************************)
(* What planner and segment buffer promise together: a queue of motions,   *)
(* each a number of steps, that the stepper executes in order and to the   *)
(* last step, whatever holds, parkings and new plans come in between.      *)
(***************************************************************************)
EXTENDS Naturals, Sequences

CONSTANT MaxSteps

VARIABLE pending    \* the steps still to be made of each motion

Init == pending = <<>>

\* A motion of n steps is planned.
Buffer(n) == pending' = Append(pending, n)

\* The stepper makes a step of the first motion.
Step ==
    /\ pending # <<>>
    /\ pending' = IF pending[1] = 1 THEN Tail(pending)
                  ELSE [pending EXCEPT ![1] = @ - 1]

\* A reset or a cancel.
Reset == pending' = <<>>

Next == (\E n \in 1 .. MaxSteps : Buffer(n)) \/ Step \/ Reset

Spec == Init /\ [][Next]_pending
=============================================================================
