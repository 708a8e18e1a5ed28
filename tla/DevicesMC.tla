------------------------------ MODULE DevicesMC ------------------------------
(***************************************************************************)
(* The small instances of the components that keep their state to          *)
(* themselves and must come to an end, and of the override queue, which is *)
(* the module extended here, model checked together.  They do not          *)
(* interact: a behaviour is one of the component `part', and the others do *)
(* not take part in it.                                                    *)
(***************************************************************************)
EXTENDS Integers, Sequences, OverrideQueue, Modbus, ChangeProperties, Homing, Stepper2

VARIABLE part               \* the component that runs: its own variables are those of the
                            \* modules extended here

toolVars == <<t, h>>
allVars == <<part, vars, busVars, toolVars, homingVars, motorVars>>

MCProgram == <<"move", "t1", "move", "t2", "move">>
Tools == INSTANCE ToolChange
    WITH Modes <- {"manual", "g59_3", "semi"}, FirstTool <- "t0",
         Length <- [tool \in {"t0", "t1", "t2"} |-> CASE tool = "t0" -> 1 [] tool = "t1" -> 2 [] OTHER -> 0],
         Typed <- {"jog", "tpw", "offset"}, Windows <- {}, MaxTyped <- 2, MaxStops <- 1

MCCycles == << {"y"}, {"x"} >>

MCMoves == {-1, 0, 9, 18}

ASSUME BusAssumptions == Assumptions

DevicesInit ==
    /\ part \in {"queue", "bus", "tools", "homing", "motor"}
    /\ Init /\ (part # "queue" => laser)
    /\ BusInit /\ MotorInit
    /\ Tools!Init /\ (part # "tools" => t.mode = "semi" /\ t.g30 /\ t.keep /\ ~t.referenceSet)
    /\ IF part = "homing" THEN HomingInit ELSE place = << >> /\ homing = [at |-> "off", state |-> "off"]

Queue == part = "queue" /\ Next
      /\ UNCHANGED <<part, busVars, toolVars, homingVars, motorVars>>
BusStep == part = "bus" /\ BusNext
      /\ UNCHANGED <<part, vars, toolVars, homingVars, motorVars>>
ToolStep == part = "tools" /\ Tools!Next
      /\ UNCHANGED <<part, vars, busVars, homingVars, motorVars>>
HomesStep == part = "homing" /\ HomingNext
      /\ UNCHANGED <<part, vars, busVars, toolVars, motorVars>>
MotorStep == part = "motor" /\ MotorNext
      /\ UNCHANGED <<part, vars, busVars, toolVars, homingVars>>

DevicesNext == Queue \/ BusStep \/ ToolStep \/ HomesStep \/ MotorStep

\* The fairness of Modbus, of Homing and of Stepper2.
DevicesSpec ==
    /\ DevicesInit /\ [][DevicesNext]_allVars
    /\ WF_busVars(part = "bus" /\ ~m.halted /\ Poll)
    /\ WF_busVars(part = "bus" /\ ~m.halted /\ Sender)
    /\ WF_busVars(part = "bus" /\ ~m.halted /\ Transmitted)
    /\ WF_homingVars(part = "homing" /\ HomingStep)
    /\ WF_homingVars(part = "homing" /\ HomingPoll)
    /\ WF_motorVars(part = "motor" /\ Irq)

-----------------------------------------------------------------------------
(* The properties of the components, stated and explained in their modules *)

\* Modbus: every message ends and the queue drains.  Homing: it ends.  Stepper2: a
\* motor that is stopped rests, and the speed asked for is reached.
EverythingEnds == EverySendEnds /\ HomingEnds /\ MotorEnds
=============================================================================
