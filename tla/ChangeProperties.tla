--------------------------- MODULE ChangeProperties ---------------------------
(***************************************************************************)
(* What a tool change leaves behind it (tool_change.c, stream.c): the      *)
(* machine and the history ToolChange keeps, and what must hold of them.   *)
(***************************************************************************)
EXTENDS Integers, Sequences

CONSTANT Program   \* lines: "move" or the number of a tool to change to

VARIABLES t,       \* the machine
          h        \* history: where the program was at the last M6, and what it has executed

Offset(c) == c.tlo + c.wco

\* An acknowledged change that completes leaves the tip of the new tool where
\* the tip of the old one was in the work coordinates, the accessories as the
\* program had them and the tool recorded (restore, set at M6 by tool_change).
TipRestored ==
    h.completed =>
        /\ t.keep \/ t.pos = [h.asked EXCEPT !.z = @ + Offset(t)]
        /\ t.running = t.spindle
        /\ t.current = t.gcTool

\* Out of a tool change nothing is claimed: characters, buttons and input go
\* their normal ways, whatever ended the change (change_completed, reset,
\* stream_rx_suspend).
HandlersOwned ==
    t.state = "idle" /\ t.at = "main" /\ ~t.resetPending =>
        /\ t.handler = "normal" /\ ~t.trap /\ t.read = "normal" /\ ~t.suspended

\* No line of the program is lost to, or runs during, a tool change: what the
\* operator types is kept apart from it (await_toolchange_ack, stream_rx_suspend).
ProgramKept ==
    ~t.resetPending => h.executed \o (IF t.acked THEN t.backup ELSE t.rx) = Program

\* The machine is in a tool change, or moves for one, only when the last line
\* executed asked for it: what a stop or a reset ended does not come back.
ChangeAsked ==
    (t.state = "tool_change" \/ t.at # "main") /\ ~t.resetPending =>
        h.executed # << >> /\ h.executed[Len(h.executed)] # "move"

\* All of it: what a tool change claims and moves is its own.
ChangeSound == TipRestored /\ HandlersOwned /\ ProgramKept /\ ChangeAsked
=============================================================================
