------------------------------- MODULE Streams -------------------------------
(***************************************************************************)
(* The input of the machine (stream.c): connections in a list, the one     *)
(* selected last copied to hal.stream, a pendant (MPG) that takes over     *)
(* reading, and the suspension of reading for a tool change.  A stream has *)
(* a handler that sees each character it receives before it is buffered.   *)
(*                                                                         *)
(* Connections come and go, and modes change, by tasks in the foreground;  *)
(* characters come in interrupts.  `sel', `type' and `read' are fields of  *)
(* hal.stream.                                                             *)
(***************************************************************************)
EXTENDS Naturals, Sequences, SequencesExt

CONSTANTS Base, Mpg,   \* serial streams: the first one and the pendant
          Clients,     \* network streams, which cannot be told not to receive
          MaxTasks,    \* mode changes posted and not yet made, a bound
          Windows      \* calls by which input is lost: subset of AllWindows

\* A connection that comes or goes, or the end of MPG mode, while reading is suspended;
\* a tool change in MPG mode; a connection going that is not the selected one.
AllWindows == {"suspended", "mpg", "other"}

VARIABLE s

Streams == {Base, Mpg} \cup Clients
Serial == {Base, Mpg}

\* Base is selected and the pendant registered, as another connection unless it only
\* receives.  It has a character to ask for MPG mode, or there is a switch.
StreamsInit ==
    \E sends, toggles \in BOOLEAN :
        /\ toggles => sends
        /\ s = [toggles |-> toggles,                               \* mpg_write_char
                list |-> IF sends THEN <<Base, Mpg>> ELSE <<Base>>, \* connections
                up |-> {Base, Mpg},
                sel |-> Base, type |-> "own", read |-> Base,
                handler |-> [x \in Streams |-> IF x = Mpg /\ toggles THEN "mpg" ELSE "proto"],
                rx |-> IF sends /\ ~toggles THEN Streams \ {Mpg} ELSE Streams,
                mode |-> FALSE, control |-> FALSE, org |-> << >>,
                suspended |-> FALSE, acked |-> FALSE, kept |-> << >>,
                tasks |-> << >>, state |-> "idle"]

-----------------------------------------------------------------------------
(* MPG mode *)

MpgOnMute(x) ==     \* Mutant: the pendant keeps its handler
    [x EXCEPT !.mode = TRUE, !.control = FALSE, !.type = "MPG", !.read = Mpg,
              !.org = <<x.sel, x.read>>,
              !.rx = (@ \ ({x.sel} \cap Serial)) \cup {Mpg}]

\* The handler of the stream that had the input goes to the pendant.
MpgOn(x) ==
    [x EXCEPT !.mode = TRUE, !.control = FALSE, !.type = "MPG", !.read = Mpg,
              !.org = <<x.sel, x.read>>,
              !.rx = (@ \ ({x.sel} \cap Serial)) \cup {Mpg},
              !.handler[Mpg] = x.handler[x.sel]]

MpgOff(x) ==
    [x EXCEPT !.mode = FALSE, !.control = FALSE, !.type = "own",
              !.sel = x.org[1], !.read = x.org[2], !.org = << >>,
              !.rx = (IF x.toggles THEN @ ELSE @ \ {Mpg}) \cup {x.org[1]},
              !.handler[Mpg] = IF x.toggles THEN "mpg" ELSE @]

\* stream_mpg_enable: denied when it is so already, or the machine is busy.
SetMode(x, on) ==
    IF on = x.mode \/ (on /\ x.state \notin {"idle", "alarm"}) THEN x
    ELSE IF on THEN MpgOn(x) ELSE MpgOff(x)

\* A task, in the order the characters came.
MpgTask == /\ s.tasks # << >>
           /\ Head(s.tasks) \/ ~s.suspended \/ "suspended" \in Windows
           /\ s' = [SetMode(s, Head(s.tasks)) EXCEPT !.tasks = Tail(@)]

Post(on) == Len(s.tasks) < MaxTasks /\ s' = [s EXCEPT !.tasks = Append(@, on)]

\* The toggle character asks for MPG mode on the pendant, and for its end wherever
\* characters are the protocol's.
ToggleOn == Mpg \in s.rx /\ s.handler[Mpg] = "mpg" /\ Post(TRUE)
ToggleOff == /\ \E x \in s.rx : s.handler[x] = "proto"
             /\ s.type = "MPG" /\ Post(FALSE)
Switch == ~s.toggles /\ \E on \in BOOLEAN : Post(on)

-----------------------------------------------------------------------------
(* Connections *)

\* The end of stream_select: MPG mode ends, or is taken up again.
Select(x, stream, again) ==
    LET y == IF x.type = "MPG" THEN [MpgOff(x) EXCEPT !.control = TRUE]
             ELSE IF again THEN [x EXCEPT !.tasks = Append(@, TRUE)] ELSE x
    IN [y EXCEPT !.sel = stream, !.type = "own", !.read = stream, !.handler[stream] = "proto",
                 !.rx = @ \cup {stream}, !.up = @ \cup {stream}]

Connect(stream) ==
    /\ stream \notin ToSet(s.list)
    /\ ~s.suspended \/ "suspended" \in Windows
    /\ s' = Select([s EXCEPT !.list = Append(@, stream)], stream, FALSE)

\* The connection made before it is selected; if that is the pendant, the one before
\* it, and MPG mode when a connection had ended it.
Disconnect(stream) ==
    \E i \in 2..Len(s.list) :
        /\ s.list[i] = stream
        /\ ~s.suspended \/ "suspended" \in Windows
        /\ s.sel = stream \/ "other" \in Windows
        /\ Len(s.tasks) < MaxTasks
        /\ LET before == s.list[i - 1]
               x == [s EXCEPT !.list = RemoveAt(@, i), !.up = @ \ {stream}]
           IN s' = IF before = Mpg THEN Select(x, s.list[i - 2], s.control)
                   ELSE Select(x, before, FALSE)

\* The first stream is only marked.
BaseUp == s' = [s EXCEPT !.up = @ \cup {Base}]
BaseDown == s' = [s EXCEPT !.up = @ \ {Base}]

-----------------------------------------------------------------------------
(* Tool change *)

\* stream_rx_suspend, for the stream selected; not that of the pendant
Suspend ==
    /\ s.state = "idle" /\ ~s.suspended
    /\ s.mode => "mpg" \in Windows
    /\ s' = [s EXCEPT !.state = "tool", !.suspended = TRUE, !.acked = FALSE,
                      !.kept = <<s.read, s.handler[s.sel]>>,
                      !.handler[s.sel] = "await", !.read = "null"]

\* await_toolchange_ack: reading goes on, from an empty buffer.
Acknowledge ==
    /\ \E x \in s.rx : s.handler[x] = "await"
    /\ ~s.acked
    /\ s' = [s EXCEPT !.acked = TRUE, !.read = s.kept[1], !.handler[s.sel] = s.kept[2], !.kept = << >>]

Resumed(x) ==
    IF ~x.suspended THEN x
    ELSE IF x.acked THEN [x EXCEPT !.suspended = FALSE, !.acked = FALSE]
    ELSE [x EXCEPT !.suspended = FALSE, !.read = x.kept[1], !.handler[x.sel] = x.kept[2], !.kept = << >>]

\* After the acknowledgement, which ends the change, or by a reset
ToolChanged == s.state = "tool" /\ s.acked /\ s' = [Resumed(s) EXCEPT !.state = "idle"]
Reset == \E state \in {"idle", "alarm"} : s' = [Resumed(s) EXCEPT !.state = state]

Start == s.state = "idle" /\ s' = [s EXCEPT !.state = "busy"]
End == s.state \in {"busy", "alarm"} /\ s' = [s EXCEPT !.state = "idle"]

StreamsNext ==
    \/ MpgTask \/ ToggleOn \/ ToggleOff \/ Switch
    \/ \E stream \in Clients : Connect(stream) \/ Disconnect(stream)
    \/ BaseUp \/ BaseDown
    \/ Suspend \/ Acknowledge \/ ToolChanged \/ Reset \/ Start \/ End

StreamsSpec == StreamsInit /\ [][StreamsNext]_s

-----------------------------------------------------------------------------
(* What an operator relies on *)

Waiting == s.suspended /\ ~s.acked

\* Lines are read from one stream: the pendant's in MPG mode, else the one that was
\* connected last, and none until a tool change is acknowledged ("Reading from the input
\* is blocked until a tool change acknowledge character", stream.h:230).
OneInput ==
    /\ s.read = IF Waiting THEN "null" ELSE IF s.mode THEN Mpg ELSE s.sel
    /\ s.sel # Mpg
    /\ \E i \in DOMAIN s.list : s.list[i] = s.sel /\ \A j \in i + 1..Len(s.list) : s.list[j] = Mpg

\* Whoever has the input is heard: it is received, and its real-time commands are the
\* protocol's, or those of who waits for the acknowledgement.
InputHeard ==
    LET source == IF s.mode THEN Mpg ELSE s.sel
    IN source \in s.rx /\ s.handler[source] = IF Waiting THEN "await" ELSE "proto"

\* In MPG mode nobody else sends lines that would be executed later, out of it the
\* pendant sends nothing but real-time commands.
NoneBesides ==
    /\ s.mode => s.sel \notin s.rx \cap Serial
    /\ ~s.mode /\ Mpg \in ToSet(s.list) /\ Mpg \in s.rx => s.handler[Mpg] = "mpg"

StreamsSound == OneInput /\ InputHeard /\ NoneBesides
=============================================================================
