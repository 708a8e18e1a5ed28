-------------------------------- MODULE IoPorts --------------------------------
(***************************************************************************)
(* The numbering of the digital ports (ioports.c), of the inputs or of the *)
(* outputs: drivers add their pins one after the other, map[] gives the    *)
(* pin of a number, and a claim takes a pin out of the numbers programs    *)
(* use (M62 P...), moves it to the top and closes the gap.  Pins are told  *)
(* apart by the number over all drivers, their bit in the masks.  Claims   *)
(* come from the control inputs (pin_bits_masks.h), the PWM spindle,       *)
(* Modbus and plugins.                                                     *)
(***************************************************************************)
EXTENDS Integers, Sequences, FiniteSetsExt

CONSTANTS Drivers,   \* number of pins of each driver, in the order they are added
          NMax,      \* n_max, the length of map[]
          Controls,  \* control signals that are claimed from the inputs
          Windows    \* calls the bookkeeping does not survive: subset of AllWindows

\* A remap of a claimed pin or to a number that has none, a count before the last
\* driver has added its pins, $RST=$.
AllWindows == {"remap", "early", "restore"}

VARIABLE io

None == 255
Unknown == -1

Start(driver) == MapThenSumSet(LAMBDA k : Drivers[k], 1..(driver - 1))
Added(x) == 0..(Start(x.added + 1) - 1)
Numbers == 0..(NMax - 1)

Init ==
    \E kind \in {"in", "out"} :
        io = [kind |-> kind, map |-> [i \in Numbers |-> None], claimed |-> {}, last |-> NMax - 1,
              count |-> Unknown, free |-> Unknown, added |-> 0, ready |-> FALSE,
              fn |-> << >>, inverted |-> << >>, label |-> << >>,      \* of pins
              bus |-> {}, invert |-> {}, control |-> {},             \* masks, settings
              owned |-> << >>, moved |-> {}]                         \* history

-----------------------------------------------------------------------------
(* Numbers and pins *)

MapReverse(x, pin) == LET at == {i \in Numbers : x.map[i] = pin} IN IF at = {} THEN pin ELSE Max(at)

\* The function of a pin of a control signal is no longer that of a port.  Its id
\* is the one its driver has for it.
IsAux(x, pin) == x.fn[pin] = "aux"
Local(x, pin) == pin - Max({Start(d) : d \in {d \in 1..x.added : Start(d) <= pin}})
ResolvePortnum(x, pin) == IF IsAux(x, pin) THEN pin ELSE MapReverse(x, Local(x, pin))

\* get_pin_info gives no pin for a number without one.
HasPin(x, i) == i \in Numbers /\ x.map[i] \in Added(x)

\* Enumerations from 0 end at the first number without a pin.
Listed(x) == {i \in Numbers : \A j \in 0..i : HasPin(x, j)}

GetInfo(x, port) ==
    LET at == {i \in Numbers : /\ i < Cardinality(Added(x)) /\ HasPin(x, i)
                               /\ x.map[i] \notin x.claimed /\ ResolvePortnum(x, x.map[i]) = port}
    IN IF at = {} THEN None ELSE x.map[Max(at)]

\* Both counts are kept until they are invalidated.
Available(x) ==
    IF x.count # Unknown THEN x ELSE [x EXCEPT !.count = Cardinality({i \in Listed(x) : IsAux(x, x.map[i])})]
Unclaimed(x) ==
    IF x.free # Unknown THEN x ELSE [x EXCEPT !.free = Cardinality({i \in Listed(x) : x.map[i] \notin x.claimed})]

\* Ports that can be claimed, also those that are, from the last one.
FindFree(x) == LET pins == {pin \in Added(x) : HasPin(x, MapReverse(x, pin)) /\ IsAux(x, pin)}
               IN IF pins = {} THEN None ELSE Max(pins)

-----------------------------------------------------------------------------
(* Operations *)

\* io_claim: the numbers above the pin move down by one, the pin gets the last
\* number that is not taken.
IoClaim(x, pin) ==
    LET at == Min({i \in Numbers : x.map[i] = pin})
        map == [i \in Numbers |-> CASE i >= at /\ i < x.last -> x.map[i + 1]
                                    [] i = x.last -> pin
                                    [] OTHER -> x.map[i]]
        shifted == {i \in Numbers : i >= at /\ i < x.last /\ map[i] # None}
    IN [x EXCEPT !.claimed = @ \union {pin}, !.map = map, !.last = @ - 1,
                 !.label = [p \in DOMAIN @ |-> IF p = pin THEN None
                                               ELSE IF \E i \in shifted : map[i] = p
                                               THEN CHOOSE i \in shifted : map[i] = p ELSE @[p]],
                 !.owned = Append(@, [pin |-> pin, number |-> x.last])]

\* ioport_claim: nothing changes when the port is claimed already or unknown.
Claims(x, port) == GetInfo(x, port) = port /\ port \notin x.claimed

\* Mutant: the number of free ports stays in the cache.
ClaimUncounted(x, port) == IF Claims(x, port) THEN IoClaim(x, port) ELSE x
Claim(x, port) == IF Claims(x, port) THEN [IoClaim(x, port) EXCEPT !.free = Unknown] ELSE x

\* ioport_set_function
SetFunction(x, pin, f) ==
    [x EXCEPT !.fn[pin] = f, !.bus = @ \ {pin}, !.count = Unknown, !.free = Unknown]

\* _ioports_add: the new pins get the numbers that follow.
Add ==
    /\ io.added < Len(Drivers) /\ ~io.ready
    /\ LET d == io.added + 1
           new == {pin \in Start(d)..(Start(d + 1) - 1) : pin < NMax}
           first == Min({i \in Numbers : io.map[i] = None})
           Number(pin) == first + pin - Start(d)
           pins == Added(io) \union new
       IN io' = [io EXCEPT !.added = d, !.count = Unknown, !.bus = @ \union new,
                     !.map = [i \in Numbers |-> IF \E pin \in new : Number(pin) = i
                                                THEN i - first + Start(d) ELSE @[i]],
                     !.fn = [pin \in pins |-> IF pin \in new THEN "aux" ELSE @[pin]],
                     !.inverted = [pin \in pins |-> pin \notin new /\ @[pin]],
                     !.label = [pin \in pins |-> IF pin \in new THEN Number(pin) ELSE @[pin]]]

\* A plugin asks for a port, the spindle for the last one, Modbus for the one
\* numbered last of those it counts.
ClaimPort == \E port \in Added(io) : io' = Claim(io, port)
ClaimFree == io.kind = "out" /\ FindFree(io) # None /\ io' = Claim(io, FindFree(io))
ClaimLast == LET x == Available(io) IN io.kind = "out" /\ x.count > 0 /\ io' = Claim(x, x.count - 1)

\* aux_ctrl_claim_ports: the last port that is free becomes the signal's.
ClaimControl ==
    /\ io.kind = "in" /\ ~io.ready
    /\ \E f \in Controls :
        LET free == {pin \in Added(io) : Claims(io, pin) /\ IsAux(io, pin)}
        IN /\ \A pin \in Added(io) : io.fn[pin] # f
           /\ free # {}
           /\ io' = SetFunction(Claim(io, Max(free)), Max(free), f)

\* ioports_unclaimed: a program's numbers are compared with it.
Count == ("early" \in Windows \/ io.added = Len(Drivers)) /\ io.free = Unknown /\ io' = Unclaimed(io)

\* ioport_remap swaps two numbers; the label of the pin that moves stays.
Remap ==
    \E pin \in Added(io), to \in Numbers :
        LET from == MapReverse(io, pin)
        IN /\ io.map[to] \notin io.claimed
           /\ "remap" \in Windows \/ (pin \notin io.claimed /\ HasPin(io, to))
           /\ io' = [io EXCEPT !.map = [i \in Numbers |-> IF i = to THEN pin
                                                          ELSE IF i = from THEN io.map[to] ELSE @[i]],
                               !.label = [p \in DOMAIN @ |-> IF p = io.map[to] THEN from ELSE @[p]],
                               !.free = Unknown, !.moved = @ \union {pin}]

-----------------------------------------------------------------------------
(* Settings: a bit of $370 or $372 for each port, $14 for the signals *)

Wanted(x, pin) == IF IsAux(x, pin) THEN pin \in x.invert ELSE x.fn[pin] \in x.control

\* ioports_configure, when the settings are loaded.
Configure ==
    /\ ~io.ready /\ io.added = Len(Drivers)
    /\ \E invert \in SUBSET Added(io), control \in SUBSET Controls :
        LET x == [io EXCEPT !.ready = TRUE, !.invert = invert \intersect io.bus, !.control = control]
        IN io' = [x EXCEPT !.inverted = [pin \in DOMAIN @ |-> Wanted(x, pin)]]

\* aux_set_value: ports that change are configured.
SetInvert(x, value) ==
    LET y == [x EXCEPT !.invert = value \intersect x.bus]
        changed == (x.invert \union y.invert) \ (x.invert \intersect y.invert)
    IN [y EXCEPT !.inverted = [pin \in DOMAIN @ |-> IF pin \in changed /\ IsAux(x, pin)
                                                    THEN pin \in y.invert ELSE @[pin]]]

WriteInvert == io.ready /\ \E value \in SUBSET Added(io) : io' = SetInvert(io, value)

\* ioport_setting_changed, for the signals; also their bits in $370 follow.
WriteControl ==
    /\ io.ready /\ io.kind = "in"
    /\ \E control \in SUBSET Controls :
        LET x == [io EXCEPT !.control = control]
            signals == {pin \in Added(io) : ~IsAux(io, pin)}
            on == {pin \in signals : Wanted(x, pin)}
        IN io' = [x EXCEPT !.invert = (@ \ signals) \union on,
                           !.inverted = [pin \in DOMAIN @ |-> IF pin \in signals THEN pin \in on ELSE @[pin]]]

\* A plugin configures an input and saves it (ioport_save_input_settings).
SaveInput ==
    /\ io.ready /\ io.kind = "in"
    /\ \E pin \in Added(io), on \in BOOLEAN :
        LET Bit(set, b) == IF on THEN set \union {b} ELSE set \ {b}
        IN io' = [io EXCEPT !.inverted[pin] = on,
                            !.invert = IF pin \in io.bus THEN Bit(@, pin) ELSE @,
                            !.control = IF IsAux(io, pin) THEN @ ELSE Bit(@, io.fn[pin])]

\* $RST=$: the pins stay as they are configured.
Restore == "restore" \in Windows /\ io.ready /\ io' = [io EXCEPT !.invert = {}, !.control = {}]

Next ==
    \/ Add \/ ClaimPort \/ ClaimFree \/ ClaimLast \/ ClaimControl \/ Count \/ Remap
    \/ Configure \/ WriteInvert \/ WriteControl \/ SaveInput \/ Restore

-----------------------------------------------------------------------------
(* Properties *)

\* The number a claim was answered with addresses the pin that was claimed, and
\* no other claim's, however many numbers have moved since.
NumbersKept ==
    \A i, j \in DOMAIN io.owned :
        /\ io.map[io.owned[i].number] = io.owned[i].pin
        /\ io.owned[i].pin = io.owned[j].pin => i = j

\* The numbers below the count of free ports, those a program may use, address
\* the pins nobody has claimed, each of them.
FreeNumbered ==
    io.free # Unknown =>
        LET pins == {io.map[i] : i \in 0..(io.free - 1)}
        IN pins = Added(io) \ io.claimed /\ Cardinality(pins) = io.free

\* A pin that is free is described by its number.
LabelsTrue == \A i \in Numbers : HasPin(io, i) /\ io.map[i] \notin io.claimed \union io.moved
                                    => io.label[io.map[i]] = i

\* Pins are configured as the settings say.
InvertAgrees == io.ready => \A pin \in Added(io) : io.inverted[pin] = Wanted(io, pin)

PortsSound == NumbersKept /\ FreeNumbered /\ LabelsTrue /\ InvertAgrees
=============================================================================
