--------------------------- MODULE ToolChangeProofs ---------------------------
(***************************************************************************)
(* Proofs about ToolChange: for every program, every set of tools and of   *)
(* modes and any number of operator's lines and stops, a tool change       *)
(* claims and moves only what is its own, and gives it back.               *)
(***************************************************************************)
EXTENDS ToolChange, SequenceTheorems, TLAPS

Lines == {"move"} \cup DOMAIN Length

\* The program and the operator use different lines (the operator's are what the
\* modes of a tool change are for), and interrupts come at none of AllWindows.
ToolAssumptions ==
    /\ Program \in Seq(Lines)
    /\ "move" \notin DOMAIN Length
    /\ Typed \subseteq {"jog", "tpw", "offset"} /\ Lines \cap {"jog", "tpw", "offset"} = {}
    /\ Windows = {}

Fields == {"mode", "g30", "keep", "state", "at", "cycleStart", "toolChange", "resetPending", "rx",
           "backup", "acked", "suspended", "read", "handler", "trap", "blocked", "changeAtG30",
           "executePosted", "posted", "gcTool", "pending", "next", "slot", "current", "pos",
           "previous", "tlo", "wco", "reference", "referenceSet", "spindle", "running"}

Posts == {"return", "probe", "restore"}
Routines == Posts \cup {"plunge"}

StringsInv ==
    /\ DOMAIN t = Fields /\ t.state \in {"idle", "tool_change", "alarm"}
    /\ t.at \in {"main", "leave", "tpw"} \cup Routines
    /\ t.handler \in {"normal", "await", "trap"} /\ t.read \in {"normal", "null"}
    /\ t.posted \in Posts \cup {"none"}

FlagsInv ==
    /\ t.cycleStart \in BOOLEAN /\ t.toolChange \in BOOLEAN /\ t.resetPending \in BOOLEAN
    /\ t.acked \in BOOLEAN /\ t.suspended \in BOOLEAN /\ t.trap \in BOOLEAN
    /\ t.executePosted \in BOOLEAN

HistoryInv ==
    /\ DOMAIN h = {"asked", "executed", "completed", "typed", "stops"} /\ h.completed \in BOOLEAN

TypeInv == StringsInv /\ FlagsInv /\ HistoryInv

\* Who has the character handler and the buttons, and what the input does meanwhile.
HandlersInv ==
    /\ t.handler = "await" <=> (t.suspended /\ ~t.acked)
    /\ t.read = "null" <=> (t.suspended /\ ~t.acked)
    /\ t.handler = "trap" <=> t.trap
    /\ t.acked => t.suspended
    /\ t.resetPending => ~t.suspended
    /\ t.suspended => t.state # "idle"
    /\ t.suspended /\ ~t.acked => t.state = "tool_change"
    /\ t.state = "tool_change" /\ ~t.resetPending => t.suspended
    /\ t.trap => t.toolChange
    /\ t.trap => t.state # "idle"
    /\ t.trap /\ ~t.resetPending => t.acked /\ t.state = "tool_change"

\* A routine runs, or is posted, for a trapped cycle start only.
RoutineInv ==
    /\ t.posted # "none" => t.at = "main" /\ t.trap /\ t.executePosted /\ ~t.resetPending
    /\ t.at \in Routines => t.executePosted
    /\ t.at \in Routines \cup {"tpw"} /\ ~t.resetPending => t.trap
    /\ t.at = "leave" => t.state = "idle"

\* The operator's lines are kept apart from those of the program.
LinesInv ==
    /\ t.backup \in Seq(Lines)
    /\ t.acked => t.rx \in Seq(Typed)
    /\ ~t.acked => t.rx \in Seq(Lines)
    /\ h.executed \in Seq(Lines)

\* What the end of the change needs is still what it was at the M6.
ChangeInv ==
    /\ t.suspended => t.gcTool = t.slot
    /\ t.suspended \/ t.at = "leave" => t.previous = h.asked
    /\ t.at = "plunge" => t.running = t.spindle
    /\ h.completed => t.at = "main" /\ ~t.toolChange
    /\ h.completed /\ t.suspended => t.acked /\ t.cycleStart /\ t.state = "tool_change"

ToolInv == TypeInv /\ HandlersInv /\ RoutineInv /\ LinesInv /\ ChangeInv /\ ChangeSound

-----------------------------------------------------------------------------
\* A line read moves from the input to what was executed.
LEMMA LineMoves ==
    ASSUME NEW S, NEW done \in Seq(S), NEW input \in Seq(S), input # << >>
    PROVE  /\ Head(input) \in S /\ Tail(input) \in Seq(S)
           /\ Append(done, Head(input)) \in Seq(S)
           /\ Append(done, Head(input)) \o Tail(input) = done \o input
           /\ Append(done, Head(input)) # << >>
           /\ Append(done, Head(input))[Len(Append(done, Head(input)))] = Head(input)
<1> DEFINE line == Head(input)
           rest == Tail(input)
           more == Append(done, line)
<1>1. line \in S /\ rest \in Seq(S) /\ Len(rest) = Len(input) - 1 /\ Len(input) > 0
      /\ \A i \in 1 .. Len(rest) : rest[i] = input[i + 1]
    BY HeadTailProperties, LenProperties, EmptySeq
<1>2. more \in Seq(S) /\ Len(more) = Len(done) + 1 /\ more[Len(done) + 1] = line
      /\ \A i \in 1 .. Len(done) : more[i] = done[i]
    BY <1>1, AppendProperties
<1>3. <<line>> \o rest = input
    <2> DEFINE both == <<line>> \o rest
    <2>1. <<line>> \in Seq(S) /\ Len(<<line>>) = 1
        BY <1>1
    <2>2. both \in Seq(S) /\ Len(both) = 1 + Len(rest)
          /\ \A i \in 1 .. 1 + Len(rest) : both[i] = IF i <= 1 THEN <<line>>[i] ELSE rest[i - 1]
        BY <1>1, <2>1, ConcatProperties
    <2>3. Len(both) = Len(input) /\ Len(input) \in Nat /\ Len(rest) \in Nat
        BY <1>1, <2>2, LenProperties
    <2>4. input[1] = line
        OBVIOUS
    <2>5. ASSUME NEW i \in 1 .. Len(both) PROVE both[i] = input[i]
        <3> HIDE DEF both, rest, line
        <3>1. CASE i = 1
            BY <2>2, <2>3, <2>4, <3>1
        <3>2. CASE i # 1
            <4>1. i - 1 \in 1 .. Len(rest) /\ rest[i - 1] = input[i - 1 + 1] /\ i - 1 + 1 = i
                BY <1>1, <2>2, <2>3, <3>2
            <4>2. both[i] = rest[i - 1]
                BY <2>2, <2>3, <3>2
            <4> QED BY <4>1, <4>2
        <3> QED BY <3>1, <3>2
    <2> HIDE DEF both, rest, line
    <2>6. both = input
        BY <2>2, <2>3, <2>5, SeqEqual
    <2> QED BY <2>6 DEF both
<1>4. more \o rest = done \o input
    <2>1. more = done \o <<line>> /\ <<line>> \in Seq(S)
        BY <1>1, AppendIsConcat
    <2>2. (done \o <<line>>) \o rest = done \o (<<line>> \o rest)
        BY <1>1, <2>1, ConcatAssociative
    <2> QED BY <1>3, <2>1, <2>2
<1>5. more # << >> /\ more[Len(more)] = line
    BY <1>1, <1>2, AppendProperties
<1> QED BY <1>1, <1>2, <1>4, <1>5

LEMMA InitHolds ==
    ASSUME ToolAssumptions, Init
    PROVE  ToolInv
<1>1. TypeInv
    BY DEF Init, TypeInv, StringsInv, FlagsInv, HistoryInv, Fields, Posts, Routines
<1>2. HandlersInv /\ RoutineInv /\ ChangeInv
    BY DEF Init, HandlersInv, RoutineInv, Posts, Routines, ChangeInv
<1>3. LinesInv /\ ChangeSound
    <2>1. t.rx = Program /\ t.backup = << >> /\ h.executed = << >> /\ ~t.acked /\ t.state = "idle" /\ t.at = "main"
        BY DEF Init
    <2>2. LinesInv
        BY <2>1 DEF ToolAssumptions, LinesInv
    <2>3. h.executed \o t.rx = Program
        BY <2>1, ConcatEmptySeq DEF ToolAssumptions
    <2>4. ~h.completed /\ t.handler = "normal" /\ ~t.trap /\ t.read = "normal" /\ ~t.suspended
        BY DEF Init
    <2> QED BY <2>1, <2>2, <2>3, <2>4 DEF ChangeSound, TipRestored, HandlersOwned, ProgramKept, ChangeAsked
<1> QED BY <1>1, <1>2, <1>3 DEF ToolInv

LEMMA LeaveKeeps ==
    ASSUME ToolAssumptions, ToolInv, Leave
    PROVE  ToolInv'
<1>1. ~t.suspended /\ ~t.acked /\ ~t.trap /\ t.posted = "none" /\ ~h.completed
    BY DEF ToolInv, TypeInv, StringsInv, FlagsInv, HistoryInv, HandlersInv, RoutineInv, ChangeInv, Leave
<1>2. /\ DOMAIN t' = Fields /\ h' = h
      /\ t'.suspended /\ t'.handler = "await" /\ t'.read = "null" /\ t'.toolChange /\ t'.state = "tool_change"
      /\ t'.at = "main" /\ t'.gcTool = t'.slot /\ t'.previous = t.previous
      /\ t'.cycleStart = t.cycleStart /\ t'.resetPending = t.resetPending /\ t'.rx = t.rx /\ t'.backup = t.backup
      /\ t'.acked = t.acked /\ t'.trap = t.trap /\ t'.executePosted = t.executePosted /\ t'.posted = t.posted
    BY <1>1 DEF ToolInv, TypeInv, StringsInv, FlagsInv, HistoryInv, Fields, Leave, Suspended
<1>3. TypeInv'
    BY <1>2 DEF ToolInv, TypeInv, StringsInv, FlagsInv, HistoryInv, Fields, Posts, Routines
<1>4. HandlersInv' /\ RoutineInv' /\ ChangeInv'
    BY <1>1, <1>2 DEF ToolInv, TypeInv, StringsInv, FlagsInv, HistoryInv, HandlersInv, RoutineInv, Posts, Routines, ChangeInv, Leave
<1>5. LinesInv' /\ TipRestored' /\ HandlersOwned' /\ ChangeAsked'
    BY <1>1, <1>2 DEF ToolInv, LinesInv, ChangeSound, TipRestored, HandlersOwned, ChangeAsked, Leave
<1>6. ProgramKept'
    BY <1>2 DEF ToolInv, ChangeSound, ProgramKept
<1> QED BY <1>3, <1>4, <1>5, <1>6 DEF ToolInv, ChangeSound


\* A line of the program is read outside of a tool change only.
LEMMA ReadingProgram ==
    ASSUME ToolAssumptions, ToolInv, NEW line \in Lines, Reading(line)
    PROVE  /\ ~t.suspended /\ ~t.acked /\ ~t.trap /\ t.state = "idle" /\ t.posted = "none"
           /\ t.at = "main" /\ ~t.resetPending /\ t.handler = "normal" /\ t.read = "normal"
           /\ line = Head(t.rx) /\ Tail(t.rx) \in Seq(Lines)
           /\ Append(h.executed, line) \in Seq(Lines) /\ Append(h.executed, line) # << >>
           /\ Append(h.executed, line)[Len(Append(h.executed, line))] = line
           /\ Append(h.executed, line) \o Tail(t.rx) = Program
<1>1. ~t.acked
    <2> SUFFICES ASSUME t.acked PROVE FALSE
        BY DEF ToolInv, TypeInv, StringsInv, FlagsInv, HistoryInv
    <2>1. t.rx \in Seq(Typed) /\ t.rx # << >> /\ Head(t.rx) = line
        BY DEF ToolInv, LinesInv, Reading
    <2>2. line \in Typed
        BY <2>1, HeadTailProperties
    <2> QED BY <2>2 DEF ToolAssumptions
<1>2. /\ ~t.suspended /\ ~t.trap /\ t.state = "idle" /\ t.posted = "none"
      /\ t.at = "main" /\ ~t.resetPending /\ t.handler = "normal" /\ t.read = "normal"
    BY <1>1 DEF Reading, ToolInv, TypeInv, StringsInv, FlagsInv, HistoryInv, HandlersInv
<1>3. t.rx \in Seq(Lines) /\ h.executed \in Seq(Lines) /\ t.rx # << >> /\ Head(t.rx) = line
      /\ h.executed \o t.rx = Program
    <2>1. (IF t.acked THEN t.backup ELSE t.rx) = t.rx
        BY <1>1
    <2>2. h.executed \o t.rx = Program
        BY <1>2, <2>1 DEF ToolInv, ChangeSound, ProgramKept
    <2> QED BY <1>1, <2>2 DEF Reading, ToolInv, LinesInv
<1>4. /\ line \in Lines /\ Tail(t.rx) \in Seq(Lines)
      /\ Append(h.executed, line) \in Seq(Lines) /\ Append(h.executed, line) # << >>
      /\ Append(h.executed, line)[Len(Append(h.executed, line))] = line
      /\ Append(h.executed, line) \o Tail(t.rx) = Program
    <2>1. /\ Head(t.rx) \in Lines /\ Tail(t.rx) \in Seq(Lines)
          /\ Append(h.executed, Head(t.rx)) \in Seq(Lines)
          /\ Append(h.executed, Head(t.rx)) \o Tail(t.rx) = h.executed \o t.rx
          /\ Append(h.executed, Head(t.rx)) # << >>
          /\ Append(h.executed, Head(t.rx))[Len(Append(h.executed, Head(t.rx)))] = Head(t.rx)
        <3>1. t.rx \in Seq(Lines) /\ h.executed \in Seq(Lines) /\ t.rx # << >>
            BY <1>3
        <3> QED BY ZenonT(60), <3>1, LineMoves
    <2> QED BY <1>3, <2>1
<1> QED BY <1>1, <1>2, <1>3, <1>4

\* A line of the operator is read in a tool change that is not over.
LEMMA ReadingTyped ==
    ASSUME ToolAssumptions, ToolInv, NEW line \in {"jog", "tpw", "offset"}, Reading(line)
    PROVE  /\ t.acked /\ t.suspended /\ t.state = "tool_change" /\ ~h.completed /\ t.posted = "none"
           /\ t.at = "main" /\ ~t.resetPending
           /\ Tail(t.rx) \in Seq(Typed)
<1>1. t.acked
    <2> SUFFICES ASSUME ~t.acked PROVE FALSE
        BY DEF ToolInv, TypeInv, StringsInv, FlagsInv, HistoryInv
    <2>1. t.rx \in Seq(Lines) /\ t.rx # << >> /\ Head(t.rx) = line
        BY DEF ToolInv, LinesInv, Reading
    <2>2. line \in Lines
        BY <2>1, HeadTailProperties
    <2> QED BY <2>2 DEF ToolAssumptions
<1>2. /\ t.suspended /\ t.state = "tool_change" /\ t.posted = "none"
      /\ t.at = "main" /\ ~t.resetPending /\ ~h.completed
    BY <1>1 DEF Reading, ToolInv, TypeInv, StringsInv, FlagsInv, HistoryInv, HandlersInv, ChangeInv
<1>3. Tail(t.rx) \in Seq(Typed)
    BY <1>1, HeadTailProperties DEF ToolInv, LinesInv, Reading
<1> QED BY <1>1, <1>2, <1>3

LEMMA ReadMoveKeeps ==
    ASSUME ToolAssumptions, ToolInv, ReadMove
    PROVE  ToolInv'
<1>1. Reading("move") /\ "move" \in Lines
    BY DEF ReadMove, Lines
<1>2. /\ ~t.suspended /\ ~t.acked /\ ~t.trap /\ t.state = "idle" /\ t.posted = "none"
      /\ t.at = "main" /\ ~t.resetPending /\ t.handler = "normal" /\ t.read = "normal"
      /\ Tail(t.rx) \in Seq(Lines) /\ Append(h.executed, "move") \in Seq(Lines)
      /\ Append(h.executed, "move") \o Tail(t.rx) = Program
    BY <1>1, ReadingProgram
<1>3. /\ DOMAIN t' = Fields /\ DOMAIN h' = DOMAIN h
      /\ \A f \in Fields \ {"rx", "pos"} : t'[f] = t[f]
      /\ t'.rx = Tail(t.rx) /\ h'.executed = Append(h.executed, "move") /\ h'.completed = FALSE /\ h'.asked = h.asked
    BY DEF ToolInv, TypeInv, StringsInv, FlagsInv, HistoryInv, Fields, ReadMove, Consumed
<1>4. TypeInv'
    BY ZenonT(60), <1>3 DEF ToolInv, TypeInv, StringsInv, FlagsInv, HistoryInv, Fields
<1>5. HandlersInv' /\ RoutineInv' /\ ChangeInv'
    BY ZenonT(60), <1>2, <1>3 DEF Fields, ToolInv, TypeInv, StringsInv, FlagsInv, HistoryInv, HandlersInv, RoutineInv, Posts, Routines, ChangeInv
<1>6. LinesInv' /\ TipRestored' /\ HandlersOwned' /\ ChangeAsked'
    BY ZenonT(60), <1>2, <1>3 DEF Fields, ToolInv, LinesInv, TipRestored, HandlersOwned, ChangeAsked
<1>7. ProgramKept'
    <2>1. t'.acked = t.acked /\ h'.executed \o t'.rx = Program
        BY <1>2, <1>3 DEF Fields
    <2> QED BY <1>2, <2>1 DEF ProgramKept
<1> QED BY <1>4, <1>5, <1>6, <1>7 DEF ToolInv, ChangeSound

LEMMA ReadChangeKeeps ==
    ASSUME ToolAssumptions, ToolInv, NEW tool \in DOMAIN Length, ReadChange(tool)
    PROVE  ToolInv'
<1>1. Reading(tool) /\ tool \in Lines /\ tool # "move"
    BY DEF ReadChange, Lines, ToolAssumptions
<1>2. /\ ~t.suspended /\ ~t.acked /\ ~t.trap /\ t.state = "idle" /\ t.posted = "none"
      /\ t.at = "main" /\ ~t.resetPending /\ t.handler = "normal" /\ t.read = "normal"
      /\ Tail(t.rx) \in Seq(Lines) /\ Append(h.executed, tool) \in Seq(Lines)
      /\ Append(h.executed, tool) \o Tail(t.rx) = Program
      /\ Append(h.executed, tool) # << >>
      /\ Append(h.executed, tool)[Len(Append(h.executed, tool))] = tool
    BY <1>1, ReadingProgram
<1> DEFINE c == Consumed
           s == Selected(c, tool)
           d == [s EXCEPT !.slot = tool]
           off == At(t.pos.xy, t.pos.z - Offset(t))
<1>3. DOMAIN c = Fields /\ c.rx = Tail(t.rx) /\ \A f \in Fields \ {"rx"} : c[f] = t[f]
    BY DEF ToolInv, TypeInv, StringsInv, FlagsInv, HistoryInv, Fields, Consumed
<1> HIDE DEF c
<1>4. DOMAIN s = Fields /\ \A f \in Fields \ {"pending", "next", "slot"} : s[f] = c[f]
    BY <1>3 DEF Fields, Selected
<1> HIDE DEF s
<1>5. DOMAIN d = Fields /\ \A f \in Fields \ {"pending", "next", "slot"} : d[f] = c[f]
    BY <1>4 DEF Fields
<1> HIDE DEF d
<1>6. At(c.pos.xy, c.pos.z - Offset(c)) = off
    BY <1>3 DEF Fields, Offset
<1> HIDE DEF off
<1>7. /\ DOMAIN t' = Fields
      /\ \A f \in Fields \ {"rx", "pending", "next", "slot", "gcTool", "blocked", "running", "executePosted",
                            "previous", "changeAtG30", "pos", "at"} : t'[f] = t[f]
      /\ t'.rx = Tail(t.rx)
      /\ \/ t'.at = "main" /\ t'.executePosted = t.executePosted
         \/ t'.at = "leave" /\ t'.executePosted = FALSE /\ t'.previous = off
    <2>1. t' = Change(c, tool)
        BY DEF ReadChange, c
    <2>2. CASE t' = d
        BY ZenonT(60), <1>2, <1>3, <1>5, <2>2 DEF Fields
    <2>3. CASE t' = [d EXCEPT !.gcTool = d.slot]
        BY ZenonT(60), <1>2, <1>3, <1>5, <2>3 DEF Fields
    <2>4. CASE t' = [d EXCEPT !.blocked = c.mode # "semi", !.running = FALSE, !.executePosted = FALSE,
                        !.previous = At(c.pos.xy, c.pos.z - Offset(c)), !.changeAtG30 = c.g30,
                        !.pos.z = Home, !.at = "leave"]
        <3> DEFINE b == (c.mode # "semi")
        <3> HIDE DEF b
        <3>1. t' = [d EXCEPT !.blocked = b, !.running = FALSE, !.executePosted = FALSE,
                        !.previous = off, !.changeAtG30 = c.g30, !.pos.z = Home, !.at = "leave"]
            BY <1>6, <2>4 DEF b
        <3> QED BY ZenonT(60), <1>2, <1>3, <1>5, <3>1 DEF Fields
    <2> QED BY <2>1, <2>2, <2>3, <2>4 DEF Change, d, s
<1>8. /\ DOMAIN h' = DOMAIN h /\ h'.executed = Append(h.executed, tool) /\ h'.completed = FALSE /\ h'.asked = off
    BY DEF ToolInv, TypeInv, StringsInv, FlagsInv, HistoryInv, ReadChange, off
<1>9. TypeInv'
    <2>1. t'.at \in {"main", "leave"} /\ t'.executePosted \in BOOLEAN
        BY <1>7 DEF ToolInv, TypeInv, StringsInv, FlagsInv, HistoryInv
    <2>2. h'.completed \in BOOLEAN /\ DOMAIN h' = {"asked", "executed", "completed", "typed", "stops"}
        BY <1>8 DEF ToolInv, TypeInv, StringsInv, FlagsInv, HistoryInv
    <2> QED BY <1>7, <2>1, <2>2 DEF ToolInv, TypeInv, StringsInv, FlagsInv, HistoryInv, Fields
<1>10. HandlersInv'
    BY ZenonT(60), <1>2, <1>7 DEF Fields, ToolInv, HandlersInv
<1>11. RoutineInv'
    BY <1>2, <1>7 DEF Fields, RoutineInv, Posts, Routines
<1>12. ChangeInv'
    BY <1>2, <1>7, <1>8 DEF Fields, ChangeInv
<1>13. LinesInv' /\ TipRestored' /\ HandlersOwned' /\ ChangeAsked'
    BY ZenonT(60), <1>1, <1>2, <1>7, <1>8 DEF Fields, ToolInv, LinesInv, TipRestored, HandlersOwned, ChangeAsked
<1>14. ProgramKept'
    <2>1. t'.acked = t.acked /\ h'.executed \o t'.rx = Program
        BY <1>2, <1>7, <1>8 DEF Fields
    <2> QED BY <1>2, <2>1 DEF ProgramKept
<1> QED BY <1>9, <1>10, <1>11, <1>12, <1>13, <1>14 DEF ToolInv, ChangeSound

\* No line is read, typed, set aside or given back.
LEMMA SameLines ==
    ASSUME ProgramKept, h'.executed = h.executed, t'.acked = t.acked, t'.rx = t.rx, t'.backup = t.backup,
           t'.resetPending = t.resetPending
    PROVE  ProgramKept'
BY DEF ProgramKept

\* What the operator's lines and his touch off do to the machine does not matter here,
\* as long as they leave alone all that belongs to the change.
Moved == {"rx", "pos", "wco", "tlo", "blocked", "at"}

LEMMA OperatorKeeps ==
    ASSUME ToolInv, t.acked, t.suspended, t.state = "tool_change", ~h.completed, t.posted = "none",
           ~t.resetPending, h' = h,
           DOMAIN t' = Fields, \A f \in Fields \ Moved : t'[f] = t[f],
           t'.rx \in Seq(Typed),
           t'.at = "main" \/ (t'.at = "tpw" /\ t.trap)
    PROVE  ToolInv'
<1>1. TypeInv'
    BY ZenonT(60) DEF ToolInv, TypeInv, StringsInv, FlagsInv, HistoryInv, Fields, Moved
<1>2. HandlersInv' /\ RoutineInv' /\ ChangeInv'
    BY DEF Fields, Moved, ToolInv, TypeInv, StringsInv, FlagsInv, HistoryInv, HandlersInv, RoutineInv, Posts, Routines, ChangeInv
<1>3. LinesInv' /\ TipRestored' /\ HandlersOwned' /\ ChangeAsked'
    BY DEF Fields, Moved, ToolInv, LinesInv, ChangeSound, TipRestored, HandlersOwned, ChangeAsked
<1>4. ProgramKept'
    <2>1. t'.acked = t.acked /\ t'.backup = t.backup /\ t'.resetPending = t.resetPending
        BY DEF Fields, Moved
    <2>2. (IF t'.acked THEN t'.backup ELSE t'.rx) = (IF t.acked THEN t.backup ELSE t.rx)
        BY <2>1
    <2>3. h.executed \o (IF t.acked THEN t.backup ELSE t.rx) = Program
        BY DEF ToolInv, ChangeSound, ProgramKept
    <2> QED BY <2>1, <2>2, <2>3 DEF ProgramKept
<1> QED BY <1>1, <1>2, <1>3, <1>4 DEF ToolInv, ChangeSound

LEMMA ReadTypedKeeps ==
    ASSUME ToolAssumptions, ToolInv, ReadJog \/ ReadOffset \/ ReadTouchOff
    PROVE  ToolInv'
<1>1. PICK line \in {"jog", "tpw", "offset"} : Reading(line)
    BY DEF ReadJog, ReadOffset, ReadTouchOff
<1>2. /\ t.acked /\ t.suspended /\ t.state = "tool_change" /\ ~h.completed /\ t.posted = "none"
      /\ t.at = "main" /\ ~t.resetPending /\ Tail(t.rx) \in Seq(Typed)
    BY <1>1, ReadingTyped
<1>3. DOMAIN Consumed = Fields /\ Consumed.rx = Tail(t.rx) /\ \A f \in Fields \ {"rx"} : Consumed[f] = t[f]
    BY DEF ToolInv, TypeInv, StringsInv, FlagsInv, HistoryInv, Fields, Consumed
<1>4. /\ h' = h /\ DOMAIN t' = Fields /\ t'.rx = Tail(t.rx) /\ \A f \in Fields \ Moved : t'[f] = t[f]
      /\ t'.at = "main" \/ (t'.at = "tpw" /\ t.handler = "trap")
    <2>1. CASE ReadJog
        BY <1>2, <1>3, <2>1 DEF ReadJog, Fields, Moved
    <2>2. CASE ReadOffset
        <3>1. PICK z \in 0..1 : t' = [Consumed EXCEPT !.wco = z, !.blocked = @ /\ t.changeAtG30]
            BY <2>2 DEF ReadOffset
        <3> DEFINE b == (Consumed.blocked /\ t.changeAtG30)
        <3> HIDE DEF b
        <3>2. t' = [Consumed EXCEPT !.wco = z, !.blocked = b]
            BY <3>1 DEF b
        <3> QED BY <1>2, <1>3, <2>2, <3>2 DEF ReadOffset, Fields, Moved
    <2>3. CASE ReadTouchOff
        BY <1>2, <1>3, <2>3 DEF ReadTouchOff, Fields, Moved
    <2> QED BY <2>1, <2>2, <2>3
<1>5. t'.at = "main" \/ (t'.at = "tpw" /\ t.trap)
    BY <1>4 DEF ToolInv, HandlersInv
<1> QED BY <1>2, <1>4, <1>5, OperatorKeeps

LEMMA TouchOffKeeps ==
    ASSUME ToolAssumptions, ToolInv, TouchOff
    PROVE  ToolInv'
<1>1. /\ t.acked /\ t.suspended /\ t.state = "tool_change" /\ ~h.completed /\ t.posted = "none"
      /\ ~t.resetPending /\ t.rx \in Seq(Typed)
    BY DEF TouchOff, ToolInv, TypeInv, StringsInv, FlagsInv, HistoryInv, HandlersInv, RoutineInv, LinesInv, ChangeInv
<1>2. /\ h' = h /\ DOMAIN t' = Fields /\ t'.rx = t.rx /\ t'.at = "main"
      /\ \A f \in Fields \ Moved : t'[f] = t[f]
    <2>1. DOMAIN t = Fields
        BY DEF ToolInv, TypeInv, StringsInv, FlagsInv, HistoryInv
    <2> DEFINE l == IF t.referenceSet THEN Contact - t.reference ELSE t.tlo
    <2>2. \/ t' = [t EXCEPT !.at = "main", !.blocked = FALSE, !.tlo = l, !.pos.z = Lower(Contact + 2, Home)]
          \/ t' = [t EXCEPT !.at = "main", !.pos.z = 0]
        BY DEF TouchOff
    <2> HIDE DEF l
    <2>3. h' = h
        BY DEF TouchOff
    <2>4. CASE t' = [t EXCEPT !.at = "main", !.blocked = FALSE, !.tlo = l, !.pos.z = Lower(Contact + 2, Home)]
        BY <2>1, <2>3, <2>4 DEF Fields, Moved
    <2>5. CASE t' = [t EXCEPT !.at = "main", !.pos.z = 0]
        BY <2>1, <2>3, <2>5 DEF Fields, Moved
    <2> QED BY <2>2, <2>4, <2>5
<1>3. t'.rx \in Seq(Typed) /\ (t'.at = "main" \/ (t'.at = "tpw" /\ t.trap))
    BY <1>1, <1>2
<1> QED BY <1>1, <1>2, <1>3, OperatorKeeps

\* Nothing the end of a change has restored is touched.
LEMMA SameTip ==
    ASSUME TipRestored, h'.completed = h.completed, h'.asked = h.asked,
           t'.keep = t.keep, t'.pos = t.pos, t'.tlo = t.tlo, t'.wco = t.wco,
           t'.running = t.running, t'.spindle = t.spindle, t'.current = t.current, t'.gcTool = t.gcTool
    PROVE  TipRestored'
<1>1. Offset(t') = Offset(t)
    BY DEF Offset
<1>2. SUFFICES ASSUME h'.completed
               PROVE  /\ t'.keep \/ t'.pos = [h'.asked EXCEPT !.z = @ + Offset(t')]
                      /\ t'.running = t'.spindle
                      /\ t'.current = t'.gcTool
    BY DEF TipRestored
<1>3. /\ t.keep \/ t.pos = [h.asked EXCEPT !.z = @ + Offset(t)]
      /\ t.running = t.spindle
      /\ t.current = t.gcTool
    BY <1>2 DEF TipRestored
<1>4. [h'.asked EXCEPT !.z = @ + Offset(t')] = [h.asked EXCEPT !.z = @ + Offset(t)]
    BY <1>1
<1> QED BY <1>3, <1>4

LEMMA TypeKeeps ==
    ASSUME ToolAssumptions, ToolInv, NEW line \in Typed, Type(line)
    PROVE  ToolInv'
<1>1. /\ DOMAIN t' = Fields /\ t'.rx = Append(t.rx, line) /\ \A f \in Fields \ {"rx"} : t'[f] = t[f]
      /\ DOMAIN h' = DOMAIN h /\ h'.executed = h.executed /\ h'.completed = h.completed /\ h'.asked = h.asked
    BY DEF ToolInv, TypeInv, StringsInv, FlagsInv, HistoryInv, Fields, Type
<1>2. t.acked /\ t'.rx \in Seq(Typed)
    BY <1>1, AppendProperties DEF ToolInv, LinesInv, Type
<1>3. TypeInv'
    BY <1>1 DEF ToolInv, TypeInv, StringsInv, FlagsInv, HistoryInv, Fields
<1>4. HandlersInv' /\ RoutineInv' /\ ChangeInv'
    BY <1>1 DEF Fields, ToolInv, TypeInv, StringsInv, FlagsInv, HistoryInv, HandlersInv, RoutineInv, Posts, Routines, ChangeInv
<1>5. LinesInv'
    BY <1>1, <1>2 DEF Fields, ToolInv, LinesInv
<1>6. TipRestored'
    BY <1>1, SameTip DEF Fields, ToolInv, ChangeSound
<1>7. HandlersOwned' /\ ChangeAsked' /\ ProgramKept'
    BY ZenonT(60), <1>1, <1>2 DEF Fields, ToolInv, ChangeSound, HandlersOwned, ChangeAsked, ProgramKept
<1> QED BY <1>3, <1>4, <1>5, <1>6, <1>7 DEF ToolInv, ChangeSound

-----------------------------------------------------------------------------
(* What cycle start runs *)

LEMMA RunPostedKeeps ==
    ASSUME ToolInv, RunPosted
    PROVE  ToolInv'
<1>1. /\ h' = h /\ DOMAIN t' = Fields /\ \A f \in Fields \ {"at", "posted"} : t'[f] = t[f]
      /\ t'.at = t.posted /\ t'.posted = "none"
    BY DEF ToolInv, TypeInv, StringsInv, FlagsInv, HistoryInv, Fields, RunPosted
<1>2. t.posted \in Posts /\ ~h.completed /\ t.trap /\ ~t.resetPending /\ t.executePosted /\ t.state = "tool_change"
    BY DEF ToolInv, TypeInv, StringsInv, FlagsInv, HistoryInv, RoutineInv, HandlersInv, ChangeInv, RunPosted
<1>3. TypeInv'
    <2>1. StringsInv'
        BY <1>1, <1>2 DEF ToolInv, TypeInv, StringsInv, Fields, Posts, Routines
    <2>2. FlagsInv'
        BY <1>1, <1>2 DEF ToolInv, TypeInv, FlagsInv, Fields
    <2>3. HistoryInv'
        BY <1>1, <1>2 DEF ToolInv, TypeInv, HistoryInv
    <2> QED BY <2>1, <2>2, <2>3 DEF TypeInv
<1>4. HandlersInv' /\ RoutineInv' /\ ChangeInv'
    BY <1>1, <1>2 DEF Fields, ToolInv, TypeInv, StringsInv, FlagsInv, HistoryInv, HandlersInv, RoutineInv, Posts, Routines, ChangeInv
<1>5. LinesInv'
    BY <1>1 DEF Fields, ToolInv, LinesInv
<1>6. TipRestored' /\ HandlersOwned' /\ ChangeAsked'
    BY <1>1, <1>2 DEF Fields, ToolInv, ChangeSound, TipRestored, HandlersOwned, ChangeAsked
<1>7. ProgramKept'
    BY <1>1, SameLines DEF Fields, ToolInv, ChangeSound
<1> QED BY <1>3, <1>4, <1>5, <1>6, <1>7 DEF ToolInv, ChangeSound

\* On the way through a routine.
LEMMA RoutineKeeps ==
    ASSUME ToolInv, t.at \in Routines, ~t.resetPending, h' = h, DOMAIN t' = Fields,
           \A f \in Fields \ {"at", "pos", "tlo", "reference", "referenceSet", "running", "changeAtG30",
                              "executePosted"} : t'[f] = t[f],
           \/ t'.at \in {"restore", "plunge"} /\ t'.executePosted = t.executePosted
           \/ t'.at = "main" /\ t'.executePosted = FALSE,
           t'.at = "plunge" => t'.running = t'.spindle
    PROVE  ToolInv'
<1>1. ~h.completed /\ t.trap /\ t.acked /\ t.suspended /\ t.executePosted /\ t.state = "tool_change" /\ t.posted = "none"
    BY DEF ToolInv, TypeInv, StringsInv, FlagsInv, HistoryInv, RoutineInv, HandlersInv, ChangeInv, Routines, Posts
<1>2. t'.at \in {"restore", "plunge", "main"} /\ t'.executePosted \in BOOLEAN /\ (t'.at # "main" => t'.executePosted)
    BY <1>1
<1>3. TypeInv'
    <2>1. StringsInv'
        BY <1>2 DEF ToolInv, TypeInv, StringsInv, Fields, Posts, Routines
    <2>2. FlagsInv'
        BY <1>2 DEF ToolInv, TypeInv, FlagsInv, Fields
    <2>3. HistoryInv'
        BY DEF ToolInv, TypeInv, HistoryInv
    <2> QED BY <2>1, <2>2, <2>3 DEF TypeInv
<1>4. HandlersInv'
    BY <1>1 DEF Fields, ToolInv, HandlersInv
<1>5. RoutineInv'
    BY <1>1, <1>2 DEF Fields, ToolInv, RoutineInv, Routines, Posts
<1>6. ChangeInv'
    BY <1>1, <1>2 DEF Fields, ToolInv, ChangeInv
<1>7. LinesInv'
    BY DEF Fields, ToolInv, LinesInv
<1>8. ChangeSound'
    <2>1. TipRestored'
        BY <1>1 DEF TipRestored
    <2>2. HandlersOwned'
        BY <1>1 DEF Fields, HandlersOwned
    <2>3. ProgramKept'
        BY SameLines DEF Fields, ToolInv, ChangeSound
    <2>4. ChangeAsked'
        BY <1>1 DEF Fields, ToolInv, ChangeSound, ChangeAsked
    <2> QED BY <2>1, <2>2, <2>3, <2>4 DEF ChangeSound
<1> QED BY <1>3, <1>4, <1>5, <1>6, <1>7, <1>8 DEF ToolInv

LEMMA ReturnKeeps ==
    ASSUME ToolInv, Return
    PROVE  ToolInv'
<1> DEFINE p == IF t.mode = "g59_3" THEN Toolsetter ELSE At(t.previous.xy, Home)
<1>1. t' = [t EXCEPT !.at = "main", !.changeAtG30 = FALSE, !.executePosted = FALSE, !.pos = p]
      /\ h' = h /\ t.at = "return" /\ ~t.resetPending /\ DOMAIN t = Fields
    BY DEF Return, ToolInv, TypeInv, StringsInv, FlagsInv, HistoryInv
<1> HIDE DEF p
<1>2. /\ DOMAIN t' = Fields /\ t'.at = "main" /\ t'.executePosted = FALSE
      /\ \A f \in Fields \ {"at", "pos", "tlo", "reference", "referenceSet", "running", "changeAtG30",
                             "executePosted"} : t'[f] = t[f]
    BY <1>1 DEF Fields
<1>3. t.at \in Routines
    BY <1>1 DEF Routines, Posts
<1> QED BY <1>1, <1>2, <1>3, RoutineKeeps

LEMMA RestoreKeeps ==
    ASSUME ToolInv, Restore
    PROVE  ToolInv'
<1> DEFINE p == IF t.pos.xy = t.previous.xy THEN t.pos
                ELSE At(IF t.keep THEN t.pos.xy ELSE t.previous.xy, Home)
<1>1. t' = [t EXCEPT !.at = "plunge", !.running = t.spindle, !.pos = p]
      /\ h' = h /\ t.at = "restore" /\ ~t.resetPending /\ DOMAIN t = Fields
    BY DEF Restore, ToolInv, TypeInv, StringsInv, FlagsInv, HistoryInv
<1> HIDE DEF p
<1>2. /\ DOMAIN t' = Fields /\ t'.at = "plunge" /\ t'.executePosted = t.executePosted /\ t'.running = t'.spindle
      /\ \A f \in Fields \ {"at", "pos", "tlo", "reference", "referenceSet", "running", "changeAtG30",
                             "executePosted"} : t'[f] = t[f]
    BY <1>1 DEF Fields
<1>3. t.at \in Routines
    BY <1>1 DEF Routines, Posts
<1> QED BY <1>1, <1>2, <1>3, RoutineKeeps

LEMMA ProbeKeeps ==
    ASSUME ToolInv, Probe
    PROVE  ToolInv'
<1>1. /\ h' = h /\ t.at = "probe" /\ ~t.resetPending /\ DOMAIN t = Fields /\ t.at \in Routines
    BY DEF Probe, ToolInv, TypeInv, StringsInv, FlagsInv, HistoryInv, Routines, Posts
<1> DEFINE l == IF t.referenceSet THEN Contact - t.reference ELSE t.tlo
           r == IF t.referenceSet THEN t.reference ELSE Contact
           found == [t EXCEPT !.at = "restore", !.pos = At("setter", Contact), !.tlo = l, !.reference = r,
                              !.referenceSet = TRUE]
           missed == [ChangeCompleted(t) EXCEPT !.at = "main", !.state = "alarm", !.pos = At("setter", 0)]
<1>2. t' = found \/ t' = missed
    BY DEF Probe
<1>3. CASE t' = found
    <2> HIDE DEF l, r
    <2>1. /\ DOMAIN t' = Fields /\ t'.at = "restore" /\ t'.executePosted = t.executePosted
          /\ \A f \in Fields \ {"at", "pos", "tlo", "reference", "referenceSet", "running", "changeAtG30",
                                 "executePosted"} : t'[f] = t[f]
        BY <1>1, <1>3 DEF Fields
    <2> QED BY <1>1, <2>1, RoutineKeeps
<1>4. CASE t' = missed
    <2>1. /\ DOMAIN t' = Fields /\ t'.at = "main" /\ t'.state = "alarm" /\ ~t'.trap /\ ~t'.toolChange
          /\ t'.trap \in BOOLEAN /\ t'.toolChange \in BOOLEAN
          /\ t'.handler = IF t.handler = "trap" THEN "normal" ELSE t.handler
          /\ \A f \in Fields \ {"at", "state", "pos", "handler", "trap", "toolChange"} : t'[f] = t[f]
        BY <1>1, <1>4 DEF Fields, ChangeCompleted
    <2>2. ~h.completed /\ t.trap /\ t.acked /\ t.suspended /\ t.posted = "none"
        BY <1>1 DEF ToolInv, TypeInv, StringsInv, FlagsInv, HistoryInv, RoutineInv, HandlersInv, ChangeInv, Routines, Posts
    <2>3. TypeInv'
        BY <1>1, <2>1 DEF ToolInv, TypeInv, StringsInv, FlagsInv, HistoryInv, Fields
    <2>4. HandlersInv'
        BY <2>1, <2>2 DEF ToolInv, HandlersInv, Fields
    <2>5. RoutineInv' /\ ChangeInv' /\ LinesInv'
        BY <1>1, <2>1, <2>2 DEF ToolInv, RoutineInv, ChangeInv, LinesInv, Routines, Posts, Fields
    <2>6. TipRestored' /\ HandlersOwned' /\ ChangeAsked'
        BY <1>1, <2>1, <2>2 DEF TipRestored, HandlersOwned, ChangeAsked, Fields
    <2>7. ProgramKept'
        BY <1>1, <2>1, SameLines DEF Fields, ToolInv, ChangeSound
    <2> QED BY <2>3, <2>4, <2>5, <2>6, <2>7 DEF ToolInv, ChangeSound
<1> QED BY <1>2, <1>3, <1>4

\* The change is complete: what it wants restored is what the M6 has kept.
LEMMA PlungeKeeps ==
    ASSUME ToolInv, Plunge
    PROVE  ToolInv'
<1>1. /\ t.at = "plunge" /\ ~t.resetPending /\ DOMAIN t = Fields /\ t.at \in Routines
    BY DEF Plunge, ToolInv, TypeInv, StringsInv, FlagsInv, HistoryInv, Routines, Posts
<1>2. /\ t.trap /\ t.acked /\ t.suspended /\ t.posted = "none" /\ t.state = "tool_change"
      /\ t.gcTool = t.slot /\ t.previous = h.asked /\ t.running = t.spindle /\ t.handler = "trap"
    BY <1>1 DEF ToolInv, TypeInv, StringsInv, FlagsInv, HistoryInv, RoutineInv, HandlersInv, ChangeInv, Routines, Posts
<1> DEFINE p == IF t.keep THEN t.pos ELSE PlungePosition(t)
           tool == NextTool(t)
<1>3. t' = ChangeCompleted([t EXCEPT !.at = "main", !.pos = p, !.current = tool, !.cycleStart = TRUE])
    BY DEF Plunge
<1>4. tool = t.gcTool
    BY <1>2 DEF NextTool
<1>5. p = IF t.keep THEN t.pos ELSE [h.asked EXCEPT !.z = @ + Offset(t)]
    BY <1>2 DEF PlungePosition
<1> HIDE DEF p, tool
<1>6. /\ DOMAIN t' = Fields /\ t'.at = "main" /\ ~t'.trap /\ ~t'.toolChange /\ t'.cycleStart
      /\ t'.trap \in BOOLEAN /\ t'.toolChange \in BOOLEAN /\ t'.cycleStart \in BOOLEAN
      /\ t'.handler = "normal" /\ t'.pos = p /\ t'.current = tool
      /\ \A f \in Fields \ {"at", "pos", "current", "cycleStart", "handler", "trap", "toolChange"} : t'[f] = t[f]
    BY <1>1, <1>2, <1>3 DEF Fields, ChangeCompleted
<1>7. DOMAIN h' = DOMAIN h /\ h'.completed = TRUE /\ h'.executed = h.executed /\ h'.asked = h.asked
    BY DEF ToolInv, TypeInv, StringsInv, FlagsInv, HistoryInv, Plunge
<1>8. TypeInv'
    <2>1. StringsInv'
        BY <1>6 DEF ToolInv, TypeInv, StringsInv, Fields
    <2>2. FlagsInv'
        BY <1>6 DEF ToolInv, TypeInv, FlagsInv, Fields
    <2>3. HistoryInv'
        BY <1>7 DEF ToolInv, TypeInv, HistoryInv
    <2> QED BY <2>1, <2>2, <2>3 DEF TypeInv
<1>9. HandlersInv' /\ RoutineInv'
    BY <1>1, <1>2, <1>6 DEF ToolInv, HandlersInv, RoutineInv, Routines, Posts, Fields
<1>10. LinesInv' /\ ChangeInv'
    BY SMTT(30), <1>2, <1>6, <1>7 DEF ToolInv, LinesInv, ChangeInv, Fields
<1>11. TipRestored'
    <2>1. t'.keep = t.keep /\ t'.running = t'.spindle /\ t'.current = t'.gcTool /\ Offset(t') = Offset(t)
        BY <1>2, <1>4, <1>6 DEF Fields, Offset
    <2>2. t'.keep \/ t'.pos = [h'.asked EXCEPT !.z = @ + Offset(t')]
        BY <1>5, <1>6, <1>7, <2>1
    <2> QED BY <2>1, <2>2 DEF TipRestored
<1>12. HandlersOwned' /\ ChangeAsked'
    BY <1>1, <1>2, <1>6, <1>7 DEF ToolInv, ChangeSound, HandlersOwned, ChangeAsked, Fields
<1>13. ProgramKept'
    BY <1>6, <1>7, SameLines DEF Fields, ToolInv, ChangeSound
<1> QED BY <1>8, <1>9, <1>10, <1>11, <1>12, <1>13 DEF ToolInv, ChangeSound

-----------------------------------------------------------------------------
(* Interrupts, and the end of a change *)

\* stream_rx_suspend(false) gives back what an unacknowledged or an acknowledged
\* suspension has taken; a trap is left for change_completed.
LEMMA UnsuspendedIs ==
    ASSUME NEW c, DOMAIN c = Fields, c.suspended \in BOOLEAN, c.acked \in BOOLEAN, c.acked => c.suspended,
           c.suspended /\ ~c.acked => c.handler = "await",
           ~c.suspended \/ c.acked => c.handler # "await" /\ c.read = "normal",
           c.handler \in {"normal", "await", "trap"}
    PROVE  /\ DOMAIN Unsuspended(c) = Fields
           /\ ~Unsuspended(c).suspended /\ ~Unsuspended(c).acked
           /\ Unsuspended(c).suspended \in BOOLEAN /\ Unsuspended(c).acked \in BOOLEAN
           /\ Unsuspended(c).rx = IF c.acked THEN c.backup ELSE c.rx
           /\ Unsuspended(c).read = "normal"
           /\ Unsuspended(c).handler = IF c.handler = "trap" THEN "trap" ELSE "normal"
           /\ \A f \in Fields \ {"suspended", "acked", "rx", "read", "handler"} : Unsuspended(c)[f] = c[f]
<1>1. CASE ~c.suspended
    BY <1>1 DEF Unsuspended, Fields
<1>2. CASE c.suspended
    <2> DEFINE rx == IF c.acked THEN c.backup ELSE c.rx
               read == IF c.acked THEN c.read ELSE "normal"
               handler == IF c.acked THEN c.handler ELSE "normal"
               u == [c EXCEPT !.suspended = FALSE, !.acked = FALSE, !.rx = rx, !.read = read, !.handler = handler]
    <2>1. Unsuspended(c) = u
        BY <1>2 DEF Unsuspended
    <2>2. read = "normal" /\ handler = IF c.handler = "trap" THEN "trap" ELSE "normal"
        BY <1>2
    <2>3. rx = IF c.acked THEN c.backup ELSE c.rx
        OBVIOUS
    <2> HIDE DEF rx, read, handler
    <2>4. /\ DOMAIN u = Fields /\ ~u.suspended /\ ~u.acked /\ u.suspended \in BOOLEAN /\ u.acked \in BOOLEAN
          /\ u.rx = rx /\ u.read = read /\ u.handler = handler
          /\ \A f \in Fields \ {"suspended", "acked", "rx", "read", "handler"} : u[f] = c[f]
        BY DEF Fields
    <2> HIDE DEF u
    <2> QED BY <2>1, <2>2, <2>3, <2>4
<1> QED BY <1>1, <1>2

\* The lines that remain, wherever they are kept.
Remaining == IF t.acked THEN t.backup ELSE t.rx

LEMMA UnsuspendedNow ==
    ASSUME ToolInv
    PROVE  /\ DOMAIN Unsuspended(t) = Fields
           /\ ~Unsuspended(t).suspended /\ ~Unsuspended(t).acked
           /\ Unsuspended(t).suspended \in BOOLEAN /\ Unsuspended(t).acked \in BOOLEAN
           /\ Unsuspended(t).rx = Remaining /\ Remaining \in Seq(Lines)
           /\ Unsuspended(t).read = "normal"
           /\ Unsuspended(t).handler = IF t.handler = "trap" THEN "trap" ELSE "normal"
           /\ \A f \in Fields \ {"suspended", "acked", "rx", "read", "handler"} : Unsuspended(t)[f] = t[f]
<1>1. /\ DOMAIN t = Fields /\ t.suspended \in BOOLEAN /\ t.acked \in BOOLEAN /\ (t.acked => t.suspended)
      /\ t.suspended /\ ~t.acked => t.handler = "await"
      /\ ~t.suspended \/ t.acked => t.handler # "await" /\ t.read = "normal"
      /\ t.handler \in {"normal", "await", "trap"}
    BY DEF ToolInv, TypeInv, StringsInv, FlagsInv, HandlersInv
<1>2. Remaining \in Seq(Lines)
    BY <1>1 DEF Remaining, ToolInv, LinesInv
<1>3. /\ DOMAIN Unsuspended(t) = Fields
      /\ ~Unsuspended(t).suspended /\ ~Unsuspended(t).acked
      /\ Unsuspended(t).suspended \in BOOLEAN /\ Unsuspended(t).acked \in BOOLEAN
      /\ Unsuspended(t).rx = IF t.acked THEN t.backup ELSE t.rx
      /\ Unsuspended(t).read = "normal"
      /\ Unsuspended(t).handler = IF t.handler = "trap" THEN "trap" ELSE "normal"
      /\ \A f \in Fields \ {"suspended", "acked", "rx", "read", "handler"} : Unsuspended(t)[f] = t[f]
    BY <1>1, UnsuspendedIs
<1>4. Unsuspended(t).rx = Remaining
    BY <1>3 DEF Remaining
<1> QED BY <1>2, <1>3, <1>4

LEMMA ResumeKeeps ==
    ASSUME ToolInv, Resume
    PROVE  ToolInv'
<1>1. /\ h' = h /\ t.cycleStart /\ t.at = "main" /\ ~t.resetPending /\ DOMAIN t = Fields
    BY DEF Resume, ToolInv, TypeInv, StringsInv
<1>2. CASE t.state = "tool_change" /\ ~t.toolChange
    <2> DEFINE u == Unsuspended(t)
    <2>1. t' = [u EXCEPT !.cycleStart = FALSE, !.state = "idle"]
        BY <1>2 DEF Resume
    <2>2. t.suspended /\ ~t.trap /\ t.handler # "trap" /\ t.posted = "none"
        BY <1>1, <1>2 DEF ToolInv, TypeInv, FlagsInv, HandlersInv, RoutineInv
    <2>3. /\ DOMAIN u = Fields /\ ~u.suspended /\ ~u.acked /\ u.suspended \in BOOLEAN /\ u.acked \in BOOLEAN
          /\ u.rx = Remaining /\ Remaining \in Seq(Lines) /\ u.read = "normal" /\ u.handler = "normal"
          /\ \A f \in Fields \ {"suspended", "acked", "rx", "read", "handler"} : u[f] = t[f]
        BY <2>2, UnsuspendedNow
    <2> HIDE DEF u
    <2>4. /\ DOMAIN t' = Fields /\ ~t'.suspended /\ ~t'.acked /\ t'.suspended \in BOOLEAN /\ t'.acked \in BOOLEAN
          /\ t'.rx = Remaining /\ t'.read = "normal" /\ t'.handler = "normal" /\ t'.state = "idle"
          /\ ~t'.cycleStart /\ t'.cycleStart \in BOOLEAN
          /\ \A f \in Fields \ {"suspended", "acked", "rx", "read", "handler", "cycleStart", "state"} : t'[f] = t[f]
        BY <2>1, <2>3 DEF Fields
    <2>5. TypeInv'
        <3>1. StringsInv'
            BY <2>4 DEF ToolInv, TypeInv, StringsInv, Fields
        <3>2. FlagsInv'
            BY <2>4 DEF ToolInv, TypeInv, FlagsInv, Fields
        <3>3. HistoryInv'
            BY <1>1 DEF ToolInv, TypeInv, HistoryInv
        <3> QED BY <3>1, <3>2, <3>3 DEF TypeInv
    <2>6. HandlersInv' /\ RoutineInv'
        BY <1>1, <2>2, <2>4 DEF HandlersInv, RoutineInv, Routines, Posts, Fields
    <2>7. LinesInv' /\ ChangeInv'
        BY SMTT(30), <1>1, <2>3, <2>4 DEF ToolInv, LinesInv, ChangeInv, Fields
    <2>8. TipRestored'
        BY <1>1, <2>4, SameTip DEF ToolInv, ChangeSound, Fields
    <2>9. HandlersOwned' /\ ChangeAsked'
        BY <1>1, <2>2, <2>4 DEF HandlersOwned, ChangeAsked, Fields
    <2>10. ProgramKept'
        BY <1>1, <2>4 DEF ToolInv, ChangeSound, ProgramKept, Remaining, Fields
    <2> QED BY <2>5, <2>6, <2>7, <2>8, <2>9, <2>10 DEF ToolInv, ChangeSound
<1>3. CASE ~(t.state = "tool_change" /\ ~t.toolChange)
    <2>1. t' = [t EXCEPT !.cycleStart = FALSE]
        BY <1>3 DEF Resume
    <2>2. /\ DOMAIN t' = Fields /\ ~t'.cycleStart /\ t'.cycleStart \in BOOLEAN
          /\ \A f \in Fields \ {"cycleStart"} : t'[f] = t[f]
        BY <1>1, <2>1 DEF Fields
    <2>3. TypeInv'
        <3>1. StringsInv'
            BY <2>2 DEF ToolInv, TypeInv, StringsInv, Fields
        <3>2. FlagsInv'
            BY <2>2 DEF ToolInv, TypeInv, FlagsInv, Fields
        <3>3. HistoryInv'
            BY <1>1 DEF ToolInv, TypeInv, HistoryInv
        <3> QED BY <3>1, <3>2, <3>3 DEF TypeInv
    <2>4. HandlersInv' /\ RoutineInv'
        BY <2>2 DEF ToolInv, HandlersInv, RoutineInv, Routines, Posts, Fields
    <2>5. LinesInv' /\ ChangeInv'
        BY <1>1, <1>3, <2>2 DEF ToolInv, LinesInv, ChangeInv, Fields
    <2>6. TipRestored'
        BY <1>1, <2>2, SameTip DEF ToolInv, ChangeSound, Fields
    <2>7. HandlersOwned' /\ ChangeAsked'
        BY <1>1, <2>2 DEF ToolInv, ChangeSound, HandlersOwned, ChangeAsked, Fields
    <2>8. ProgramKept'
        BY <1>1, <2>2, SameLines DEF Fields, ToolInv, ChangeSound
    <2> QED BY <2>3, <2>4, <2>5, <2>6, <2>7, <2>8 DEF ToolInv, ChangeSound
<1> QED BY <1>2, <1>3

LEMMA AcknowledgeKeeps ==
    ASSUME ToolAssumptions, ToolInv, Acknowledge
    PROVE  ToolInv'
<1>1. /\ h' = h /\ t.suspended /\ ~t.acked /\ t.toolChange /\ t.state = "tool_change" /\ ~t.resetPending
      /\ ~h.completed /\ t.posted = "none" /\ DOMAIN t = Fields /\ t.rx \in Seq(Lines)
    BY DEF Acknowledge, ToolAssumptions, ToolInv, TypeInv, StringsInv, FlagsInv, HistoryInv,
           HandlersInv, RoutineInv, LinesInv, ChangeInv
<1>2. /\ DOMAIN t' = Fields /\ t'.acked /\ t'.acked \in BOOLEAN /\ t'.trap /\ t'.trap \in BOOLEAN
      /\ t'.backup = t.rx /\ t'.rx = << >> /\ t'.read = "normal" /\ t'.handler = "trap"
      /\ \A f \in Fields \ {"acked", "backup", "rx", "read", "trap", "handler"} : t'[f] = t[f]
    BY <1>1 DEF Acknowledge, Fields
<1>3. StringsInv'
    BY <1>2 DEF ToolInv, TypeInv, StringsInv, Fields
<1>4. FlagsInv' /\ HistoryInv'
    BY <1>1, <1>2 DEF ToolInv, TypeInv, FlagsInv, HistoryInv, Fields
<1>5. HandlersInv' /\ RoutineInv'
    BY <1>1, <1>2 DEF ToolInv, HandlersInv, RoutineInv, Routines, Posts, Fields
<1>6. LinesInv' /\ ChangeInv'
    BY <1>1, <1>2 DEF ToolInv, LinesInv, ChangeInv, Fields
<1>7. TipRestored' /\ HandlersOwned' /\ ChangeAsked'
    BY <1>1, <1>2 DEF ToolInv, ChangeSound, TipRestored, HandlersOwned, ChangeAsked, Fields
<1>8. ProgramKept'
    BY <1>1, <1>2 DEF ToolInv, ChangeSound, ProgramKept, Fields
<1> QED BY <1>3, <1>4, <1>5, <1>6, <1>7, <1>8 DEF ToolInv, TypeInv, ChangeSound

LEMMA CycleStartKeeps ==
    ASSUME ToolAssumptions, ToolInv, CycleStart
    PROVE  ToolInv'
<1>1. h' = h /\ t.at # "tpw" /\ (t.trap => ~t.resetPending) /\ DOMAIN t = Fields
    BY DEF CycleStart, ToolAssumptions, ToolInv, TypeInv, StringsInv, FlagsInv
<1>2. CASE ~t.trap
    <2>1. t' = [t EXCEPT !.cycleStart = TRUE, !.toolChange = FALSE]
        BY <1>2 DEF CycleStart
    <2>2. /\ DOMAIN t' = Fields /\ t'.cycleStart /\ t'.cycleStart \in BOOLEAN /\ ~t'.toolChange
          /\ t'.toolChange \in BOOLEAN /\ \A f \in Fields \ {"cycleStart", "toolChange"} : t'[f] = t[f]
        BY <1>1, <2>1 DEF Fields
    <2>3. StringsInv'
        BY <2>2 DEF ToolInv, TypeInv, StringsInv, Fields
    <2>4. FlagsInv' /\ HistoryInv'
        BY <1>1, <2>2 DEF ToolInv, TypeInv, FlagsInv, HistoryInv, Fields
    <2>5. HandlersInv' /\ RoutineInv'
        BY <1>2, <2>2 DEF ToolInv, HandlersInv, RoutineInv, Routines, Posts, Fields
    <2>6. LinesInv' /\ ChangeInv'
        BY <1>1, <2>2 DEF ToolInv, LinesInv, ChangeInv, Fields
    <2>7. TipRestored'
        BY <1>1, <2>2, SameTip DEF ToolInv, ChangeSound, Fields
    <2>8. HandlersOwned' /\ ChangeAsked'
        BY <1>1, <2>2 DEF ToolInv, ChangeSound, HandlersOwned, ChangeAsked, Fields
    <2>9. ProgramKept'
        BY <1>1, <2>2, SameLines DEF Fields, ToolInv, ChangeSound
    <2> QED BY <2>3, <2>4, <2>5, <2>6, <2>7, <2>8, <2>9 DEF ToolInv, TypeInv, ChangeSound
<1>3. CASE t.trap /\ (t.executePosted \/ (t.blocked /\ ~t.changeAtG30))
    <2>1. t' = t
        BY <1>3 DEF CycleStart
    <2> QED BY <1>1, <2>1 DEF ToolInv, TypeInv, StringsInv, FlagsInv, HistoryInv, HandlersInv, RoutineInv, LinesInv,
                ChangeInv, ChangeSound, TipRestored, HandlersOwned, ProgramKept, ChangeAsked, Offset, Remaining
<1>4. CASE t.trap /\ ~(t.executePosted \/ (t.blocked /\ ~t.changeAtG30))
    <2> DEFINE post == CASE t.blocked -> "return" [] t.mode = "semi" -> "probe" [] OTHER -> "restore"
    <2>1. t' = [t EXCEPT !.executePosted = TRUE, !.posted = post]
        BY <1>4 DEF CycleStart
    <2>2. post \in Posts
        BY DEF Posts
    <2> HIDE DEF post
    <2>3. /\ DOMAIN t' = Fields /\ t'.executePosted /\ t'.executePosted \in BOOLEAN /\ t'.posted = post
          /\ \A f \in Fields \ {"executePosted", "posted"} : t'[f] = t[f]
        BY <1>1, <2>1 DEF Fields
    <2>4. /\ t.at = "main" /\ ~t.resetPending /\ ~h.completed /\ t.state = "tool_change" /\ t.acked
        BY <1>1, <1>4 DEF ToolInv, TypeInv, StringsInv, FlagsInv, HistoryInv, HandlersInv, RoutineInv, ChangeInv
    <2>5. StringsInv'
        BY <2>2, <2>3 DEF ToolInv, TypeInv, StringsInv, Fields
    <2>6. FlagsInv' /\ HistoryInv'
        BY <1>1, <2>3 DEF ToolInv, TypeInv, FlagsInv, HistoryInv, Fields
    <2>7. HandlersInv' /\ RoutineInv'
        BY <1>4, <2>3, <2>4 DEF ToolInv, HandlersInv, RoutineInv, Routines, Posts, Fields
    <2>8. LinesInv' /\ ChangeInv'
        BY SMTT(30), <1>1, <2>3, <2>4 DEF ToolInv, LinesInv, ChangeInv, Fields
    <2>9. TipRestored' /\ HandlersOwned' /\ ChangeAsked'
        BY <1>1, <2>3, <2>4 DEF ToolInv, ChangeSound, TipRestored, HandlersOwned, ChangeAsked, Fields
    <2>10. ProgramKept'
        BY <1>1, <2>3, SameLines DEF Fields, ToolInv, ChangeSound
    <2> QED BY <2>5, <2>6, <2>7, <2>8, <2>9, <2>10 DEF ToolInv, TypeInv, ChangeSound
<1> QED BY <1>2, <1>3, <1>4

LEMMA ResetKeyKeeps ==
    ASSUME ToolAssumptions, ToolInv, ResetKey
    PROVE  ToolInv'
<1> DEFINE u == Unsuspended(t)
<1>1. /\ t.posted = "none" /\ ~t.resetPending /\ DOMAIN t = Fields /\ t' = [u EXCEPT !.resetPending = TRUE]
    BY DEF ResetKey, StopAllowed, ToolAssumptions, ToolInv, TypeInv, StringsInv
<1>2. /\ DOMAIN u = Fields /\ ~u.suspended /\ ~u.acked /\ u.suspended \in BOOLEAN /\ u.acked \in BOOLEAN
      /\ u.rx = Remaining /\ Remaining \in Seq(Lines) /\ u.read = "normal"
      /\ u.handler = IF t.handler = "trap" THEN "trap" ELSE "normal"
      /\ \A f \in Fields \ {"suspended", "acked", "rx", "read", "handler"} : u[f] = t[f]
    BY UnsuspendedNow
<1> HIDE DEF u
<1>3. /\ DOMAIN t' = Fields /\ ~t'.suspended /\ ~t'.acked /\ t'.suspended \in BOOLEAN /\ t'.acked \in BOOLEAN
      /\ t'.rx = Remaining /\ t'.read = "normal" /\ t'.handler = IF t.handler = "trap" THEN "trap" ELSE "normal"
      /\ t'.resetPending /\ t'.resetPending \in BOOLEAN
      /\ \A f \in Fields \ {"suspended", "acked", "rx", "read", "handler", "resetPending"} : t'[f] = t[f]
    BY <1>1, <1>2 DEF Fields
<1>4. DOMAIN h' = DOMAIN h /\ h'.executed = h.executed /\ h'.completed = h.completed /\ h'.asked = h.asked
    BY DEF ToolInv, TypeInv, HistoryInv, ResetKey
<1>5. StringsInv'
    BY <1>3 DEF ToolInv, TypeInv, StringsInv, Fields
<1>6. FlagsInv'
    BY <1>3 DEF ToolInv, TypeInv, FlagsInv, Fields
<1>7. HistoryInv'
    BY <1>4 DEF ToolInv, TypeInv, HistoryInv
<1>8. HandlersInv' /\ RoutineInv'
    BY <1>1, <1>3 DEF ToolInv, HandlersInv, RoutineInv, Routines, Posts, Fields
<1>9. LinesInv' /\ ChangeInv'
    <2>1. LinesInv'
        BY <1>2, <1>3, <1>4 DEF ToolInv, LinesInv, Fields
    <2>2. ChangeInv'
        BY <1>3, <1>4 DEF ToolInv, ChangeInv, Fields
    <2> QED BY <2>1, <2>2
<1>10. TipRestored'
    BY <1>3, <1>4, SameTip DEF ToolInv, ChangeSound, Fields
<1>11. HandlersOwned' /\ ChangeAsked' /\ ProgramKept'
    BY <1>3 DEF HandlersOwned, ChangeAsked, ProgramKept
<1> QED BY <1>5, <1>6, <1>7, <1>8, <1>9, <1>10, <1>11 DEF ToolInv, TypeInv, ChangeSound

\* reset leaves the input and what holds it alone, and the rest as at power up.
Kept == {"rx", "backup", "acked", "suspended", "read", "resetPending", "posted", "slot", "previous", "keep"}

LEMMA DriverResetIs ==
    ASSUME NEW c, DOMAIN c = Fields
    PROVE  /\ DOMAIN DriverReset(c) = Fields
           /\ DriverReset(c).at = "main" /\ DriverReset(c).state = "idle"
           /\ DriverReset(c).handler = IF c.handler = "trap" THEN "normal" ELSE c.handler
           /\ ~DriverReset(c).trap /\ ~DriverReset(c).toolChange /\ ~DriverReset(c).cycleStart
           /\ DriverReset(c).trap \in BOOLEAN /\ DriverReset(c).toolChange \in BOOLEAN
           /\ DriverReset(c).cycleStart \in BOOLEAN
           /\ DriverReset(c).executePosted = IF c.at = "return" THEN FALSE ELSE c.executePosted
           /\ \A f \in Kept : DriverReset(c)[f] = c[f]
<1> DEFINE d == ChangeCompleted(c)
           g30 == IF c.at = "return" THEN FALSE ELSE d.changeAtG30
           executed == IF c.at = "return" THEN FALSE ELSE d.executePosted
<1>1. /\ DOMAIN d = Fields /\ ~d.trap /\ ~d.toolChange /\ d.trap \in BOOLEAN /\ d.toolChange \in BOOLEAN
      /\ d.handler = IF c.handler = "trap" THEN "normal" ELSE c.handler
      /\ \A f \in Fields \ {"handler", "trap", "toolChange"} : d[f] = c[f]
    BY DEF ChangeCompleted, Fields
<1>2. DriverReset(c) = [d EXCEPT !.pending = d.gcTool, !.next = "gc", !.current = d.gcTool,
                 !.spindle = FALSE, !.running = FALSE, !.at = "main", !.state = "idle",
                 !.cycleStart = FALSE, !.changeAtG30 = g30, !.executePosted = executed]
    BY DEF DriverReset
<1>3. executed = IF c.at = "return" THEN FALSE ELSE c.executePosted
    BY <1>1 DEF Fields
<1> HIDE DEF d, g30, executed
<1> DEFINE r == DriverReset(c)
<1>4. /\ DOMAIN r = Fields /\ r.at = "main" /\ r.state = "idle"
      /\ r.cycleStart = FALSE /\ r.executePosted = executed
      /\ \A f \in Kept \cup {"handler", "trap", "toolChange"} : r[f] = d[f]
    BY ZenonT(60), <1>1, <1>2 DEF Fields, Kept
<1> HIDE DEF r
<1>5. \A f \in Kept : r[f] = c[f]
    BY <1>1, <1>4 DEF Fields, Kept
<1>6. /\ r.handler = IF c.handler = "trap" THEN "normal" ELSE c.handler
      /\ r.executePosted = IF c.at = "return" THEN FALSE ELSE c.executePosted
    BY <1>1, <1>3, <1>4
<1>7. /\ ~r.trap /\ ~r.toolChange /\ ~r.cycleStart
      /\ r.trap \in BOOLEAN /\ r.toolChange \in BOOLEAN /\ r.cycleStart \in BOOLEAN
    BY <1>1, <1>4
<1> QED BY <1>4, <1>5, <1>6, <1>7 DEF r

\* A machine that has been reset, and its program at the beginning.
LEMMA ResetSound ==
    ASSUME ToolAssumptions, ToolInv, h' = [HistoryRestarted EXCEPT !.stops = h'.stops],
           DOMAIN t' = Fields, t'.at = "main", t'.state = "idle", t'.handler = "normal", t'.read = "normal",
           t'.trap = FALSE, t'.toolChange = FALSE, t'.cycleStart = FALSE, t'.acked = FALSE, t'.suspended = FALSE,
           t'.resetPending = FALSE, t'.executePosted \in BOOLEAN, t'.posted = "none",
           t'.rx = Program, t'.backup \in Seq(Lines)
    PROVE  ToolInv'
<1>1. DOMAIN h' = DOMAIN h /\ h'.executed = << >> /\ h'.completed = FALSE
    BY DEF HistoryRestarted, ToolInv, TypeInv, HistoryInv
<1>2. StringsInv'
    BY DEF StringsInv
<1>3. FlagsInv'
    BY DEF FlagsInv
<1>4. HistoryInv'
    BY <1>1 DEF ToolInv, TypeInv, HistoryInv
<1>5. HandlersInv' /\ RoutineInv' /\ ChangeInv'
    BY <1>1 DEF HandlersInv, RoutineInv, ChangeInv, Routines, Posts
<1>6. LinesInv'
    BY <1>1 DEF ToolAssumptions, LinesInv
<1>7. ProgramKept'
    <2>1. h'.executed \o t'.rx = Program
        BY <1>1, ConcatEmptySeq DEF ToolAssumptions
    <2> QED BY <2>1 DEF ProgramKept
<1>8. TipRestored' /\ HandlersOwned' /\ ChangeAsked'
    BY <1>1 DEF TipRestored, HandlersOwned, ChangeAsked
<1> QED BY <1>2, <1>3, <1>4, <1>5, <1>6, <1>7, <1>8 DEF ToolInv, TypeInv, ChangeSound

LEMMA HandleResetKeeps ==
    ASSUME ToolAssumptions, ToolInv, HandleReset
    PROVE  ToolInv'
<1> DEFINE d == DriverReset(t)
<1>1. t' = [[d EXCEPT !.resetPending = FALSE] EXCEPT !.rx = Program] /\ h' = HistoryRestarted /\ t.resetPending
    BY DEF HandleReset, Restarted
<1>2. /\ DOMAIN t = Fields /\ ~t.suspended /\ ~t.acked /\ t.posted = "none" /\ t.handler # "await"
      /\ t.handler \in {"normal", "await", "trap"} /\ t.read = "normal" /\ t.suspended \in BOOLEAN
      /\ t.acked \in BOOLEAN /\ t.executePosted \in BOOLEAN /\ t.backup \in Seq(Lines)
    BY <1>1 DEF ToolInv, TypeInv, StringsInv, FlagsInv, HandlersInv, RoutineInv, LinesInv
<1>3. /\ DOMAIN d = Fields /\ d.at = "main" /\ d.state = "idle"
      /\ d.handler = IF t.handler = "trap" THEN "normal" ELSE t.handler
      /\ ~d.trap /\ ~d.toolChange /\ ~d.cycleStart
      /\ d.trap \in BOOLEAN /\ d.toolChange \in BOOLEAN /\ d.cycleStart \in BOOLEAN
      /\ d.executePosted = IF t.at = "return" THEN FALSE ELSE t.executePosted
      /\ \A f \in Kept : d[f] = t[f]
    BY <1>2, DriverResetIs
<1> HIDE DEF d
<1>4. /\ DOMAIN t' = Fields /\ t'.at = "main" /\ t'.state = "idle" /\ t'.handler = "normal" /\ t'.read = "normal"
      /\ t'.trap = FALSE /\ t'.toolChange = FALSE /\ t'.cycleStart = FALSE /\ t'.resetPending = FALSE
      /\ t'.acked = FALSE /\ t'.suspended = FALSE /\ t'.posted = "none"
      /\ t'.rx = Program /\ t'.backup = t.backup
    BY <1>1, <1>2, <1>3 DEF Fields, Kept
<1>5. t'.executePosted \in BOOLEAN
    BY <1>1, <1>2, <1>3 DEF Fields
<1>6. h' = [HistoryRestarted EXCEPT !.stops = h'.stops]
    BY <1>1 DEF HistoryRestarted, ToolInv, TypeInv, HistoryInv
<1> QED BY <1>2, <1>4, <1>5, <1>6, ResetSound

LEMMA StopKeeps ==
    ASSUME ToolAssumptions, ToolInv, Stop
    PROVE  ToolInv'
<1> DEFINE d == DriverReset(t)
           u == Unsuspended(d)
<1>1. /\ t.at # "leave" /\ t' = [[u EXCEPT !.at = "main"] EXCEPT !.rx = Program]
      /\ ~t.resetPending /\ t.posted = "none"
    BY DEF Stop, Restarted, StopAllowed, ToolAssumptions
<1>2. /\ DOMAIN t = Fields /\ t.handler \in {"normal", "await", "trap"}
      /\ t.suspended /\ ~t.acked => t.handler = "await"
      /\ ~t.suspended \/ t.acked => t.handler # "await" /\ t.read = "normal"
      /\ t.suspended \in BOOLEAN /\ (t.acked => t.suspended)
      /\ t.acked \in BOOLEAN /\ t.executePosted \in BOOLEAN /\ t.backup \in Seq(Lines)
    BY <1>1 DEF ToolInv, TypeInv, StringsInv, FlagsInv, HandlersInv, RoutineInv, LinesInv
<1>3. /\ DOMAIN d = Fields /\ d.at = "main" /\ d.state = "idle"
      /\ d.handler = IF t.handler = "trap" THEN "normal" ELSE t.handler
      /\ ~d.trap /\ ~d.toolChange /\ ~d.cycleStart
      /\ d.trap \in BOOLEAN /\ d.toolChange \in BOOLEAN /\ d.cycleStart \in BOOLEAN
      /\ d.executePosted = IF t.at = "return" THEN FALSE ELSE t.executePosted
      /\ \A f \in Kept : d[f] = t[f]
    BY <1>2, DriverResetIs
<1> HIDE DEF d
<1>4. /\ d.suspended = t.suspended /\ d.acked = t.acked /\ d.read = t.read /\ d.handler \in {"normal", "await"}
      /\ d.suspended /\ ~d.acked => d.handler = "await"
      /\ ~d.suspended \/ d.acked => d.handler = "normal" /\ d.read = "normal"
      /\ d.posted = "none" /\ ~d.resetPending /\ d.backup = t.backup
    BY <1>1, <1>2, <1>3 DEF Kept
<1>5. /\ DOMAIN u = Fields /\ ~u.suspended /\ ~u.acked /\ u.suspended \in BOOLEAN /\ u.acked \in BOOLEAN
      /\ u.read = "normal" /\ u.handler = "normal"
      /\ \A f \in Fields \ {"suspended", "acked", "rx", "read", "handler"} : u[f] = d[f]
    <2>1. d.suspended \in BOOLEAN /\ d.acked \in BOOLEAN /\ (d.acked => d.suspended)
        BY <1>2, <1>4
    <2>2. d.handler # "trap"
        BY <1>4
    <2> QED BY <1>3, <1>4, <2>1, <2>2, UnsuspendedIs
<1> HIDE DEF u
<1>6. t.resetPending \in BOOLEAN /\ d.resetPending = t.resetPending
    BY <1>3 DEF Kept, ToolInv, TypeInv, FlagsInv
<1>7. /\ DOMAIN t' = Fields /\ t'.at = "main" /\ t'.state = "idle" /\ t'.handler = "normal" /\ t'.read = "normal"
      /\ t'.trap = FALSE /\ t'.toolChange = FALSE /\ t'.cycleStart = FALSE /\ t'.resetPending = FALSE
      /\ t'.acked = FALSE /\ t'.suspended = FALSE /\ t'.posted = "none"
      /\ t'.rx = Program /\ t'.backup = t.backup
    BY <1>1, <1>3, <1>4, <1>5, <1>6 DEF Fields
<1>8. t'.executePosted \in BOOLEAN
    BY <1>1, <1>2, <1>3, <1>5 DEF Fields
<1>9. h' = [HistoryRestarted EXCEPT !.stops = h'.stops]
    BY DEF Stop, HistoryRestarted, ToolInv, TypeInv, HistoryInv
<1> QED BY <1>2, <1>7, <1>8, <1>9, ResetSound

LEMMA StutterKeeps ==
    ASSUME ToolInv, UNCHANGED vars
    PROVE  ToolInv'
<1>1. t' = t /\ h' = h
    BY DEF vars
<1> QED BY <1>1 DEF ToolInv, TypeInv, StringsInv, FlagsInv, HistoryInv, HandlersInv, RoutineInv, LinesInv,
             ChangeInv, ChangeSound, TipRestored, HandlersOwned, ProgramKept, ChangeAsked, Offset

-----------------------------------------------------------------------------
\* A tool change that completes restores the tip of the tool and the accessories, takes
\* no line of the program with it, runs only where the program has asked for it, and
\* gives back the character handler, the buttons and the input, however it ends
\* (tool_change.c, stream_rx_suspend): for every program and every set of tools, and
\* any number of lines typed, of resets and of stops, outside of AllWindows.
THEOREM ChangesAreSound ==
    ASSUME ToolAssumptions
    PROVE  Spec => []ChangeSound
<1>1. Init => ToolInv
    BY InitHolds
<1>2. ToolInv /\ [Next]_vars => ToolInv'
    <2> SUFFICES ASSUME ToolInv, [Next]_vars PROVE ToolInv'
        OBVIOUS
    <2>1. CASE Leave
        BY <2>1, LeaveKeeps
    <2>2. CASE ReadMove
        BY <2>2, ReadMoveKeeps
    <2>3. CASE ReadJog \/ ReadOffset \/ ReadTouchOff
        BY <2>3, ReadTypedKeeps
    <2>4. CASE TouchOff
        BY <2>4, TouchOffKeeps
    <2>5. CASE Routine
        BY <2>5, RunPostedKeeps, ReturnKeeps, ProbeKeeps, RestoreKeeps, PlungeKeeps DEF Routine
    <2>6. CASE Resume
        BY <2>6, ResumeKeeps
    <2>7. CASE Acknowledge
        BY <2>7, AcknowledgeKeeps
    <2>8. CASE CycleStart
        BY <2>8, CycleStartKeeps
    <2>9. CASE ResetKey
        BY <2>9, ResetKeyKeeps
    <2>10. CASE HandleReset
        BY <2>10, HandleResetKeeps
    <2>11. CASE Stop
        BY <2>11, StopKeeps
    <2>12. CASE \E tool \in DOMAIN Length : ReadChange(tool)
        BY <2>12, ReadChangeKeeps
    <2>13. CASE \E line \in Typed : Type(line)
        BY <2>13, TypeKeeps
    <2>14. CASE UNCHANGED vars
        BY <2>14, StutterKeeps
    <2> QED BY <2>1, <2>2, <2>3, <2>4, <2>5, <2>6, <2>7, <2>8, <2>9, <2>10, <2>11, <2>12, <2>13, <2>14 DEF Next
<1>3. ToolInv => ChangeSound
    BY DEF ToolInv
<1> QED BY <1>1, <1>2, <1>3, PTL DEF Spec
=============================================================================
