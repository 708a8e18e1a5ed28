-------------------------------- MODULE Flow --------------------------------
(***************************************************************************)
(* Flow control, parameters and macro files (ngc_flowctrl.c, ngc_params.c, *)
(* stream_file.c): o-word lines push, change and pull the entries of a     *)
(* stack and move the position in the file they are read from; named subs  *)
(* are files the input is redirected to; local parameters and saved modal  *)
(* states belong to call levels.  A line is one step.                      *)
(*                                                                         *)
(* A program is its files, sequences of lines, of which "main" is typed at *)
(* the console or, by a plugin, read from a card.  Lines that are not      *)
(* o-words are blocks: they assign parameters, set a mode, save or restore *)
(* the modes, read an input, or are rejected.                              *)
(***************************************************************************)
EXTENDS Integers, Sequences, FiniteSets, NgcExpr
LOCAL INSTANCE SequencesExt
LOCAL INSTANCE FiniteSetsExt
LOCAL INSTANCE TLC

CONSTANTS
    Programs,   \* sequence of [console |-> BOOLEAN, files |-> [name -> Seq(line)]]
    Names,      \* labels of named subs: the macro <name>.macro, if there is such a file
    Positional, \* the parameters arguments are passed in, in order ("#1" to "#30")
    Numbered,   \* numbered parameters, the positional ones included
    Shared,     \* parameters that are not local to a call level
    StackDepth, \* NGC_STACK_DEPTH
    CallLevels  \* NGC_MAX_CALL_LEVEL

ASSUME SizesAssumption == StackDepth \in Nat \ {0} /\ CallLevels \in Nat \ {0}

VARIABLES
    program,     \* index of the program that runs
    file,        \* hal.stream.file: a handle, or Console
    handles,     \* open handle -> [name, pos]; pos is the next line to be read
    redirects,   \* rd_streams: <<[new, old], ...>>
    stack, skip_sub, subs, exec_sub,  \* ngc_flowctrl.c
    skip_blocks, \* gc_state.skip_blocks
    names,       \* names known to the string parameters
    calls,       \* call_levels: <<[context, modal_state], ...>>
    params,      \* rw_params, rw_global_params: <<context, id>> -> value
    modes,       \* gc_state.modal, one value of it
    modal_state, \* the state saved outside of calls, << >> or <<[modes, auto]>>
    input,       \* parameter 5399, the result of M66
    last_error,  \* gc_state.last_error
    alarm,       \* an alarm is raised
    reporting    \* the status is on its way through the handlers of the redirects

flow == <<stack, skip_sub, subs, exec_sub, skip_blocks>>
stream == <<file, redirects>>
data == <<names, calls, params, modes, modal_state, input>>
vars == <<program, handles, flow, stream, data, last_error, alarm, reporting>>

Console == 0
Input == "#5399"
Outside == 0   \* the context of shared parameters, and of locals outside of calls

OnFile == file # Console
Lines(h) == Programs[program].files[handles[h].name]
AtEnd == handles[file].pos > Len(Lines(file))
Line == Lines(file)[handles[file].pos]
Tell == handles[file].pos + 1              \* vfs_tell: the line has been read
Seek(hs, h, pos) == [hs EXCEPT ![h].pos = pos]
LineRead == Seek(handles, file, Tell)

Init ==
    /\ program \in DOMAIN Programs
    /\ file = IF Programs[program].console THEN Console ELSE 1
    /\ handles = [h \in {file} |-> [name |-> "main", pos |-> 1]]
    /\ redirects = << >> /\ stack = << >> /\ subs = << >> /\ exec_sub = << >>
    /\ skip_sub = FALSE /\ skip_blocks = FALSE
    /\ names = {} /\ calls = << >> /\ params = [key \in {} |-> 0]
    /\ modes = 0 /\ modal_state = << >> /\ input = 0
    /\ last_error = "ok" /\ alarm = FALSE /\ reporting = FALSE

----------------------------------------------------------------------------
(* Parameters. *)

Context == IF calls = << >> THEN Outside ELSE Last(calls).context

Key(context, id) == <<IF id \in Shared THEN Outside ELSE context, id>>

\* What can be read: numbered parameters are 0 until they are set, named ones unknown.
Env(ps, context) ==
    [id \in Numbered \cup {Input} \cup {key[2] : key \in {k \in DOMAIN ps : k = Key(context, k[2])}} |->
        IF id = Input THEN input
        ELSE IF Key(context, id) \in DOMAIN ps THEN ps[Key(context, id)] ELSE 0]

\* A numbered parameter that is 0 is not kept unless it was something else before.
ParamSet(ps, context, id, value) ==
    LET key == Key(context, id)
    IN IF id \in Numbered /\ value = 0 /\ key \notin DOMAIN ps THEN ps
       ELSE [k \in DOMAIN ps \cup {key} |-> IF k = key THEN value ELSE ps[k]]

Value(expr) == EvalExpression(expr, Env(params, Context))

\* The return value of a sub, if the line has one that can be evaluated.
Returned(ps, context, expr) ==
    LET v == IF expr = << >> THEN << >> ELSE EvalExpression(expr, Env(ps, context))
    IN IF v = << >> THEN ParamSet(ps, Outside, "_value_returned", 0)
       ELSE ParamSet(ParamSet(ps, Outside, "_value", v[1]), Outside, "_value_returned", 1)

----------------------------------------------------------------------------
(* The stack. *)

Top == Last(stack)
Depth == Len(stack)
Loops == {"do", "while", "repeat"}
Skipping == skip_sub \/ (stack # << >> /\ Top.skip)
LastOp == IF stack # << >> THEN Top.op ELSE IF skip_sub THEN "sub" ELSE "none"
OnTop(label) == stack # << >> /\ Top.label = label

Entry(line) ==
    [label |-> line.label, op |-> line.op, sub |-> exec_sub, file |-> file, file_pos |-> Tell,
     expr |-> << >>, repeats |-> 0, skip |-> FALSE, handled |-> FALSE, brk |-> FALSE]

\* The innermost entry with a label, if there is one.
Find(label) == {i \in 1..Depth : stack[i].label = label /\ \A j \in i + 1..Depth : stack[j].label # label}

(* Pulling a call ends its level: its parameters go, and the modes it saved
   for it (M73) come back. *)
CallsIn(n) == Cardinality({i \in 1..n : stack[i].op = "call"})
KeptCalls(n) == SubSeq(calls, 1, CallsIn(n))
KeptContext(n) == IF CallsIn(n) = 0 THEN Outside ELSE calls[CallsIn(n)].context

KeptParams(n) == [key \in {k \in DOMAIN params : k[1] <= n} |-> params[key]]
RestoredModes(n) ==
    LET saved == {i \in CallsIn(n) + 1..Len(calls) :
                    calls[i].modal_state # << >> /\ calls[i].modal_state[1].auto}
    IN IF saved = {} THEN modes ELSE calls[Min(saved)].modal_state[1].modes

\* What stack_pull does besides, down to n entries; values becomes of the parameters.
LevelsTo(n, values) ==
    /\ calls' = KeptCalls(n)
    /\ modes' = RestoredModes(n)
    /\ params' = values
PullTo(n, values) == stack' = SubSeq(stack, 1, n) /\ LevelsTo(n, values)

----------------------------------------------------------------------------
(* Redirection of the input. *)

FreeHandle == Min((1..Cardinality(DOMAIN handles) + 1) \ DOMAIN handles)

\* A third redirect is not linked: the walk along the list compares where it should step.
Linked(r) == IF Len(redirects) < 2 THEN Append(redirects, r) ELSE redirects

RedirectOf(h) == SelectSeq(redirects, LAMBDA r : r.new = h)

\* A file that is not on the list stays open, and stays the input.
RedirectClose(h, hs) ==
    IF RedirectOf(h) = << >> THEN handles' = hs /\ UNCHANGED stream
    ELSE /\ file' = RedirectOf(h)[1].old
         /\ redirects' = SelectSeq(redirects, LAMBDA r : r.new # h)
         /\ handles' = [x \in DOMAIN hs \ {h} |-> hs[x]]

ClearedSubs(h) == SelectSeq(subs, LAMBDA sub : sub.file # h)

\* The last call of a named sub that is under way, and no other call of it is.
LastNamed == Max({0} \cup {i \in DOMAIN subs : subs[i].label \in Names})
LastCall(label) == LastNamed # 0 /\ subs[LastNamed].label = label
                   /\ Cardinality({i \in DOMAIN subs : subs[i].label = label}) = 1

\* stack_unwind_sub, at the end of a sub or when an error ends it; the value it returns.
UnwindSub(label, hs, known, values(_, _)) ==
    \E n \in IF Find(label) = {} THEN {0} ELSE Find(label) :
    \E below \in {Max({0, n - 1})} :
       /\ PullTo(below, values(KeptParams(below), KeptContext(below)))
       /\ exec_sub' = IF below = 0 THEN << >> ELSE stack[below].sub
       /\ IF n # 0 /\ label \in Names
          THEN /\ RedirectClose(stack[n].file, hs)
               /\ subs' = ClearedSubs(stack[n].file)
               /\ names' = IF LastCall(label) /\ stack[n].sub # << >> THEN known \ {label} ELSE known
          ELSE /\ handles' = IF n = 0 THEN hs ELSE Seek(hs, stack[n].file, stack[n].file_pos)
               /\ names' = known
               /\ UNCHANGED <<stream, subs>>

----------------------------------------------------------------------------
(* How a line ends. *)

\* The name of an o-word becomes known when the word is read.
Known == names \cup ({Line.label} \cap Names)

\* ngc_flowctrl_init; exec_sub and skip_sub stay.
FlowInit == PullTo(0, KeptParams(0)) /\ subs' = << >>

Report(status) ==
    /\ last_error' = status
    /\ reporting' = (status # "ok" /\ redirects' # << >>)

\* An o-word that is refused ends all flow control; the redirects are left to Report.
FlowError ==
    /\ FlowInit /\ Report("error")
    /\ names' = Known
    /\ skip_blocks' = FALSE
    /\ UNCHANGED <<skip_sub, exec_sub, modal_state>>

\* An o-word that changes the stack, down to n entries and then by one, and where reading goes on.
Leaves(n, s, hs) ==
    /\ LevelsTo(n, KeptParams(n))
    /\ stack' = s /\ handles' = hs
    /\ skip_blocks' = (skip_sub \/ (s # << >> /\ Last(s).skip))
    /\ names' = Known
    /\ UNCHANGED <<stream, subs, skip_sub, exec_sub, modal_state>>
    /\ Report("ok")

\* What a line comes to.
Refused == [ok |-> FALSE]
Leaving(n, s, hs) == [ok |-> TRUE, depth |-> n, stack |-> s, handles |-> hs]
Ends(outcome) == \E o \in {outcome} :
    IF o.ok THEN Leaves(o.depth, o.stack, o.handles)
    ELSE UNCHANGED stream /\ handles' = LineRead /\ FlowError

With(n, entry) == Append(SubSeq(stack, 1, n - 1), entry)
Back(entry) == Seek(LineRead, entry.file, entry.file_pos)

Passed == Leaving(Depth, stack, LineRead)
Push(entry) == IF Depth < StackDepth THEN Leaving(Depth, Append(stack, entry), LineRead) ELSE Refused
Pull == Leaving(Depth - 1, Front(stack), LineRead)
SetTop(entry) == Leaving(Depth, With(Depth, entry), LineRead)
Again(n, entry) == Leaving(n, With(n, entry), Back(entry))

----------------------------------------------------------------------------
(* The statements.  Each is the whole of its case in ngc_flowctrl. *)

Ready == ~reporting /\ ~AtEnd /\ ~alarm /\ last_error = "ok"
At(op) == Ready /\ Line.op = op /\ UNCHANGED <<program, input>>
Statement(op, outcome) == At(op) /\ UNCHANGED alarm /\ Ends(outcome)

\* An evaluation that decides how the line ends.
Evaluates(v, Then(_)) == IF v = << >> THEN Refused ELSE Then(v[1])

If == Statement("if",
        IF Skipping THEN Passed
        ELSE Evaluates(Value(Line.expr), LAMBDA v :
               Push([Entry(Line) EXCEPT !.skip = v = 0, !.handled = v # 0])))

ElseIfUnhandled ==
    Statement("elseif",
      CASE LastOp \notin {"if", "elseif"} -> IF Skipping THEN Passed ELSE Refused
        [] LastOp \in {"if", "elseif"} /\ ~OnTop(Line.label) -> Passed
        [] LastOp \in {"if", "elseif"} /\ OnTop(Line.label) ->
             Evaluates(Value(Line.expr), LAMBDA v :
               SetTop(IF v = 0 THEN [Top EXCEPT !.skip = TRUE]
                      ELSE [Top EXCEPT !.skip = FALSE, !.op = "elseif", !.handled = TRUE])))

ElseIf == Statement("elseif",
            CASE LastOp \notin {"if", "elseif"} -> IF Skipping THEN Passed ELSE Refused
              [] LastOp \in {"if", "elseif"} /\ ~OnTop(Line.label) -> Passed
              [] LastOp \in {"if", "elseif"} /\ OnTop(Line.label) ->
                   IF Top.handled THEN SetTop([Top EXCEPT !.skip = TRUE])
                   ELSE Evaluates(Value(Line.expr), LAMBDA v :
                          SetTop(IF v = 0 THEN [Top EXCEPT !.skip = TRUE]
                                 ELSE [Top EXCEPT !.skip = FALSE, !.op = "elseif", !.handled = TRUE])))

Else == Statement("else",
          IF LastOp \notin {"if", "elseif"} THEN (IF Skipping THEN Passed ELSE Refused)
          ELSE IF ~OnTop(Line.label) THEN Passed
          ELSE SetTop(IF Top.handled THEN [Top EXCEPT !.skip = TRUE]
                      ELSE [Top EXCEPT !.skip = FALSE, !.op = "else"]))

EndIf == Statement("endif",
           IF LastOp \notin {"if", "elseif", "else"} THEN (IF Skipping THEN Passed ELSE Refused)
           ELSE IF OnTop(Line.label) THEN Pull ELSE Passed)

Do == Statement("do", IF ~OnFile THEN Refused ELSE IF Skipping THEN Passed ELSE Push(Entry(Line)))

\* The start of a while loop, or the end of a do loop with the same label.
While ==
    Statement("while",
      LET ends == LastOp = "do" /\ OnTop(Line.label)
          left == stack # << >> /\ Top.brk
      IN IF ~OnFile THEN Refused
         ELSE IF left THEN (IF ends THEN Pull ELSE Passed)
         ELSE IF Skipping THEN Passed
         ELSE Evaluates(Value(Line.expr), LAMBDA v :
                IF ends THEN (IF v # 0 THEN Again(Depth, Top) ELSE Pull)
                ELSE Push([Entry(Line) EXCEPT !.skip = v = 0, !.expr = IF v = 0 THEN << >> ELSE Line.expr])))

EndWhile ==
    Statement("endwhile",
      IF ~OnFile \/ (LastOp # "while" /\ ~Skipping) THEN Refused
      ELSE IF LastOp # "while" \/ ~OnTop(Line.label) THEN Passed
      ELSE IF Skipping THEN (IF Top.skip THEN Pull ELSE Passed)
      ELSE Evaluates(Value(Top.expr), LAMBDA v : IF v # 0 THEN Again(Depth, Top) ELSE Pull))

Repeat == Statement("repeat",
            IF ~OnFile THEN Refused
            ELSE IF Skipping THEN Passed
            ELSE Evaluates(Value(Line.expr), LAMBDA v :
                   Push([Entry(Line) EXCEPT !.skip = v <= 0, !.repeats = Max({0, v})])))

EndRepeat ==
    Statement("endrepeat",
      IF ~OnFile \/ (LastOp # "repeat" /\ ~Skipping) THEN Refused
      ELSE IF LastOp # "repeat" \/ ~OnTop(Line.label) THEN Passed
      ELSE IF ~Skipping /\ Top.repeats > 1 THEN Again(Depth, [Top EXCEPT !.repeats = @ - 1]) ELSE Pull)

\* The loop that a line leaves or continues, an entry of the stack; those above it are pulled.
InLoop(Then(_)) == IF OnFile /\ Skipping THEN Passed
                   ELSE LET loops == {n \in Find(Line.label) : OnFile /\ stack[n].op \in Loops}
                        IN IF loops = {} THEN Refused ELSE Then(CHOOSE n \in loops : TRUE)

Break == Statement("break", InLoop(LAMBDA n :
    Leaving(n, With(n, [stack[n] EXCEPT !.repeats = 0, !.brk = TRUE, !.skip = TRUE, !.handled = TRUE]), LineRead)))

(* At the end of a while loop its entry is pulled, and the rest of the loop
   is read as if it stood outside. *)
Continued(n, e) ==
    CASE e.op = "repeat" /\ e.repeats > 1 -> Again(n, [e EXCEPT !.repeats = @ - 1])
      [] e.op = "repeat" /\ e.repeats <= 1 -> Leaving(n, With(n, [e EXCEPT !.repeats = 0, !.skip = TRUE]), LineRead)
      [] e.op = "do" -> Again(n, e)
      [] e.op = "while" ->
           Evaluates(EvalExpression(e.expr, Env(KeptParams(n), KeptContext(n))), LAMBDA v :
             IF v # 0 THEN Again(n, e) ELSE Leaving(n - 1, SubSeq(stack, 1, n - 1), LineRead))
Continue == Statement("continue", InLoop(LAMBDA n : Continued(n, stack[n])))

RaiseAlarm == /\ At("alarm") /\ Ends(Passed)
              /\ alarm' = (~Skipping /\ Value(Line.expr) # << >>)

RaiseError == Statement("error", IF Skipping \/ Value(Line.expr) \in {<< >>, <<0>>} THEN Passed ELSE Refused)

----------------------------------------------------------------------------
(* Subs. *)

SubIn(label) == SelectSeq(subs, LAMBDA sub : sub.label = label /\ sub.file = file)

\* A numbered sub is skipped where it is defined; a named one must have been called.
Sub == /\ At("sub") /\ UNCHANGED alarm
       /\ IF OnFile /\ Line.label \notin Names
          THEN /\ subs' = Append(subs, [label |-> Line.label, file |-> file, pos |-> Tell])
               /\ skip_sub' = TRUE /\ skip_blocks' = TRUE
               /\ handles' = LineRead /\ names' = Known
               /\ UNCHANGED <<stream, stack, exec_sub, calls, params, modes, modal_state>>
               /\ Report("ok")
          ELSE Ends(IF OnFile /\ (SubIn(Line.label) # << >> \/ (subs # << >> /\ Last(subs).label = Line.label))
                    THEN Passed ELSE Refused)

\* Unwinds first: the value is that of the expression outside of the sub.
Leave == /\ UnwindSub(Line.label, LineRead, Known,
                      LAMBDA ps, context : Returned(ps, context, Line.expr))
         /\ skip_blocks' = (stack' # << >> /\ Last(stack').skip)
         /\ UNCHANGED modal_state
         /\ Report("ok")

EndSub == /\ At("endsub") /\ UNCHANGED alarm
          /\ \/ ~OnFile /\ Ends(Refused)
             \/ OnFile /\ skip_sub /\ skip_sub' = FALSE
                /\ skip_blocks' = (stack # << >> /\ Top.skip)
                /\ handles' = LineRead /\ names' = Known
                /\ UNCHANGED <<stream, stack, subs, exec_sub, calls, params, modes, modal_state>>
                /\ Report("ok")
             \/ OnFile /\ ~skip_sub /\ Leave /\ UNCHANGED skip_sub

\* No plugin takes the return from a G65 macro.
Return == /\ At("return") /\ UNCHANGED alarm
          /\ \/ ~OnFile /\ Ends(Refused)
             \/ OnFile /\ Skipping /\ Ends(Passed)
             \/ OnFile /\ ~Skipping /\ exec_sub # << >> /\ Leave /\ UNCHANGED skip_sub
             \/ OnFile /\ ~Skipping /\ exec_sub = << >>
                /\ params' = Returned(params, Context, Line.expr)
                /\ handles' = LineRead /\ names' = Known
                /\ skip_blocks' = FALSE
                /\ UNCHANGED <<stream, stack, subs, exec_sub, skip_sub, calls, modes, modal_state>>
                /\ Report("ok")

Arguments == [i \in DOMAIN Line.args |-> Value(Line.args[i])]

(* What is passed: the arguments, then the caller's own parameters.  When
   only the last one is missing it is read from an uninitialized local. *)
Passing(given, rest) ==
    [i \in DOMAIN Positional |->
        IF i <= Len(given) THEN given[i][1]
        ELSE IF Len(given) = Len(Positional) - 1 THEN rest
        ELSE Env(params, Context)[Positional[i]]]

\* Only parameters that are not 0 are set.
Handed(values) ==
    LET given == {<<Depth + 1, Positional[i]>> : i \in {j \in DOMAIN Positional : values[j] # 0}}
        at(key) == CHOOSE i \in DOMAIN Positional : Positional[i] = key[2]
        ps == [key \in given \cup DOMAIN params |-> IF key \in given THEN values[at(key)] ELSE params[key]]
    IN ParamSet(ParamSet(ps, Outside, "_value", 0), Outside, "_value_returned", 0)

\* No entry, or no level, is left for a call.
Full == Depth = StackDepth \/ Len(calls) = CallLevels

\* The call with the sub found, from where the stream is after that.
Enter(sub, hs) ==
    \E given \in {Arguments} :
    IF \E i \in DOMAIN given : given[i] = << >> THEN handles' = hs /\ subs' = << >> /\ FlowError
    ELSE IF Full THEN handles' = hs /\ FlowError
    ELSE \E rest \in {0, 1} : \E values \in {Passing(given, rest)} :
           /\ stack' = Append(stack, [Entry(Line) EXCEPT !.sub = <<sub>>, !.file = file', !.repeats = 1,
                                                         !.file_pos = hs[file'].pos])
           /\ exec_sub' = <<sub>>
           /\ calls' = Append(calls, [context |-> Depth + 1, modal_state |-> << >>])
           /\ params' = Handed(values)
           /\ handles' = Seek(hs, sub.file, sub.pos)
           /\ subs' = IF sub.label \in Names THEN Append(subs, sub) ELSE subs
           /\ names' = Known /\ skip_blocks' = FALSE
           /\ UNCHANGED <<skip_sub, modes, modal_state>>
           /\ Report("ok")

\* Where a sub is found: a numbered one in the file, a named one in a file of its own.
Found(label) == IF label \notin Names THEN SubIn(label)
                ELSE IF label \notin DOMAIN Programs[program].files THEN << >>
                ELSE <<[label |-> label, file |-> FreeHandle, pos |-> 1]>>

Call == /\ At("call") /\ UNCHANGED alarm
        /\ \E found \in {Found(Line.label)} :
             IF ~OnFile /\ Line.label \notin Names THEN Ends(Refused)
             ELSE IF Skipping THEN Ends(Passed)
             ELSE IF found = << >> THEN Ends(Refused)
             ELSE IF Line.label \in Names
             THEN /\ file' = found[1].file
                  /\ redirects' = Linked([new |-> file', old |-> file])
                  /\ Enter(found[1], LineRead @@ (file' :> [name |-> Line.label, pos |-> 1]))
             ELSE UNCHANGED stream /\ Enter(found[1], LineRead)

----------------------------------------------------------------------------
(* Blocks, and the status of a line. *)

\* Named parameters are set at once, numbered ones after the block, the last one first.
RECURSIVE Assign(_, _, _)
Assign(ps, later, list) ==
    IF list = << >>
    THEN [ok |-> TRUE, params |-> FoldRight(LAMBDA a, q : ParamSet(q, Context, a.id, a.value), later, ps)]
    ELSE LET a == Head(list)
             v == EvalExpression(a.expr, Env(ps, Context))
         IN IF v = << >> THEN [ok |-> FALSE, params |-> ps]
            ELSE IF a.id \in Numbered
            THEN Assign(ps, Append(later, [id |-> a.id, value |-> v[1]]), Tail(list))
            ELSE Assign(ParamSet(ps, Context, a.id, v[1]), later, Tail(list))

Saved == IF calls = << >> THEN modal_state ELSE Last(calls).modal_state

\* ngc_modal_state_save and ngc_modal_state_invalidate.
SetSaved(state) ==
    IF calls = << >> THEN modal_state' = state /\ UNCHANGED calls
    ELSE calls' = Append(Front(calls), [Last(calls) EXCEPT !.modal_state = state]) /\ UNCHANGED modal_state

Executes ==
    \/ Line.act = "assign" /\ Assign(params, << >>, Line.list).ok
       /\ params' = Assign(params, << >>, Line.list).params
       /\ UNCHANGED <<calls, modes, modal_state, input>> /\ Report("ok")
    \/ Line.act = "assign" /\ ~Assign(params, << >>, Line.list).ok
       /\ params' = Assign(params, << >>, Line.list).params
       /\ UNCHANGED <<calls, modes, modal_state, input>> /\ Report("error")
    \/ Line.act = "mode" /\ modes' = Line.mode
       /\ UNCHANGED <<calls, params, modal_state, input>> /\ Report("ok")
    \/ Line.act \in {"save", "auto"} /\ SetSaved(<<[modes |-> modes, auto |-> Line.act = "auto"]>>)
       /\ UNCHANGED <<params, modes, input>> /\ Report("ok")
    \/ Line.act = "invalidate" /\ SetSaved(<< >>)
       /\ UNCHANGED <<params, modes, input>> /\ Report("ok")
    \/ Line.act = "restore" /\ modes' = (IF Saved = << >> THEN modes ELSE Saved[1].modes)
       /\ UNCHANGED <<calls, params, modal_state, input>> /\ Report("ok")
    \/ Line.act = "input" /\ input' \in {0, 1}
       /\ UNCHANGED <<calls, params, modes, modal_state>> /\ Report("ok")
    \/ Line.act = "bad" /\ UNCHANGED <<calls, params, modes, modal_state, input>> /\ Report("error")

Block == /\ Ready /\ Line.op = "block"
         /\ UNCHANGED <<program, stream, flow, names, alarm>> /\ handles' = LineRead
         /\ \/ skip_blocks /\ UNCHANGED data /\ Report("ok")
            \/ ~skip_blocks /\ Executes

\* After an error, and in an alarm, the lines are refused unread.
Ignored == /\ ~reporting /\ ~AtEnd /\ (alarm \/ last_error # "ok")
           /\ handles' = LineRead
           /\ UNCHANGED <<program, stream, flow, data, alarm>>
           /\ Report(IF alarm THEN "locked" ELSE last_error)

SubsNamedHere == SelectSeq(subs, LAMBDA sub : sub.file = file /\ sub.label \in Names)

StopSubOnce == /\ reporting
               /\ UNCHANGED <<program, skip_blocks, skip_sub, modal_state, input, last_error, alarm>>
               /\ IF redirects = << >> \/ SubsNamedHere = << >>
                  THEN FlowInit /\ UNCHANGED <<handles, stream, exec_sub, names>>
                  ELSE UnwindSub(SubsNamedHere[1].label, handles, names, LAMBDA ps, context : ps)
               /\ reporting' = FALSE

(* trap_status_messages and onNamedSubError, which calls itself for the
   redirect below until the status is reported. *)
StopSub == /\ reporting
           /\ UNCHANGED <<program, skip_blocks, skip_sub, modal_state, input, last_error, alarm>>
           /\ IF redirects # << >> /\ stack = << >>
              THEN /\ reporting' = FALSE
                   /\ UNCHANGED <<handles, stream, stack, subs, exec_sub, names, calls, params, modes>>
              ELSE IF redirects = << >> \/ SubsNamedHere = << >>
              THEN /\ FlowInit /\ reporting' = FALSE
                   /\ UNCHANGED <<handles, stream, exec_sub, names>>
              ELSE /\ UnwindSub(SubsNamedHere[1].label, handles, names, LAMBDA ps, context : ps)
                   /\ UNCHANGED reporting

\* onNamedSubEOF.  Below lie the entries of the files that called.
EndOfFile == /\ ~reporting /\ AtEnd /\ redirects # << >> /\ stack # << >> /\ Top.file = file
             /\ LET n == Max({0} \cup {i \in 1..Depth : stack[i].file # file})
                IN PullTo(n, KeptParams(n))
             /\ RedirectClose(file, handles)
             /\ subs' = ClearedSubs(file)
             /\ UNCHANGED <<program, skip_sub, exec_sub, skip_blocks, names, modal_state, input,
                            last_error, alarm, reporting>>

Others == \/ If \/ ElseIf \/ Else \/ EndIf
        \/ Do \/ While \/ EndWhile \/ Repeat \/ EndRepeat \/ Break \/ Continue
        \/ RaiseAlarm \/ RaiseError
        \/ Sub \/ EndSub \/ Return \/ Call
        \/ Ignored \/ StopSub \/ EndOfFile

Next == Block \/ Others

Spec == Init /\ [][Next]_vars

----------------------------------------------------------------------------
(* Properties. *)

TypeOK ==
    /\ file \in DOMAIN handles
    /\ \A h \in DOMAIN handles : handles[h].pos \in 1..Len(Lines(h)) + 1
    /\ Depth <= StackDepth /\ Len(calls) <= CallLevels
    /\ \A i \in 1..Depth : stack[i].repeats \in Nat /\ stack[i].file \in DOMAIN handles \cup {Console}
    /\ skip_sub \in BOOLEAN /\ skip_blocks \in BOOLEAN /\ reporting \in BOOLEAN /\ alarm \in BOOLEAN
    /\ names \subseteq Names
    /\ last_error \in {"ok", "error", "locked"}

\* The calls of named subs under way.
NamedCalls == SelectSeq(stack, LAMBDA e : e.op = "call" /\ e.label \in Names)

(* The input comes from the file of the innermost named sub that is under
   way, each has its redirect, and no other file is open: when a sub ends,
   by its last line, a return, its end of file or an error, reading goes on
   where it was called (stream_redirect_close, stack_unwind_sub). *)
InputFollowsCalls ==
    ~reporting =>
        /\ Len(redirects) = Len(NamedCalls)
        /\ Cardinality(DOMAIN handles) = 1 + Len(NamedCalls)
        /\ IF NamedCalls = << >> THEN file = IF Programs[program].console THEN Console ELSE 1
           ELSE file = Last(NamedCalls).file

(* What stream_file.c:88 promises: "If an error is detected reading from
   file(s) will be stopped".  Once an error has been reported no sub is
   under way and nothing is read from its file. *)
ErrorStops == last_error # "ok" /\ ~reporting => redirects = << >> /\ stack = << >>

(* Every call under way has its level, and parameters are kept for those
   levels only: none is found again by a later call (ngc_call_pop). *)
LocalsOwned ==
    /\ Len(calls) = CallsIn(Depth)
    /\ \A key \in DOMAIN params : key[1] = Outside \/ \E i \in 1..Depth : key[1] = i /\ stack[i].op = "call"

(* A named sub that is under way keeps its name and its place in the list
   of subs, by which an error finds it (onNamedSubError). *)
NamesKept == \A i \in DOMAIN NamedCalls :
                /\ NamedCalls[i].label \in names
                /\ \E j \in DOMAIN subs : subs[j].label = NamedCalls[i].label /\ subs[j].file = NamedCalls[i].file

\* A call has what belongs to it from its first line to its last, and no longer, and the
\* input is where the calls are, also after an error.
CallsKept == InputFollowsCalls /\ ErrorStops /\ LocalsOwned /\ NamesKept
=============================================================================
