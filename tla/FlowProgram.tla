---------------------------- MODULE FlowProgram ----------------------------
(***************************************************************************)
(* What programs mean.  A program is written as a tree of statements; its  *)
(* files hold the lines of the tree, and the interpreter here runs the     *)
(* tree itself: it never looks at labels but those of break, continue and  *)
(* call, keeps no stack of o-words, and evaluates an expression by its     *)
(* weakest operator.  It runs beside Flow, from block to block.            *)
(***************************************************************************)
EXTENDS Flow
LOCAL INSTANCE SequencesExt
LOCAL INSTANCE FiniteSetsExt

CONSTANTS Sources   \* sequence of [console |-> BOOLEAN, files |-> [name -> Seq(statement)]]

----------------------------------------------------------------------------
(* From trees to lines. *)

Op(op, label) == [op |-> op, label |-> label]
OpE(op, label, expr) == [op |-> op, label |-> label, expr |-> expr]

RECURSIVE Flat(_), FlatArms(_, _, _)
FlatArms(op, label, arms) ==
    IF arms = << >> THEN << >>
    ELSE <<OpE(op, label, arms[1].expr)>> \o Flat(arms[1].body) \o FlatArms("elseif", label, Tail(arms))
Flat(body) ==
    IF body = << >> THEN << >>
    ELSE LET s == Head(body)
             lines == CASE s.op = "choose" ->
                             FlatArms("if", s.label, s.arms)
                             \o (IF s.other = << >> THEN << >> ELSE <<Op("else", s.label)>> \o Flat(s.other))
                             \o <<Op("endif", s.label)>>
                        [] s.op = "loop" ->
                             (IF s.kind = "do" THEN <<Op("do", s.label)>> ELSE <<OpE(s.kind, s.label, s.expr)>>)
                             \o Flat(s.body)
                             \o <<IF s.kind = "do" THEN OpE("while", s.label, s.expr)
                                  ELSE Op("end" \o s.kind, s.label)>>
                        [] s.op = "define" ->
                             <<Op("sub", s.label)>> \o Flat(s.body) \o <<OpE("endsub", s.label, s.expr)>>
                        [] OTHER -> <<s>>
         IN lines \o Flat(Tail(body))

FlatPrograms == [i \in DOMAIN Sources |->
    [console |-> Sources[i].console,
     files |-> [name \in DOMAIN Sources[i].files |-> Flat(Sources[i].files[name])]]]

----------------------------------------------------------------------------
(* The value of an expression: its weakest operator, the last of several,
   is applied to what stands left and right of it. *)

RECURSIVE Meaning(_, _), Operand(_, _)
Operand(o, env) ==
    CASE o.kind = "number" -> <<o.value>>
      [] o.kind = "param" -> IF o.id \in DOMAIN env THEN <<env[o.id]>> ELSE << >>
      [] o.kind = "exists" -> <<Truth(o.id \in DOMAIN env)>>
      [] o.kind = "bracket" -> Meaning(o.expr, env)
      [] o.kind = "unary" -> LET v == Operand(o.arg, env)
                             IN IF v = << >> THEN v ELSE ExecuteUnary(v[1], o.op)
Meaning(e, env) ==
    IF Len(e) = 1 THEN Operand(e[1], env)
    ELSE LET ops == {i \in DOMAIN e : i % 2 = 0}
             weakest == Min({Precedence(e[i]) : i \in ops})
             m == Max({i \in ops : Precedence(e[i]) = weakest})
             l == Meaning(SubSeq(e, 1, m - 1), env)
             r == Meaning(SubSeq(e, m + 1, Len(e)), env)
         IN IF l = << >> \/ r = << >> THEN << >> ELSE ExecuteBinary(l[1], e[m], r[1])

----------------------------------------------------------------------------
(* The interpreter: what is left to do, the frames of the calls it is in,
   shared parameters and modes. *)

VARIABLE plan   \* [todo, frames, shared, modes, input]

Frame(name) == [file |-> name, locals |-> [id \in {} |-> 0], saved |-> << >>]
Inner(r) == Last(r.frames)
Reads(r) == [id \in Numbered \cup {Input} \cup DOMAIN r.shared \cup DOMAIN Inner(r).locals |->
               IF id = Input THEN r.input ELSE IF id \in DOMAIN r.shared THEN r.shared[id]
               ELSE IF id \in DOMAIN Inner(r).locals THEN Inner(r).locals[id] ELSE 0]
SetIn(f, id, v) == [x \in DOMAIN f \cup {id} |-> IF x = id THEN v ELSE f[x]]
SetInner(r, frame) == [r EXCEPT !.frames = Append(Front(@), frame)]
SetParam(r, id, v) == IF id \in Shared THEN [r EXCEPT !.shared = SetIn(@, id, v)]
                      ELSE SetInner(r, [Inner(r) EXCEPT !.locals = SetIn(@, id, v)])

Stopped(r) == [r EXCEPT !.todo = << >>]
Do_(r, items) == [r EXCEPT !.todo = items \o Tail(@)]

\* What is left after the innermost loop with the label, the loop included or not.
Drop(todo, label, n) ==
    LET at == SelectInSeq(todo, LAMBDA s : s.op = "again" /\ s.label = label)
    IN IF at = 0 THEN << >> ELSE SubSeq(todo, at + n, Len(todo))

Definitions(r, label) ==
    SelectSeq(Sources[program].files[Inner(r).file], LAMBDA s : s.op = "define" /\ s.label = label)

\* A call: the caller's positional parameters are handed on where no argument is given.
Called(r, s) ==
    LET env == Reads(r)
        vs == [i \in DOMAIN s.args |-> Meaning(s.args[i], env)]
        named == s.label \in Names
        name == IF named THEN s.label ELSE Inner(r).file
        exists == IF named THEN name \in DOMAIN Sources[program].files ELSE Definitions(r, s.label) # << >>
        body == IF named THEN Sources[program].files[name] \o <<Op("eof", s.label)>>
                ELSE LET d == Definitions(r, s.label)[1] IN d.body \o <<OpE("ret", s.label, d.expr)>>
        given == [id \in ToSet(Positional) |->
                    LET i == CHOOSE j \in DOMAIN Positional : Positional[j] = id
                    IN IF i <= Len(vs) THEN vs[i][1] ELSE env[id]]
    IN IF ~exists \/ Len(r.frames) > CallLevels \/ \E i \in DOMAIN vs : vs[i] = << >> THEN Stopped(r)
       ELSE [Do_(r, body) EXCEPT !.frames = Append(@, [Frame(name) EXCEPT !.locals = given]),
                                 !.shared = SetIn(SetIn(@, "_value", 0), "_value_returned", 0)]

\* Back at the caller, with the modes the sub was called with if it asked for that.
Ended(r) == [r EXCEPT !.frames = Front(@), !.todo = Tail(@),
                      !.modes = IF Inner(r).saved # << >> /\ Inner(r).saved[1].auto
                                THEN Inner(r).saved[1].modes ELSE @]

\* The return value is that of the expression outside of the sub, as in Leave.
Valued(r, expr) ==
    LET v == IF expr = << >> THEN << >> ELSE Meaning(expr, Reads(r))
    IN IF v = << >> THEN [r EXCEPT !.shared = SetIn(@, "_value_returned", 0)]
       ELSE [r EXCEPT !.shared = SetIn(SetIn(@, "_value", v[1]), "_value_returned", 1)]

ToReturn(todo) == SubSeq(todo, SelectInSeq(todo, LAMBDA s : s.op \in {"ret", "eof"}), Len(todo))

\* Typed lines have no positions to go back to, and no subs of their own.
NotTyped(r, s) == Sources[program].console /\ Len(r.frames) = 1
                  /\ ~(s.op \in {"block", "choose", "alarm", "error"} \/ (s.op = "call" /\ s.label \in Names))

RECURSIVE Settle(_)
\* Runs up to the next block.
Settle(r) ==
    IF r.todo = << >> THEN r
    ELSE LET s == Head(r.todo)
             v == Meaning(s.expr, Reads(r))
         IN CASE NotTyped(r, s) -> Stopped(r)
              [] s.op = "block" -> r
              [] s.op = "choose" ->
                   IF s.arms = << >> THEN Settle(Do_(r, s.other))
                   ELSE LET c == Meaning(s.arms[1].expr, Reads(r))
                        IN IF c = << >> THEN Stopped(r)
                           ELSE IF c[1] # 0 THEN Settle(Do_(r, s.arms[1].body))
                           ELSE Settle(Do_(r, <<[s EXCEPT !.arms = Tail(@)]>>))
              [] s.op = "loop" ->
                   LET again == [s EXCEPT !.op = "again"]
                   IN IF s.kind = "do" THEN Settle(Do_(r, s.body \o <<again>>))
                      ELSE IF v = << >> THEN Stopped(r)
                      ELSE IF s.kind = "while"
                      THEN Settle(Do_(r, IF v[1] # 0 THEN s.body \o <<again>> ELSE << >>))
                      ELSE Settle(Do_(r, IF v[1] > 0
                                         THEN s.body \o <<[again EXCEPT !.expr = v[1] - 1]>> ELSE << >>))
              [] s.op = "again" ->
                   IF s.kind = "repeat"
                   THEN Settle(Do_(r, IF s.expr > 0 THEN s.body \o <<[s EXCEPT !.expr = @ - 1]>> ELSE << >>))
                   ELSE IF v = << >> THEN Stopped(r)
                   ELSE Settle(Do_(r, IF v[1] # 0 THEN s.body \o <<s>> ELSE << >>))
              [] s.op = "break" -> Settle([r EXCEPT !.todo = Drop(@, s.label, 1)])
              [] s.op = "continue" ->
                   LET rest == Drop(r.todo, s.label, 0)
                   IN Settle([r EXCEPT !.todo = IF rest # << >> /\ rest[1].kind = "do" THEN rest[1].body \o rest ELSE rest])
              [] s.op = "define" ->
                   IF s.label \in Names THEN Settle(Do_(r, s.body \o <<OpE("return", s.label, s.expr)>>))
                   ELSE Settle(Do_(r, << >>))
              [] s.op = "call" -> Settle(Called(r, s))
              [] s.op = "return" ->
                   Settle(Valued(IF Len(r.frames) = 1 THEN Do_(r, << >>)
                                 ELSE Ended([r EXCEPT !.todo = ToReturn(@)]), s.expr))
              [] s.op = "ret" -> Settle(Valued(Ended(r), s.expr))
              [] s.op = "eof" -> Settle(Ended(r))
              [] s.op = "error" /\ v \in {<< >>, <<0>>} -> Settle(Do_(r, << >>))
              [] OTHER -> Stopped(r)

\* The block the plan is at, executed.  Assignments are made in parallel.
Performed(r, b, in) ==
    LET vs == [i \in DOMAIN b.list |-> Meaning(b.list[i].expr, Reads(r))]
        done == Do_(r, << >>)
    IN CASE b.act = "assign" ->
              IF \E i \in DOMAIN vs : vs[i] = << >> THEN Stopped(r)
              ELSE FoldLeftDomain(LAMBDA q, i : SetParam(q, b.list[i].id, vs[i][1]), done, b.list)
         [] b.act = "mode" -> [done EXCEPT !.modes = b.mode]
         [] b.act \in {"save", "auto"} ->
              SetInner(done, [Inner(r) EXCEPT !.saved = <<[modes |-> r.modes, auto |-> b.act = "auto"]>>])
         [] b.act = "invalidate" -> SetInner(done, [Inner(r) EXCEPT !.saved = << >>])
         [] b.act = "restore" -> [done EXCEPT !.modes = IF Inner(r).saved = << >> THEN @ ELSE Inner(r).saved[1].modes]
         [] b.act = "input" -> [done EXCEPT !.input = in]
         [] b.act = "bad" -> Stopped(r)

AtBlock == Ready /\ Line.op = "block" /\ ~skip_blocks

PlannedInit == Init /\ plan = Settle([todo |-> Sources[program].files["main"], frames |-> <<Frame("main")>>,
                           shared |-> [id \in {} |-> 0], modes |-> 0, input |-> 0])
Follow == \E r \in {IF AtBlock /\ plan.todo # << >> THEN Performed(plan, plan.todo[1], input') ELSE plan} :
             plan' = Settle(r)

FlowNext == \/ Block /\ Follow
            \/ Others /\ UNCHANGED plan

FlowSpec == PlannedInit /\ [][FlowNext]_<<vars, plan>>

----------------------------------------------------------------------------

(* The blocks that are executed are those the program calls for, in that
   order, with the parameters and modes they should find, and none is left
   out at the end: labels, nesting, skipped parts, positions in files, call
   levels and the stack of operators all have to agree for that. *)
InStep ==
    /\ AtBlock => /\ plan.todo # << >> /\ plan.todo[1].n = Line.n
                  /\ Env(params, Context) = Reads(plan)
                  /\ modes = plan.modes
    /\ AtEnd /\ redirects = << >> /\ ~reporting => plan.todo = << >>
=============================================================================
