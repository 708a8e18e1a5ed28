------------------------------ MODULE NgcExpr ------------------------------
(***************************************************************************)
(* Expressions of o-word lines and parameter assignments (ngc_expr.c).     *)
(* An expression is the text between its brackets, <<operand, operator,    *)
(* operand, ...>>; an operand is a number, a parameter, a sign or function *)
(* applied to an operand, or a bracketed expression.  A result is <<v>>,   *)
(* or << >> when the expression is rejected.  Values are whole numbers:    *)
(* the vocabularies keep to operations that are exact on them.             *)
(***************************************************************************)
EXTENDS Integers, Sequences

Relations == {"LT", "EQ", "NE", "LE", "GE", "GT"}

\* The binding strength of an operator; the closing bracket ends everything.
Precedence(op) == CASE op = "]" -> 1
                    [] op \in {"AND", "XOR", "OR"} -> 2
                    [] op \in Relations -> 3
                    [] op \in {"+", "-"} -> 4
                    [] op \in {"/", "MOD", "*"} -> 5
                    [] op = "**" -> 6

Truth(b) == IF b THEN 1 ELSE 0

\* fmodf made positive.
Modulo(l, r) == l % (IF r < 0 THEN -r ELSE r)

ExecuteBinary(l, op, r) ==
    CASE op = "/" -> IF r = 0 THEN << >> ELSE <<l \div r>>
      [] op = "MOD" -> <<Modulo(l, r)>>
      [] op = "**" -> <<l ^ r>>
      [] op = "*" -> <<l * r>>
      [] op = "+" -> <<l + r>>
      [] op = "-" -> <<l - r>>
      [] op = "AND" -> <<Truth(l # 0 /\ r # 0)>>
      [] op = "OR" -> <<Truth(l # 0 \/ r # 0)>>
      [] op = "XOR" -> <<Truth((l # 0) # (r # 0))>>
      [] op = "LT" -> <<Truth(l < r)>>
      [] op = "LE" -> <<Truth(l <= r)>>
      [] op = "EQ" -> <<Truth(l = r)>>
      [] op = "NE" -> <<Truth(l # r)>>
      [] op = "GE" -> <<Truth(l >= r)>>
      [] op = "GT" -> <<Truth(l > r)>>

ExecuteUnary(v, f) == CASE f = "neg" -> <<-v>>
                        [] f = "ABS" -> <<IF v < 0 THEN -v ELSE v>>
                        [] f = "SQRT" -> IF v < 0 THEN << >> ELSE <<CHOOSE r \in 0..v : r * r = v>>

\* A value is used only if there is one.
Given(v, use(_)) == IF v = << >> THEN << >> ELSE use(v[1])

RECURSIVE EvalExpression(_, _), ReadRealValue(_, _), ReadOn(_, _, _, _), Reduce(_, _, _, _)

\* The value of an operand; env holds the parameters that can be read.
ReadRealValue(operand, env) ==
    CASE operand.kind = "number" -> <<operand.value>>
      [] operand.kind = "param" -> IF operand.id \in DOMAIN env THEN <<env[operand.id]>> ELSE << >>
      [] operand.kind = "exists" -> <<Truth(operand.id \in DOMAIN env)>>
      [] operand.kind = "unary" -> Given(ReadRealValue(operand.arg, env), LAMBDA v : ExecuteUnary(v, operand.op))
      [] operand.kind = "bracket" -> EvalExpression(operand.expr, env)

OperatorAfter(rest) == IF Len(rest) = 1 THEN "]" ELSE rest[2]
After(rest) == SubSeq(rest, 3, Len(rest))

\* Operands and the operators that follow them wait on two stacks.
ReadOn(values, operators, rest, env) ==
    IF operators[1] = "]" THEN values
    ELSE Given(ReadRealValue(rest[1], env), LAMBDA v :
           Reduce(Append(values, v), Append(operators, OperatorAfter(rest)), After(rest), env))

\* An operator is executed once the one after it does not bind stronger.
Reduce(values, operators, rest, env) ==
    LET n == Len(operators)
    IN IF n = 1 \/ Precedence(operators[n]) > Precedence(operators[n - 1])
       THEN ReadOn(values, operators, rest, env)
       ELSE Given(ExecuteBinary(values[n - 1], operators[n - 1], values[n]), LAMBDA v :
              Reduce(Append(SubSeq(values, 1, n - 2), v),
                     Append(SubSeq(operators, 1, n - 2), operators[n]), rest, env))

EvalExpression(expr, env) ==
    Given(ReadRealValue(expr[1], env), LAMBDA v :
      ReadOn(<<v>>, <<OperatorAfter(expr)>>, After(expr), env))
=============================================================================
