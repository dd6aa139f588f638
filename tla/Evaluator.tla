----------------------------- MODULE Evaluator -----------------------------
(***************************************************************************)
(* The predicates of a query (zcl/evaluator/expr-parser.c, expr-eval.c)    *)
(* over the tokens of zcl/utils/lexer.c.  A token is [kind, text, val].    *)
(*                                                                         *)
(* Behind the last token the lexer gives the kind "unknown" and keeps the  *)
(* text of the last one.  The callers of the parser's functions drop their *)
(* errors; a part that was not parsed is Junk.  A parse is the tree, the   *)
(* place reached, and whether a loop goes round for ever there.            *)
(***************************************************************************)
EXTENDS Integers, Sequences, FiniteSetsExt, Bitwise

Token(kind, text, val) == [kind |-> kind, text |-> text, val |-> val]
Op(text) == Token("operator", text, 0)
Word(text) == Token("identifier", text, 0)
Num(n) == Token("int", "0", n)

Text(q, at) == q[Min({at, Len(q)})].text
Kind(q, at) == IF at > Len(q) THEN "unknown" ELSE q[at].kind

\* z_lexer_next
LexNext(q, at) == Min({at + 1, Len(q) + 1})

Junk == [type |-> "junk"]
Unary(op, operand) == [type |-> "unary", op |-> op, operand |-> operand]
Binary(op, left, right) == [type |-> "binary", op |-> op, left |-> left, right |-> right]
Parse(e, at, hangs) == [e |-> e, at |-> at, hangs |-> hangs]

\* __get_binary_precedence
Precedence(text) ==
  CASE text = "OR" -> 0
    [] text = "AND" -> 1
    [] text \in {"LIKE", "ILIKE"} -> 2
    [] text \in {"=", "==", ">", "<", "<=", ">=", "!=", "<>"} -> 3
    [] text \in {"+", "-", "|", "&", "^"} -> 4
    [] text \in {"*", "/", "%"} -> 5
    [] OTHER -> -1

RECURSIVE ParseUnary(_, _)
RECURSIVE ParseBinary(_, _, _, _)

\* __parse_predicate (0) and __parse_expression (3)
FromLeft(q, lhs, min) == IF lhs.hangs THEN lhs ELSE ParseBinary(q, lhs.e, lhs.at, min)
ParseFrom(q, at, min) == FromLeft(q, ParseUnary(q, at), min)

\* __parse_in from the first value on: the list so far, joined by OR.
RECURSIVE InList(_, _, _, _, _)
InListWith(q, v, value, op, joined) ==
  LET one == Binary(op, value, v.e)
      e == IF joined = Junk THEN one ELSE Binary("OR", joined, one)
      more == Text(q, v.at) = ","
  IN  CASE v.hangs \/ (more /\ v.at > Len(q)) -> Parse(e, v.at, TRUE)
        [] more /\ v.at <= Len(q) -> InList(q, LexNext(q, v.at), value, op, e)
        [] OTHER -> Parse(e, IF Text(q, v.at) = ")" THEN LexNext(q, v.at) ELSE v.at, FALSE)

InList(q, at, value, op, joined) == InListWith(q, ParseFrom(q, at, 0), value, op, joined)

ParseIn(q, at, value, negate) ==
  InList(q, IF Text(q, at) = "(" THEN LexNext(q, at) ELSE at, value,
         IF negate THEN "!=" ELSE "=", Junk)

\* __parse_between
Bounded(value, low, high, negate) ==
  Parse(IF negate THEN Binary("OR", Binary("<", value, low), Binary(">", value, high.e))
        ELSE Binary("AND", Binary(">=", value, low), Binary("<=", value, high.e)),
        high.at, high.hangs)

BetweenFrom(q, low, value, negate) ==
  CASE low.hangs -> low
    [] ~low.hangs /\ Text(q, low.at) # "AND" -> Parse(value, low.at, FALSE)
    [] OTHER -> Bounded(value, low.e, ParseFrom(q, LexNext(q, low.at), 3), negate)

ParseBetween(q, at, value, negate) == BetweenFrom(q, ParseFrom(q, at, 3), value, negate)

\* __parse_function: the arguments from a place on, four at most.  The
\* opening parenthesis is taken for that of the first argument.
RECURSIVE ParseArgs(_, _, _)
ArgsWith(q, arg, n) ==
  CASE arg.hangs -> arg
    [] ~arg.hangs /\ Text(q, arg.at) = "," -> ParseArgs(q, LexNext(q, arg.at), n + 1)
    [] OTHER -> Parse([type |-> "function"],
                      IF Text(q, arg.at) = ")" THEN LexNext(q, arg.at) ELSE arg.at, FALSE)

ParseArgs(q, at, n) ==
  IF n = 4 THEN Parse([type |-> "function"], at, FALSE)
  ELSE ArgsWith(q, ParseFrom(q, at, 0), n)

\* The first part of __parse_primary.
Enclosed(q, inner) ==
  IF inner.hangs THEN inner
  ELSE Parse(inner.e, IF Text(q, inner.at) = ")" THEN LexNext(q, inner.at) ELSE -inner.at, FALSE)

ParseOperand(q, at) ==
  LET tok == q[at]
      next == LexNext(q, at)
  IN  CASE Kind(q, at) \in {"int", "boolean"} -> Parse([type |-> "int", val |-> tok.val], next, FALSE)
        [] Kind(q, at) = "string" -> Parse([type |-> "string"], next, FALSE)
        [] Kind(q, at) = "identifier" ->
             IF Text(q, next) = "(" THEN ParseArgs(q, next, 0)
             ELSE Parse([type |-> "identifier", name |-> tok.text], next, FALSE)
        [] Kind(q, at) = "operator" /\ tok.text = "(" -> Enclosed(q, ParseFrom(q, next, 0))
        [] OTHER -> Parse(Junk, -at, FALSE)

\* __parse_primary.  A negative place is an error: what may follow an
\* operand is not looked for.
PrimaryFrom(q, x) ==
  LET negate == Text(q, x.at) = "NOT"
      here == IF negate THEN LexNext(q, x.at) ELSE x.at
  IN  CASE x.hangs -> x
        [] ~x.hangs /\ x.at < 0 -> [x EXCEPT !.at = -@]
        [] ~x.hangs /\ x.at >= 0 /\ Text(q, here) = "IN" ->
             ParseIn(q, LexNext(q, here), x.e, negate)
        [] ~x.hangs /\ x.at >= 0 /\ Text(q, here) = "BETWEEN" ->
             ParseBetween(q, LexNext(q, here), x.e, negate)
        [] OTHER -> Parse(x.e, here, FALSE)

ParsePrimary(q, at) == PrimaryFrom(q, ParseOperand(q, at))

\* __get_unary_operator: of a token of two bytes nothing is looked at.
UnaryOps == {"-", "+", "~", "!", "NOT"} \cup {"OR", "==", "<=", ">=", "!=", "<>"}

Under(op, operand) == Parse(Unary(op, operand.e), operand.at, operand.hangs)

ParseUnary(q, at) ==
  IF Kind(q, at) = "operator" /\ Text(q, at) \in UnaryOps
  THEN Under(Text(q, at), ParseUnary(q, LexNext(q, at)))
  ELSE ParsePrimary(q, at)

\* Fault: tighter operators are left to the loop outside.
TighterNever(q, rhs, prec) == rhs

\* The right operand takes the operators that bind tighter, and with them
\* the ones that follow down to the precedence of this one.
RECURSIVE Tighter(_, _, _)
Tighter(q, rhs, prec) ==
  IF ~rhs.hangs /\ Precedence(Text(q, rhs.at)) > prec
  THEN Tighter(q, ParseBinary(q, rhs.e, rhs.at, prec), prec) ELSE rhs

\* __parse_binary
Joined(q, op, lhs, rhs, min) ==
  IF rhs.hangs THEN rhs ELSE ParseBinary(q, Binary(op, lhs, rhs.e), rhs.at, min)

\* Fault: operators of the least precedence asked for are left.
ParseBinaryAbove(q, lhs, at, min) ==
  LET op == Text(q, at)
  IN  CASE Precedence(op) <= min -> Parse(lhs, at, FALSE)
        [] Precedence(op) > min /\ at > Len(q) -> Parse(lhs, at, TRUE)
        [] OTHER ->
             Joined(q, op, lhs, Tighter(q, ParseUnary(q, LexNext(q, at)), Precedence(op)), min)

ParseBinary(q, lhs, at, min) ==
  LET op == Text(q, at)
  IN  CASE Precedence(op) < min -> Parse(lhs, at, FALSE)
        [] Precedence(op) >= min /\ at > Len(q) -> Parse(lhs, at, TRUE)
        [] OTHER ->
             Joined(q, op, lhs, Tighter(q, ParseUnary(q, LexNext(q, at)), Precedence(op)), min)

\* z_expr_parse_predicate
ParsePredicate(q) == ParseFrom(q, 1, 0)

-----------------------------------------------------------------------------
(* z_expr_evaluate.  A value is [type, val], the type "int" for a number:  *)
(* floats are left out.  Null where the code returns NULL, Crash where it  *)
(* reads behind that or divides by zero.                                   *)

Null == [type |-> "null"]
Crash == [type |-> "crash"]
Value(type, n) == [type |-> type, val |-> n]
Truth(b) == IF b THEN 1 ELSE 0
IsNumber(v) == v.type = "int"

Abs(n) == IF n < 0 THEN -n ELSE n
Quotient(l, r) == Truth(l * r >= 0) * (Abs(l) \div Abs(r)) - Truth(l * r < 0) * (Abs(l) \div Abs(r))

\* __eval_integer_binary_op: AND and OR are the other way round.
Compared(op, l, r) ==
  CASE op \in {"=", "==", "LIKE", "ILIKE"} -> l = r
    [] op \in {"!=", "<>"} -> l # r
    [] op = "<" -> l < r
    [] op = ">" -> l > r
    [] op = "<=" -> l <= r
    [] op = ">=" -> l >= r
    [] op = "OR" -> l # 0 /\ r # 0
    [] op = "AND" -> l # 0 \/ r # 0

Computed(op, l, r) ==
  CASE op = "+" -> l + r
    [] op = "-" -> l - r
    [] op = "*" -> l * r
    [] op = "/" -> Quotient(l, r)
    [] op = "%" -> l - r * Quotient(l, r)
    [] op = "|" -> l | r
    [] op = "&" -> l & r
    [] op = "^" -> l ^^ r
    [] OTHER -> Truth(Compared(op, l, r))

\* __eval_numeric_binary_op
NumericOp(op, l, r) ==
  IF op \in {"/", "%"} /\ r.val = 0 THEN Crash ELSE Value("int", Computed(op, l.val, r.val))

\* __eval_numeric_unary_op
NumericUnary(op, v) ==
  CASE op \in {"NOT", "!"} -> Value("int", Truth(v.val = 0))
    [] op = "+" -> v
    [] op = "-" -> Value("int", -v.val)
    [] op = "~" -> Value("int", -v.val - 1)

RECURSIVE Evaluate(_, _)

\* __eval_unary_op
EvalUnary(e, vars) ==
  LET v == Evaluate(e.operand, vars)
  IN  CASE v.type \in {"null", "crash"} -> Crash
        [] IsNumber(v) -> NumericUnary(e.op, v)
        [] OTHER -> Null

\* Fault: the right side is evaluated first.
KnownNever(op, left) == FALSE

\* The left side alone decides.
Known(op, left) ==
  /\ left.type = "int"
  /\ (op = "OR" /\ left.val # 0) \/ (op = "AND" /\ left.val = 0)

\* __eval_binary_op
EvalBinary(e, vars) ==
  LET left == Evaluate(e.left, vars)
      right == Evaluate(e.right, vars)
  IN  CASE left.type = "crash" -> Crash
        [] left.type = "null" /\ e.op \in {"OR", "AND"} -> Crash
        [] left.type \notin {"crash", "null"} /\ Known(e.op, left) ->
             Value("int", Truth(e.op = "OR"))
        [] OTHER ->
             CASE "null" \in {left.type, right.type} \/ right.type = "crash" -> Crash
               [] IsNumber(left) /\ IsNumber(right) -> NumericOp(e.op, left, right)
               [] OTHER -> Null

Evaluate(e, vars) ==
  CASE e.type = "identifier" -> IF e.name \in DOMAIN vars THEN vars[e.name] ELSE Null
    [] e.type = "unary" -> EvalUnary(e, vars)
    [] e.type = "binary" -> EvalBinary(e, vars)
    [] e.type = "function" -> Null
    [] OTHER -> e
=============================================================================
