------------------------------ MODULE Formula ------------------------------
(***************************************************************************)
(* expression.cc as operators: one step of load_expression over the text   *)
(* of a formula, one step of the stack of check_expression, and the        *)
(* Computer, whose stack holds brackets, operators and numbers.            *)
(*                                                                         *)
(* A text is a sequence of lexemes: a bracket, an operator, a run of       *)
(* digits, a name.  The sign "-" is "minus" in a text, and becomes either  *)
(* ksub or part of a number when it is loaded.  A double is a fraction     *)
(* <<p, q>> with q > 0, or NaN; infinities do not outlive push_number.     *)
(***************************************************************************)
EXTENDS Integers, Sequences, SequencesExt

Token(t) == [type |-> t, v |-> 0]
Number(n) == [type |-> "kint8", v |-> n]
Name(f) == [type |-> "kname", v |-> f]

\* What load_expression can make of a text, with what only texts have.
NodeType ==
  {"kleft", "kright", "kadd", "ksub", "kmulti", "kdiv", "kmod", "kname", "kint8", "kchar",
   "kand", "kor", "keq", "kgt", "kge", "klt", "kle", "kne", "klike", "knlike"}
Node == [type : NodeType, v : Int]
Lexeme == [type : (NodeType \ {"ksub"}) \cup {"minus", "space", "bad"}, v : Int]

FourTypes == {"kadd", "ksub", "kmulti", "kdiv", "kmod"}
IsFour(x) == x.type \in FourTypes
IsOperand(x) == x.type \in {"kname", "kint8"}

-----------------------------------------------------------------------------
(* load_expression. *)

EndsWith(s, types) == s # <<>> /\ Last(s).type \in types

\* "-" is an operator after a field or a bracket; the mutation forgets the bracket.
AfterName(ex) == EndsWith(ex, {"kname"})
IsMinus(ex) == EndsWith(ex, {"kname", "kright"})

\* The digits that follow "-" at position i without a space, if any.
Glued(text, i) == i < Len(text) /\ text[i + 1].type = "kint8"

\* The characters of `text' from i on that give the next node, and the nodes
\* after it.  A sign that is no operator is a number even without digits; the
\* mutation skips a character after it all the same.
TakenPastEnd(text, ex, i) == IF text[i].type = "minus" /\ ~IsMinus(ex) THEN 2 ELSE 1
Taken(text, ex, i) ==
  IF text[i].type = "minus" /\ ~IsMinus(ex) /\ Glued(text, i) THEN 2 ELSE 1

Loaded(text, ex, i) ==
  LET c == text[i] IN
  CASE c.type = "space" -> ex
    [] c.type = "minus" /\ IsMinus(ex) -> Append(ex, Token("ksub"))
    [] c.type = "minus" /\ ~IsMinus(ex) ->
         Append(ex, Number(IF Glued(text, i) THEN 0 - text[i + 1].v ELSE 0))
    [] OTHER -> Append(ex, c)

-----------------------------------------------------------------------------
(* check_expression. *)

StackItem == {"left", "opt", "digit"}

Top(st, n) == SubSeq(st, Len(st) - n + 1, Len(st))
Popped(st, n) == SubSeq(st, 1, Len(st) - n)
IsTop(st, e) == st # <<>> /\ Last(st) = e

\* The node is of a kind and at a place that check_expression lets pass; the
\* mutation does not ask for a number before an operator.
FitsAnyOperator(st, x) ==
  \/ x.type = "kright" /\ Len(st) >= 2 /\ Top(st, 2) = <<"left", "digit">>
  \/ x.type = "kleft" \/ IsFour(x) \/ IsOperand(x)
Fits(st, x) ==
  \/ x.type = "kright" /\ Len(st) >= 2 /\ Top(st, 2) = <<"left", "digit">>
  \/ IsFour(x) /\ IsTop(st, "digit")
  \/ x.type = "kleft" \/ IsOperand(x)

Checked(st, x) ==
  CASE x.type = "kleft" -> Append(st, "left")
    [] x.type = "kright" -> Append(Popped(st, 2), "digit")
    [] IsFour(x) -> Append(st, "opt")
    [] OTHER -> Append(IF IsTop(st, "opt") THEN Popped(st, 2) ELSE st, "digit")

\* check_expression as a whole: what is left is one number.
Refused == <<"refused">>
CheckExpression(ex) ==
  LET Step(st, x) == IF st # Refused /\ Fits(st, x) THEN Checked(st, x) ELSE Refused
  IN FoldLeft(Step, <<>>, ex) = <<"digit">>

-----------------------------------------------------------------------------
(* Numbers. *)

Int2Num(n) == <<n, 1>>
NaN == <<0, 0>>
IsNaN(a) == a[2] = 0
Same(a, b) == IsNaN(a) = IsNaN(b) /\ a[1] * b[2] = b[1] * a[2]

Plus(a, b) == <<a[1] * b[2] + b[1] * a[2], a[2] * b[2]>>
Less(a, b) == <<a[1] * b[2] - b[1] * a[2], a[2] * b[2]>>
Times(a, b) == <<a[1] * b[1], a[2] * b[2]>>
Fraction(a, b) ==
  IF b[1] > 0 THEN <<a[1] * b[2], a[2] * b[1]>> ELSE <<0 - a[1] * b[2], 0 - a[2] * b[1]>>

\* A double converted to int64_t, and the remainder of two of them, which has
\* the sign of the first.
Truncated(a) == IF a[1] >= 0 THEN a[1] \div a[2] ELSE 0 - ((0 - a[1]) \div a[2])
Abs(n) == IF n < 0 THEN 0 - n ELSE n
Remainder(n, m) == IF n >= 0 THEN n % Abs(m) ELSE 0 - ((0 - n) % Abs(m))

-----------------------------------------------------------------------------
(* Computer. *)

\* push_number's division: an infinite result becomes 0, and 0/0 stays NaN.
Divided(a, b) ==
  CASE IsNaN(a) \/ IsNaN(b) -> NaN
    [] ~IsNaN(a) /\ b = <<0, b[2]>> /\ ~IsNaN(b) -> IF a[1] = 0 THEN NaN ELSE Int2Num(0)
    [] OTHER -> Fraction(a, b)

Modulo(a, b) == Int2Num(Remainder(Truncated(a), Truncated(b)))

\* The conversions and the remainder are defined by C++.
HasModulo(a, b) == ~IsNaN(a) /\ ~IsNaN(b) /\ Truncated(b) # 0

\* CNode(t) leaves v unset: any number that no formula computes.
Unset == Int2Num(1000000)
CNode(t) == [type |-> t, v |-> Unset]
CNumber(v) == [type |-> "kdouble", v |-> v]

Binding == {"kmulti", "kdiv", "kmod"}
Binds(data) == Len(data) > 1 /\ EndsWith(data, Binding)

\* push_number meets a remainder that C++ leaves undefined.
PushUndefined(data, v) ==
  Binds(data) /\ Last(data).type = "kmod" /\ ~HasModulo(data[Len(data) - 1].v, v)

Bound(t, a, b) ==
  CASE t = "kmulti" -> Times(a, b) [] t = "kdiv" -> Divided(a, b) [] t = "kmod" -> Modulo(a, b)

PushNumber(data, v) ==
  IF Binds(data)
  THEN Append(Popped(data, 2), CNumber(Bound(Last(data).type, data[Len(data) - 1].v, v)))
  ELSE Append(data, CNumber(v))

\* The loop of result() and of a closing bracket: numbers are added, or
\* subtracted while the last sign was "-".
Summed(acc, n) ==
  CASE n.type = "kadd" -> [v |-> acc.v, add |-> TRUE]
    [] n.type = "ksub" -> [v |-> acc.v, add |-> FALSE]
    [] OTHER -> [v |-> IF acc.add THEN Plus(acc.v, n.v) ELSE Less(acc.v, n.v), add |-> acc.add]
Sum(data) == FoldLeft(Summed, [v |-> Int2Num(0), add |-> TRUE], data).v

\* The place of the bracket that a closing one meets, or 0.
Opening(data) == SelectLastInSeq(data, LAMBDA n : n.type = "kleft")
Below(data) == SubSeq(data, 1, Opening(data) - 1)
Within(data) == SubSeq(data, Opening(data) + 1, Len(data))

\* formula_compute: the number that node x pushes for a record, a closing bracket
\* what the part of the stack is worth that it takes off; and what x does.
Pushed(data, x, row) ==
  CASE x.type = "kint8" -> Int2Num(x.v)
    [] x.type = "kname" -> Int2Num(row[x.v])
    [] x.type = "kright" -> Sum(Within(data))
Remains(data, x) == IF x.type = "kright" THEN Below(data) ELSE data
Traps(data, x, row) == PushUndefined(Remains(data, x), Pushed(data, x, row))
AfterNumber(data, x, row) == PushNumber(Remains(data, x), Pushed(data, x, row))

\* formula_compute as a whole.  A remainder that C++ leaves undefined ends it.
Trapped == <<CNode("trapped")>>
Computing(e, row) ==
  LET Push(data, x) ==
        IF data = Trapped THEN Trapped
        ELSE IF IsFour(x) \/ x.type = "kleft" THEN Append(data, CNode(x.type))
        ELSE IF Traps(data, x, row) THEN Trapped ELSE AfterNumber(data, x, row)
  IN FoldLeft(Push, <<>>, e)
Compute(e, row) == Sum(Computing(e, row))
=============================================================================
