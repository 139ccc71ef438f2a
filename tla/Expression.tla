----------------------------- MODULE Expression -----------------------------
(***************************************************************************)
(* The life of a formula: meta.cc loads it from its text and checks it,    *)
(* and record.cc computes it for one record after another.  The three      *)
(* loops are steps here, so that what their stacks hold can be stated.     *)
(***************************************************************************)
EXTENDS Grammar

CONSTANTS
  Text,     \* the texts that formulas may have
  Fields,   \* the fields that their names stand for
  Values    \* the records for which they are computed, functions on Fields

ASSUME ExpressionAssumption ==
  /\ Text \subseteq Seq(Lexeme)
  /\ \A t \in Text : \A i \in DOMAIN t : t[i].type = "kname" => t[i].v \in Fields
  /\ Values \subseteq [Fields -> Int]

VARIABLES
  text, ex,    \* the text, and the nodes loaded from it so far
  pc,          \* "load", "check", "ready" (accepted), "compute", "refused", and
               \* "undefined" once a remainder by zero has been taken
  pos,         \* how far the loop of the current phase is
  stack,       \* the stack of check_expression
  value,       \* the record the formula is computed for, <<>> before the first
  data,        \* Computer::data
  out          \* the last result of the Computer, or <<>>

vars == <<text, ex, pc, pos, stack, value, data, out>>

Init ==
  /\ text \in Text /\ ex = <<>>
  /\ pc = "load" /\ pos = 1 /\ stack = <<>>
  /\ value = <<>> /\ data = <<>> /\ out = <<>>

Enter(phase) == pc' = phase /\ pos' = 1

\* "!" without "=", and characters that begin no lexeme, end load_expression.
Load ==
  /\ pc = "load" /\ pos <= Len(text) /\ text[pos].type # "bad"
  /\ ex' = Loaded(text, ex, pos)
  /\ pos' = pos + Taken(text, ex, pos)
  /\ UNCHANGED <<text, pc, stack, value, data, out>>

LoadRefuses ==
  /\ pc = "load" /\ pos <= Len(text) /\ text[pos].type = "bad"
  /\ pc' = "refused"
  /\ UNCHANGED <<text, ex, pos, stack, value, data, out>>

EndLoad ==
  /\ pc = "load" /\ pos > Len(text)
  /\ Enter("check")
  /\ UNCHANGED <<text, ex, stack, value, data, out>>

Check ==
  /\ pc = "check" /\ pos <= Len(ex) /\ Fits(stack, ex[pos])
  /\ stack' = Checked(stack, ex[pos])
  /\ pos' = pos + 1
  /\ UNCHANGED <<text, ex, pc, value, data, out>>

CheckRefuses ==
  /\ pc = "check" /\ pos <= Len(ex) /\ ~Fits(stack, ex[pos])
  /\ pc' = "refused"
  /\ UNCHANGED <<text, ex, pos, stack, value, data, out>>

EndCheck ==
  /\ pc = "check" /\ pos > Len(ex)
  /\ pc' = IF stack = <<"digit">> THEN "ready" ELSE "refused"
  /\ UNCHANGED <<text, ex, pos, stack, value, data, out>>

\* formula_compute: computer_.init() empties the stack; the mutation does not.
Uncleared == data
Cleared == <<>>

BeginCompute ==
  /\ pc = "ready"
  /\ value' \in Values /\ data' = Cleared
  /\ Enter("compute")
  /\ UNCHANGED <<text, ex, stack, out>>

PushOpt ==
  /\ pc = "compute" /\ pos <= Len(ex)
  /\ IsFour(ex[pos]) \/ ex[pos].type = "kleft"
  /\ data' = Append(data, CNode(ex[pos].type))
  /\ pos' = pos + 1
  /\ UNCHANGED <<text, ex, pc, stack, value, out>>

Push ==
  /\ pc = "compute" /\ pos <= Len(ex)
  /\ IsOperand(ex[pos]) \/ ex[pos].type = "kright"
  /\ ~Traps(data, ex[pos], value)
  /\ data' = AfterNumber(data, ex[pos], value)
  /\ pos' = pos + 1
  /\ UNCHANGED <<text, ex, pc, stack, value, out>>

PushTraps ==
  /\ pc = "compute" /\ pos <= Len(ex)
  /\ IsOperand(ex[pos]) \/ ex[pos].type = "kright"
  /\ Traps(data, ex[pos], value)
  /\ pc' = "undefined"
  /\ UNCHANGED <<text, ex, pos, stack, value, data, out>>

EndCompute ==
  /\ pc = "compute" /\ pos > Len(ex)
  /\ out' = Sum(data)
  /\ pc' = "ready"
  /\ UNCHANGED <<text, ex, pos, stack, value, data>>

Next ==
  \/ Load \/ LoadRefuses \/ EndLoad
  \/ Check \/ CheckRefuses \/ EndCheck
  \/ BeginCompute \/ PushOpt \/ Push \/ PushTraps \/ EndCompute

Spec == Init /\ [][Next]_vars

-----------------------------------------------------------------------------

\* The variables keep their types, and no loop goes past the end of its input.
ExprTypeOK ==
  /\ text \in Seq(Lexeme) /\ ex \in Seq(Node)
  /\ pc \in {"load", "check", "ready", "compute", "refused", "undefined"}
  /\ Len(ex) <= Len(text)
  /\ pos \in 1 .. Len(text) + 1
  /\ stack \in Seq(StackItem)
  /\ value \in Values \cup {<<>>}

\* check_expression takes two items off the stack whenever it finds an operator
\* on top: there is always a number below it.
StackSafe ==
  \A i \in DOMAIN stack : stack[i] = "opt" => i > 1 /\ stack[i - 1] = "digit"

WellFormed == Meanings(Plain(text), [f \in Fields |-> 0]) # {}

Shape(i) == Plain(text)[i].type
Places == DOMAIN Plain(text)

\* The three ways in which expression.cc departs from the grammar: a bracket
\* opened after an operator is never merged with what is before it, "-" after a
\* number is a sign, and a sign needs no digits.
BracketAfterOperator ==
  \E i \in Places : i > 1 /\ Shape(i) = "kleft" /\ Shape(i - 1) \in Binding \cup {"kadd", "minus"}
MinusAfterNumber ==
  \E i \in Places : i > 1 /\ Shape(i) = "minus" /\ Shape(i - 1) = "kint8"
LoneSign ==
  \E i \in DOMAIN text :
    /\ text[i].type = "minus"
    /\ ~Glued(text, i)
    /\ LET before == Plain(SubSeq(text, 1, i - 1))
       IN ~EndsWith(before, {"kname", "kright"})

\* A formula is accepted exactly if it is well formed, those three apart.
CheckExact ==
  pc \in {"ready", "refused"} /\ ~LoneSign =>
    (pc = "ready" <=>
      WellFormed /\ ~BracketAfterOperator /\ ~MinusAfterNumber)

\* What the Computer makes of a formula that was accepted is what the formula
\* means, whatever was computed before.
ComputesMeaning ==
  pc = "ready" /\ out # <<>> /\ ~LoneSign =>
    \E m \in Meanings(Plain(text), value) : Same(out, m)
=============================================================================
