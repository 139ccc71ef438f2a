------------------------------ MODULE Logical ------------------------------
(***************************************************************************)
(* logical.cc and the part of record.cc that evaluates it: a condition is  *)
(* split around its comparisons, checked, and evaluated for one record     *)
(* after another on a stack of LgSize characters.  The state here is lg_   *)
(* and lg_stack_ of a Record; Query.tla schedules it.                      *)
(***************************************************************************)
EXTENDS Conditions

CONSTANT LgSize  \* the length of lg_stack_

ASSUME LogicalAssumption == LgSize \in Nat \ {0}

VARIABLES
  ex,      \* the nodes of the condition
  pc,      \* "idle", "split", "check", "ready" (accepted), "evaluate", "refused",
           \* and "undefined" once memory outside a vector or the stack is touched
  pos,     \* how far the loop of the current phase is
  st,      \* load_logical: the nodes since the last comparison
  lg,      \* the Logical made so far
  stack,   \* the stack of check_logical
  lgStack, \* lg_stack_[0 .. lg_stack_size_ - 1]
  value,   \* the record evaluated, <<>> before the first
  out      \* the last result: "T", "F", or "none"

logicalVars == <<ex, pc, pos, st, lg, stack, lgStack, value, out>>

LogicalInit ==
  /\ ex = <<>> /\ pc = "idle" /\ pos = 1 /\ st = <<>> /\ lg = <<>>
  /\ stack = <<>> /\ lgStack = <<>> /\ value = <<>> /\ out = "none"

-----------------------------------------------------------------------------
(* load_and_check_logical, and in it load_logical. *)

\* make_right_expression: the first node from `start' on that ends it.
RightEnd(start) ==
  LET ends == {i \in start .. Len(ex) :
        \/ ex[i].type \in Joins
        \/ ex[i].type = "kright" /\ Balanced(SubSeq(ex, start, i - 1))}
  IN IF ends = {} THEN Len(ex) + 1 ELSE Min(ends)

\* st.clear(), once what is left of a comparison is in lg; the mutation forgets it.
Uncleared == st
Cleared == <<>>

\* load_and_check_logical: what the last condition left in lg_ is freed first.
LoadLogical(where) ==
  /\ ex' = where /\ lg' = <<>>
  /\ pc' = "split" /\ pos' = 1 /\ st' = <<>> /\ stack' = <<>>
  /\ out' = "none"
  /\ UNCHANGED <<lgStack, value>>

Split ==
  /\ pc = "split" /\ pos <= Len(ex) /\ IsComparison(ex[pos])
  /\ LET p == LeftEnd(st)
         q == RightEnd(pos + 1)
     IN /\ lg' = Append(lg \o Converted(SubSeq(st, 1, p)),
                        LogicalNode(ex[pos], SubSeq(st, p + 1, Len(st)), SubSeq(ex, pos + 1, q - 1)))
        /\ pos' = q
  /\ st' = Cleared
  /\ UNCHANGED <<ex, pc, stack, lgStack, value, out>>

Keep ==
  /\ pc = "split" /\ pos <= Len(ex) /\ ~IsComparison(ex[pos])
  /\ st' = Append(st, ex[pos])
  /\ pos' = pos + 1
  /\ UNCHANGED <<ex, pc, lg, stack, lgStack, value, out>>

\* The anchors of every LIKE are looked for in the first node at its right.
LikeOfNothing == \E i \in DOMAIN lg : lg[i].type \in LikeTypes /\ lg[i].right = <<>>

EndSplit ==
  /\ pc = "split" /\ pos > Len(ex)
  /\ lg' = lg \o Converted(st) /\ st' = <<>>
  /\ pc' = IF LikeOfNothing THEN "undefined" ELSE "check"
  /\ pos' = 1
  /\ UNCHANGED <<ex, stack, lgStack, value, out>>

-----------------------------------------------------------------------------
(* check_logical, then change_fname_to_fid. *)

Check ==
  /\ pc = "check" /\ pos <= Len(lg) /\ NodeFits(stack, lg[pos])
  /\ stack' = NodeChecked(stack, lg[pos])
  /\ pos' = pos + 1
  /\ UNCHANGED <<ex, pc, st, lg, lgStack, value, out>>

CheckRefuses ==
  /\ pc = "check" /\ pos <= Len(lg) /\ ~NodeFits(stack, lg[pos])
  /\ pc' = "refused"
  /\ UNCHANGED <<ex, pos, st, lg, stack, lgStack, value, out>>

EndCheck ==
  /\ pc = "check" /\ pos > Len(lg)
  /\ pc' = IF stack = <<"expr">> /\ \A i \in DOMAIN lg : Typed(lg[i])
           THEN "ready" ELSE "refused"
  /\ UNCHANGED <<ex, pos, st, lg, stack, lgStack, value, out>>

-----------------------------------------------------------------------------
(* compute_logical and put_stack. *)

Evaluated(s, x) ==
  CASE x.type \in Joins \cup {"kleft"} -> Append(s, Char(x))
    [] x.type = "kright" -> PutStack(Popped(s, 2), Last(s))
    [] OTHER -> PutStack(s, Truth(Holds(x, value)))

BeginEvaluate(row) ==
  /\ pc = "ready"
  /\ value' = row /\ lgStack' = <<>>
  /\ pc' = "evaluate" /\ pos' = 1
  /\ UNCHANGED <<ex, st, lg, stack, out>>

Evaluate ==
  /\ pc = "evaluate" /\ pos <= Len(lg) /\ ~Undefined(lg[pos], value)
  /\ lgStack' = Evaluated(lgStack, lg[pos])
  /\ Len(lgStack') <= LgSize
  /\ pos' = pos + 1
  /\ UNCHANGED <<ex, pc, st, lg, stack, value, out>>

\* Nothing compares lg_stack_size_ with the length of the array.
EvaluateOverruns ==
  /\ pc = "evaluate" /\ pos <= Len(lg) /\ ~Undefined(lg[pos], value)
  /\ Len(Evaluated(lgStack, lg[pos])) > LgSize
  /\ pc' = "undefined"
  /\ UNCHANGED <<ex, pos, st, lg, stack, lgStack, value, out>>

EvaluateTraps ==
  /\ pc = "evaluate" /\ pos <= Len(lg) /\ Undefined(lg[pos], value)
  /\ pc' = "undefined"
  /\ UNCHANGED <<ex, pos, st, lg, stack, lgStack, value, out>>

Result == Truth(lgStack[1] = "T")

EndEvaluate ==
  /\ pc = "evaluate" /\ pos > Len(lg)
  /\ out' = Result
  /\ pc' = "ready"
  /\ UNCHANGED <<ex, pos, st, lg, stack, lgStack, value>>

\* The loops of load_and_check_logical, and that of compute_logical.
LoadStep == Split \/ Keep \/ EndSplit \/ Check \/ CheckRefuses \/ EndCheck
EvaluateStep == Evaluate \/ EvaluateOverruns \/ EvaluateTraps

-----------------------------------------------------------------------------

\* The variables keep their types; the stack fits its array.
LogicalTypeOK ==
  /\ ex \in Seq(Node)
  /\ pc \in {"idle", "split", "check", "ready", "evaluate", "refused", "undefined"}
  /\ pos \in 1 .. Len(ex) + 1
  /\ Len(st) + Len(lg) <= Len(ex)
  /\ stack \in Seq({"left", "opt", "expr"})
  /\ lgStack \in Seq({"(", "A", "O", "T", "F"}) /\ Len(lgStack) <= LgSize
  /\ out \in {"T", "F", "none"}

\* A condition is accepted exactly if it is in the grammar, and one that is in
\* the grammar comes to harm only when lg_stack_ is too short for it, or C++ leaves
\* undefined what a comparison computes.
ConditionExact ==
  /\ pc \in {"ready", "refused"} => (pc = "ready" <=> InGrammar(ex))
  /\ pc = "undefined" /\ InGrammar(ex) =>
       Len(lgStack) = LgSize \/ Undefined(lg[pos], value)

\* The result for a record is the one thing that the condition means for that record.
EvaluatesMeaning ==
  pc = "ready" /\ out # "none" =>
    /\ Len(lgStack) = 1
    /\ Truths(ex, value) = {out = "T"}

Before == SubSeq(lg, 1, pos - 1)

\* The evaluation stack has the shape that the stack of check_logical had at the
\* same node, so every pop of put_stack finds what the check has seen there; and
\* it never needs more than three characters for each bracket that is open and two
\* more, so that 42 levels fit into the 128 characters that record.h has.
EvaluationFollowsCheck ==
  pc = "evaluate" =>
    /\ [i \in DOMAIN lgStack |-> Kind(lgStack[i])] = FoldLeft(NodeChecked, <<>>, Before)
    /\ Len(lgStack) <= 3 * Open(Before) + 2
=============================================================================
