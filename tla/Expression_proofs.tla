------------------------- MODULE Expression_proofs -------------------------
(***************************************************************************)
(* What holds of the three loops of Expression.tla for every text, every   *)
(* set of fields and every set of records.                                 *)
(***************************************************************************)
EXTENDS Expression, Grammar_proofs

-----------------------------------------------------------------------------

\* While a text is loaded there are no more nodes than lexemes read.
ExprInv ==
  /\ ExprTypeOK
  /\ Safe(stack)
  /\ pc = "load" => Len(ex) < pos

\* The invariant holds of a text that has not been read.
LEMMA InitExpr == Init => ExprInv
<1> SUFFICES ASSUME Init PROVE ExprInv
  OBVIOUS
<1>1. text \in Seq(Lexeme)
  BY ExpressionAssumption DEF Init
<1>2. QED
  BY <1>1 DEF Init, ExprInv, ExprTypeOK, Safe, StackItem

\* Every step of the three loops keeps it.
LEMMA NextExpr == ExprInv /\ [Next]_vars => ExprInv'
<1> SUFFICES ASSUME ExprInv, [Next]_vars PROVE ExprInv'
  OBVIOUS
<1>0. text \in Seq(Lexeme) /\ ex \in Seq(Node) /\ Safe(stack) /\ pos \in Nat \ {0}
  BY DEF ExprInv, ExprTypeOK
<1>1. CASE Load
  <2>1. pos \in 1 .. Len(text)
    BY <1>0, <1>1 DEF Load
  <2>2. text[pos].type # "bad"
    BY <1>1 DEF Load
  <2> DEFINE n == Taken(text, ex, pos)
             l == Loaded(text, ex, pos)
  <2>3. /\ l \in Seq(Node) /\ Len(l) <= Len(ex) + 1
        /\ n \in 1 .. 2 /\ pos + n <= Len(text) + 1
    BY <1>0, <2>1, <2>2, LoadNext
  <2>4. ex' = l /\ pos' = pos + n /\ pc = "load"
    BY <1>1 DEF Load
  <2> HIDE DEF n, l
  <2>5. /\ ex' \in Seq(Node) /\ pos' \in 1 .. Len(text) + 1
        /\ Len(ex') < pos' /\ Len(ex') <= Len(text)
    BY <1>0, <2>1, <2>3, <2>4 DEF ExprInv
  <2>6. QED
    BY <1>1, <2>4, <2>5 DEF Load, ExprInv, ExprTypeOK, Safe
<1>2. CASE LoadRefuses
  BY <1>2 DEF LoadRefuses, ExprInv, ExprTypeOK, Safe
<1>3. CASE EndLoad
  BY <1>0, <1>3 DEF EndLoad, Enter, ExprInv, ExprTypeOK, Safe
<1>4. CASE Check
  <2>1. Safe(stack')
    BY <1>0, <1>4, CheckStep DEF Check
  <2>2. pos' \in 1 .. Len(text) + 1
    BY <1>0, <1>4 DEF Check, ExprInv, ExprTypeOK
  <2>3. QED
    BY <1>4, <2>1, <2>2 DEF Check, ExprInv, ExprTypeOK, Safe
<1>5. CASE CheckRefuses
  BY <1>5 DEF CheckRefuses, ExprInv, ExprTypeOK, Safe
<1>6. CASE EndCheck
  BY <1>6 DEF EndCheck, ExprInv, ExprTypeOK, Safe
<1>7. CASE BeginCompute
  BY <1>0, <1>7 DEF BeginCompute, Enter, ExprInv, ExprTypeOK, Safe
<1>8. CASE PushOpt \/ Push
  <2>1. /\ pos' = pos + 1 /\ pos <= Len(ex) /\ pc = "compute"
        /\ UNCHANGED <<text, ex, pc, stack, value>>
    BY <1>8 DEF PushOpt, Push
  <2>2. pos' \in 1 .. Len(text) + 1
    BY <1>0, <2>1 DEF ExprInv, ExprTypeOK
  <2>3. QED
    BY <2>1, <2>2 DEF ExprInv, ExprTypeOK, Safe
<1>9. CASE PushTraps \/ EndCompute
  BY <1>9 DEF PushTraps, EndCompute, ExprInv, ExprTypeOK, Safe
<1>10. CASE UNCHANGED vars
  BY <1>10 DEF vars, ExprInv, ExprTypeOK, Safe
<1>11. QED
  BY <1>1, <1>2, <1>3, <1>4, <1>5, <1>6, <1>7, <1>8, <1>9, <1>10 DEF Next

\* So it always holds.
LEMMA ExprInvariant == Spec => []ExprInv
BY InitExpr, NextExpr, PTL DEF Spec

\* The loops of load_expression, check_expression and formula_compute stay within
\* their inputs, and the variables keep their types, for every text and record.
THEOREM ExprTyped == Spec => []ExprTypeOK
<1>1. ExprInv => ExprTypeOK
  BY DEF ExprInv
<1>2. QED
  BY <1>1, ExprInvariant, PTL

\* check_expression never takes two items off a stack that has fewer, whatever
\* the text.
THEOREM StackNeverUnderflows == Spec => []StackSafe
<1>1. ExprInv => StackSafe
  BY DEF ExprInv, Safe, StackSafe
<1>2. QED
  BY <1>1, ExprInvariant, PTL

-----------------------------------------------------------------------------
(* The check is exact. *)

AnyValue == [f \in Fields |-> 0]

\* What the loops know of a text without a sign that stands alone: the nodes loaded
\* are those of the text so far, the stack tells what the nodes checked mean unless
\* the text is wrong, and a text is accepted or refused for good reason.
CheckInv ==
  /\ pc = "load" => stack = <<>>
  /\ pc = "check" => pos <= Len(ex) + 1
  /\ ~LoneSign =>
      /\ pc = "load" => \E a : Maps(Beginning(text, pos - 1), ex, a)
      /\ pc = "check" => \E a :
           /\ Maps(Plain(text), ex, a)
           /\ \/ BadStack(stack) /\ Doomed(Plain(text))
              \/ GoodStack(Plain(text), AnyValue, stack, a[pos - 1])
      /\ pc \in {"ready", "compute", "undefined"} =>
           WellFormed /\ NoDeparture(Plain(text), Len(Plain(text)))
      /\ pc = "refused" => Doomed(Plain(text))

\* The condition of the theorem, as the lemmas have it.
LEMMA LoneSignOf ==
  ASSUME text \in Seq(Lexeme), ~LoneSign
  PROVE  NoLoneSign(text)
BY DEF LoneSign, NoLoneSign, Beginning, NameOrBracket

\* Nothing is known of a text that has not been read.
LEMMA InitCheckInv == Init => CheckInv
<1> SUFFICES ASSUME Init PROVE CheckInv
  OBVIOUS
<1>1. text \in Seq(Lexeme) /\ ex = <<>> /\ pos = 1 /\ pc = "load" /\ stack = <<>>
  BY ExpressionAssumption DEF Init
<1>2. Beginning(text, 0) = <<>>
  BY <1>1, PlainStep
<1> DEFINE a == [n \in 0 .. 0 |-> 0]
<1>3. Maps(<<>>, <<>>, a)
  BY DEF Maps
<1>4. pos - 1 = 0
  BY <1>1
<1>5. \E b : Maps(Beginning(text, pos - 1), ex, b)
  BY <1>1, <1>2, <1>3, <1>4
<1> QED
  BY <1>1, <1>5 DEF CheckInv

\* Every step keeps what the loops know.
LEMMA NextCheckInv == ExprInv /\ CheckInv /\ [Next]_vars => CheckInv'
<1> SUFFICES ASSUME ExprInv, CheckInv, [Next]_vars PROVE CheckInv'
  OBVIOUS
<1>0. text \in Seq(Lexeme) /\ ex \in Seq(Node) /\ Safe(stack) /\ stack \in Seq(StackItem)
      /\ pos \in Nat \ {0} /\ pos \in 1 .. Len(text) + 1
  BY DEF ExprInv, ExprTypeOK
<1>t. text' = text
  BY DEF Next, vars, Load, LoadRefuses, EndLoad, Check, CheckRefuses, EndCheck, BeginCompute,
         PushOpt, Push, PushTraps, EndCompute
<1>l. LoneSign' <=> LoneSign
  BY <1>t DEF LoneSign
<1>w. WellFormed' <=> WellFormed
  BY <1>t DEF WellFormed
<1>s. PICK s \in Seq(Lexeme) : s = Plain(text)
  BY <1>0, PlainTyped
<1>1. CASE Load
  <2>1. pos \in 1 .. Len(text) /\ text[pos].type # "bad" /\ pc = "load" /\ pc' = "load"
        /\ stack' = stack
    BY <1>0, <1>1 DEF Load
  <2>2. stack' = <<>>
    BY <2>1 DEF CheckInv
  <2>3. ASSUME ~LoneSign
        PROVE  \E a : Maps(Beginning(text, pos' - 1), ex', a)
    <3>1. NoLoneSign(text)
      BY <1>0, <2>3, LoneSignOf
    <3>2. \E a : Maps(Beginning(text, pos - 1), ex, a)
      BY <2>1, <2>3 DEF CheckInv
    <3>3. \E a : Maps(Beginning(text, (pos + Taken(text, ex, pos)) - 1), Loaded(text, ex, pos), a)
      BY <1>0, <2>1, <3>1, <3>2, MapsStep
    <3>4. pos' = pos + Taken(text, ex, pos) /\ ex' = Loaded(text, ex, pos)
      BY <1>1 DEF Load
    <3> QED
      BY <3>3, <3>4
  <2> QED
    BY <1>t, <1>l, <2>1, <2>2, <2>3 DEF CheckInv
<1>2. CASE LoadRefuses
  <2>1. pos \in 1 .. Len(text) /\ text[pos].type = "bad" /\ pc' = "refused"
    BY <1>0, <1>2 DEF LoadRefuses
  <2>2. PICK j \in 1 .. Len(s) : s[j] = text[pos]
    BY <1>0, <1>s, <2>1, PlainTyped
  <2>3. Doomed(s)
    <3>1. s[j].type \notin Starts \cup Operand \cup Operators
      BY <2>1, <2>2 DEF Starts, Operand, Operators, Binding
    <3> QED
      BY <3>1, DoomedUnknown
  <2> QED
    BY <1>t, <1>s, <2>1, <2>3 DEF CheckInv
<1>3. CASE EndLoad
  <2>1. pos = Len(text) + 1 /\ pc = "load" /\ pc' = "check" /\ pos' = 1 /\ UNCHANGED <<ex, stack>>
    BY <1>0, <1>3 DEF EndLoad, Enter
  <2>2. stack' = <<>>
    BY <2>1 DEF CheckInv
  <2>3. ASSUME ~LoneSign
        PROVE  \E a : Maps(s, ex, a) /\ GoodStack(s, AnyValue, stack', a[1 - 1])
    <3>1. PICK a : Maps(Beginning(text, pos - 1), ex, a)
      BY <2>1, <2>3 DEF CheckInv
    <3>2. Beginning(text, pos - 1) = s
      <4>1. pos - 1 = Len(text)
        BY <1>0, <2>1
      <4> QED
        BY <1>0, <1>s, <4>1, PlainStep
    <3>3. a[0] = 0 /\ 1 - 1 = 0
      BY <3>1 DEF Maps
    <3>4. GoodStack(s, AnyValue, stack', 0)
      BY <2>2, GoodBegin
    <3> QED
      BY <3>1, <3>2, <3>3, <3>4
  <2>4. pos' <= Len(ex') + 1
    BY <1>0, <2>1
  <2> QED
    BY <1>t, <1>l, <1>s, <2>1, <2>3, <2>4 DEF CheckInv
<1>4. CASE Check
  <2>1. /\ pos \in 1 .. Len(ex) /\ Fits(stack, ex[pos]) /\ pc = "check" /\ pc' = "check"
        /\ stack' = Checked(stack, ex[pos]) /\ pos' = pos + 1 /\ ex' = ex
    BY <1>0, <1>4 DEF Check
  <2>2. pos' <= Len(ex') + 1 /\ pos' - 1 = pos
    BY <1>0, <2>1
  <2>3. ASSUME ~LoneSign
        PROVE  \E a : /\ Maps(s, ex, a)
                      /\ (BadStack(stack') /\ Doomed(s)) \/ GoodStack(s, AnyValue, stack', a[pos])
    <3>1. PICK a : /\ Maps(s, ex, a)
                   /\ \/ BadStack(stack) /\ Doomed(s)
                      \/ GoodStack(s, AnyValue, stack, a[pos - 1])
      BY <1>s, <2>1, <2>3 DEF CheckInv
    <3>2. /\ a[pos - 1] \in 0 .. Len(s) /\ a[pos] \in 0 .. Len(s) /\ ex[pos] \in Node
          /\ MapsNode(s, ex[pos], a[pos - 1], a[pos])
      BY <1>0, <2>1, <3>1, NodeAt
    <3>3. CASE BadStack(stack) /\ Doomed(s)
      <4>1. BadStack(stack')
        BY <1>0, <2>1, <3>2, <3>3, BadStays
      <4> QED
        BY <3>1, <3>3, <4>1
    <3>4. CASE GoodStack(s, AnyValue, stack, a[pos - 1])
      <4>1. Outcome(s, AnyValue, stack, ex[pos], a[pos])
        BY <1>0, <3>2, <3>4, GoodStep
      <4> QED
        BY <2>1, <3>1, <4>1 DEF Outcome
    <3> QED
      BY <3>1, <3>3, <3>4
  <2> QED
    BY <1>t, <1>l, <1>s, <2>1, <2>2, <2>3 DEF CheckInv
<1>5. CASE CheckRefuses
  <2>1. pos \in 1 .. Len(ex) /\ ~Fits(stack, ex[pos]) /\ pc = "check" /\ pc' = "refused"
    BY <1>0, <1>5 DEF CheckRefuses
  <2>2. ASSUME ~LoneSign
        PROVE  Doomed(s)
    <3>1. PICK a : /\ Maps(s, ex, a)
                   /\ \/ BadStack(stack) /\ Doomed(s)
                      \/ GoodStack(s, AnyValue, stack, a[pos - 1])
      BY <1>s, <2>1, <2>2 DEF CheckInv
    <3>2. /\ a[pos - 1] \in 0 .. Len(s) /\ a[pos] \in 0 .. Len(s) /\ ex[pos] \in Node
          /\ MapsNode(s, ex[pos], a[pos - 1], a[pos])
      BY <1>0, <2>1, <3>1, NodeAt
    <3>3. CASE GoodStack(s, AnyValue, stack, a[pos - 1])
      <4>1. Outcome(s, AnyValue, stack, ex[pos], a[pos])
        BY <1>0, <3>2, <3>3, GoodStep
      <4> QED
        BY <2>1, <4>1 DEF Outcome
    <3> QED
      BY <3>1, <3>3
  <2> QED
    BY <1>t, <1>l, <1>s, <2>1, <2>2 DEF CheckInv
<1>6. CASE EndCheck
  <2>1. /\ pos > Len(ex) /\ pc = "check"
        /\ pc' = IF stack = <<"digit">> THEN "ready" ELSE "refused"
    BY <1>6 DEF EndCheck
  <2>2. ASSUME ~LoneSign
        PROVE  IF stack = <<"digit">> THEN WellFormed /\ NoDeparture(s, Len(s)) ELSE Doomed(s)
    <3>1. PICK a : /\ Maps(s, ex, a)
                   /\ \/ BadStack(stack) /\ Doomed(s)
                      \/ GoodStack(s, AnyValue, stack, a[pos - 1])
      BY <1>s, <2>1, <2>2 DEF CheckInv
    <3>2. CASE BadStack(stack) /\ Doomed(s)
      <4>1. Len(stack) # 1
        <5>1. PICK m \in Nat : m = Len(stack)
          BY <1>0
        <5>2. PICK j : j \in 1 .. m - 1
          BY <3>2, <5>1 DEF BadStack
        <5> QED
          BY <5>1, <5>2
      <4>2. stack # <<"digit">>
        BY <4>1
      <4> QED
        BY <3>2, <4>2
    <3>3. CASE GoodStack(s, AnyValue, stack, a[pos - 1])
      <4>1. pos - 1 = Len(ex)
        <5>1. pos <= Len(ex) + 1
          BY <2>1 DEF CheckInv
        <5> QED
          BY <1>0, <2>1, <5>1
      <4>2. a[pos - 1] = Len(s)
        BY <3>1, <4>1 DEF Maps
      <4>3. IF stack = <<"digit">> THEN Meanings(s, AnyValue) # {} /\ NoDeparture(s, Len(s))
            ELSE Doomed(s)
        BY <1>0, <3>3, <4>2, GoodEnd
      <4> QED
        BY <1>s, <4>3 DEF WellFormed, AnyValue
    <3> QED
      BY <3>1, <3>2, <3>3
  <2> QED
    BY <1>t, <1>l, <1>w, <1>s, <2>1, <2>2 DEF CheckInv
<1>7. CASE BeginCompute \/ PushOpt \/ Push \/ PushTraps \/ EndCompute
  <2>1. pc \in {"ready", "compute"} /\ pc' \in {"ready", "compute", "undefined"}
    BY <1>7 DEF BeginCompute, Enter, PushOpt, Push, PushTraps, EndCompute
  <2> QED
    BY <1>t, <1>l, <1>w, <2>1 DEF CheckInv
<1>8. CASE UNCHANGED vars
  <2>1. UNCHANGED <<pc, pos, ex, stack>>
    BY <1>8 DEF vars
  <2> QED
    BY <1>t, <1>l, <1>w, <2>1 DEF CheckInv
<1> QED
  BY <1>1, <1>2, <1>3, <1>4, <1>5, <1>6, <1>7, <1>8 DEF Next

\* So it always holds.
LEMMA CheckInvariant == Spec => []CheckInv
BY InitExpr, NextExpr, InitCheckInv, NextCheckInv, PTL DEF Spec

\* check_expression accepts a formula, of whatever length, exactly if it is in the
\* grammar of expression.h, the three departures apart.
THEOREM CheckIsExact == Spec => []CheckExact
<1>1. ExprInv /\ CheckInv => CheckExact
  <2> SUFFICES ASSUME ExprInv, CheckInv, ~LoneSign, pc \in {"ready", "refused"}
               PROVE  pc = "ready" <=> WellFormed /\ ~BracketAfterOperator /\ ~MinusAfterNumber
    BY DEF CheckExact
  <2>1. text \in Seq(Lexeme)
    BY DEF ExprInv, ExprTypeOK
  <2>2. PICK s \in Seq(Lexeme) : s = Plain(text)
    BY <2>1, PlainTyped
  <2>3. NoDeparture(s, Len(s)) <=> ~BracketAfterOperator /\ ~MinusAfterNumber
    <3>1. DOMAIN s = 1 .. Len(s) /\ Len(s) \in Nat
      OBVIOUS
    <3>2. \A j : j \in 2 .. Len(s) <=> j \in DOMAIN s /\ j > 1
      BY <3>1
    <3> QED
      BY <2>2, <3>2 DEF NoDeparture, BracketAfterOperator, MinusAfterNumber, Places, Shape, Operators
  <2>4. WellFormed => Sound(s, 1, Len(s))
    BY <2>2, MeaningfulSound DEF WellFormed
  <2>5. CASE pc = "ready"
    BY <2>2, <2>3, <2>5 DEF CheckInv
  <2>6. CASE pc = "refused"
    BY <2>2, <2>3, <2>4, <2>6 DEF CheckInv, Doomed
  <2> QED
    BY <2>5, <2>6
<1> QED
  BY <1>1, ExprInvariant, CheckInvariant, PTL

-----------------------------------------------------------------------------
(* The result is what the formula means. *)

\* What the Computer knows of a text without a sign that stands alone: its stack
\* is worth what the nodes so far mean.
ComputeInv ==
  /\ text \in Text
  /\ \A n \in DOMAIN ex : ex[n].type = "kname" => ex[n].v \in Fields
  /\ pc \in {"load", "check"} => out = <<>>
  /\ pc = "compute" => value \in Values /\ pos <= Len(ex) + 1
  /\ ~LoneSign =>
       /\ pc \in {"ready", "compute"} => \E a : Maps(Plain(text), ex, a)
       /\ pc = "compute" => \E a :
            Maps(Plain(text), ex, a) /\ Computed(Plain(text), value, data, a[pos - 1])
  /\ ComputesMeaning

\* A text that was accepted is not wrong.
LEMMA AcceptedRight ==
  ASSUME ExprInv, CheckInv, ~LoneSign, pc \in {"ready", "compute"}
  PROVE  ~Doomed(Plain(text))
<1>1. Plain(text) \in Seq(Lexeme)
  BY PlainTyped DEF ExprInv, ExprTypeOK
<1>2. WellFormed /\ NoDeparture(Plain(text), Len(Plain(text)))
  BY DEF CheckInv
<1>3. Sound(Plain(text), 1, Len(Plain(text)))
  BY <1>1, <1>2, MeaningfulSound DEF WellFormed
<1> QED
  BY <1>2, <1>3 DEF Doomed

\* A node that is loaded has the name of a field if any.
LEMMA LoadedName ==
  ASSUME NEW t \in Seq(Lexeme), NEW e \in Seq(Node), NEW i \in 1 .. Len(t), t[i].type # "bad",
         t[i].type = "kname" => t[i].v \in Fields,
         \A n \in DOMAIN e : e[n].type = "kname" => e[n].v \in Fields
  PROVE  \A n \in DOMAIN Loaded(t, e, i) :
           Loaded(t, e, i)[n].type = "kname" => Loaded(t, e, i)[n].v \in Fields
<1>1. \/ Loaded(t, e, i) = e
      \/ \E x : Loaded(t, e, i) = Append(e, x) /\ (x.type = "kname" => x.v \in Fields)
  BY DEF Loaded, Token, Number
<1>2. CASE Loaded(t, e, i) = e
  BY <1>2
<1>3. ASSUME NEW x, Loaded(t, e, i) = Append(e, x), x.type = "kname" => x.v \in Fields
      PROVE  \A n \in DOMAIN Append(e, x) : Append(e, x)[n].type = "kname" => Append(e, x)[n].v \in Fields
  <2>1. PICK f : f = Append(e, x)
    OBVIOUS
  <2>2. /\ DOMAIN f = 1 .. Len(e) + 1 /\ f[Len(e) + 1] = x /\ Len(e) \in Nat
        /\ \A n \in 1 .. Len(e) : f[n] = e[n] /\ n \in DOMAIN e
    BY <2>1
  <2>3. \A n \in 1 .. Len(e) + 1 : n \in 1 .. Len(e) \/ n = Len(e) + 1
    BY <2>2
  <2>4. \A n \in DOMAIN f : f[n].type = "kname" => f[n].v \in Fields
    BY <1>3, <2>2, <2>3
  <2> QED
    BY <2>1, <2>4
<1> QED
  BY <1>1, <1>2, <1>3

\* Nothing has been computed at first.
LEMMA InitComputeInv == Init => ComputeInv
BY DEF Init, ComputeInv, ComputesMeaning

\* Every step keeps what the Computer knows.
LEMMA NextComputeInv ==
  ExprInv /\ CheckInv /\ ComputeInv /\ [Next]_vars => ComputeInv'
<1> SUFFICES ASSUME ExprInv, CheckInv, ComputeInv, [Next]_vars PROVE ComputeInv'
  OBVIOUS
<1>0. text \in Seq(Lexeme) /\ ex \in Seq(Node) /\ pos \in Nat \ {0} /\ text \in Text
      /\ Len(ex) \in Nat /\ DOMAIN ex = 1 .. Len(ex)
  BY DEF ExprInv, ExprTypeOK, ComputeInv
<1>t. text' = text
  BY DEF Next, vars, Load, LoadRefuses, EndLoad, Check, CheckRefuses, EndCheck, BeginCompute,
         PushOpt, Push, PushTraps, EndCompute
<1>l. LoneSign' <=> LoneSign
  BY <1>t DEF LoneSign
<1>s. PICK s \in Seq(Lexeme) : s = Plain(text)
  BY <1>0, PlainTyped
<1>n. \A n \in DOMAIN ex : ex[n].type = "kname" => ex[n].v \in Fields
  BY DEF ComputeInv
<1>1. CASE Load
  <2>1. /\ pos \in 1 .. Len(text) /\ text[pos].type # "bad" /\ pc = "load" /\ pc' = "load"
        /\ out' = out /\ ex' = Loaded(text, ex, pos)
    BY <1>0, <1>1 DEF Load
  <2>2. text[pos].type = "kname" => text[pos].v \in Fields
    BY <1>0, <2>1, ExpressionAssumption
  <2>3. \A n \in DOMAIN ex' : ex'[n].type = "kname" => ex'[n].v \in Fields
    BY <1>0, <1>n, <2>1, <2>2, LoadedName
  <2> QED
    BY <1>0, <1>t, <2>1, <2>3 DEF ComputeInv, ComputesMeaning
<1>2. CASE LoadRefuses \/ EndLoad \/ Check \/ CheckRefuses
  <2>1. pc \in {"load", "check"} /\ pc' \in {"check", "refused"} /\ UNCHANGED <<ex, out>>
    BY <1>2 DEF LoadRefuses, EndLoad, Enter, Check, CheckRefuses
  <2> QED
    BY <1>0, <1>t, <1>n, <2>1 DEF ComputeInv, ComputesMeaning
<1>3. CASE EndCheck
  <2>1. pc = "check" /\ pc' \in {"ready", "refused"} /\ UNCHANGED <<ex, out>> /\ out = <<>>
    BY <1>3 DEF EndCheck, ComputeInv
  <2>2. ~LoneSign => \E a : Maps(Plain(text), ex, a)
    BY <2>1 DEF CheckInv
  <2> QED
    BY <1>0, <1>t, <1>l, <1>n, <2>1, <2>2 DEF ComputeInv, ComputesMeaning
<1>4. CASE BeginCompute
  <2>1. /\ pc = "ready" /\ pc' = "compute" /\ value' \in Values /\ data' = <<>> /\ pos' = 1
        /\ UNCHANGED <<ex, out>>
    BY <1>4 DEF BeginCompute, Cleared, Enter
  <2>2. ASSUME ~LoneSign
        PROVE  \E a : Maps(s, ex, a) /\ Computed(s, value', data', a[pos' - 1])
    <3>1. PICK a : Maps(s, ex, a)
      BY <1>s, <2>1, <2>2 DEF ComputeInv
    <3>2. pos' - 1 = 0 /\ a[0] = 0
      BY <2>1, <3>1 DEF Maps
    <3>3. Computed(s, value', data', 0)
      BY <2>1, ComputedBegin
    <3> QED
      BY <3>1, <3>2, <3>3
  <2>3. pos' <= Len(ex') + 1
    BY <1>0, <2>1
  <2> QED
    BY <1>0, <1>t, <1>l, <1>s, <1>n, <2>1, <2>2, <2>3 DEF ComputeInv, ComputesMeaning
<1>5. CASE PushOpt \/ Push
  <2>1. /\ pc = "compute" /\ pc' = "compute" /\ pos \in 1 .. Len(ex) /\ pos' = pos + 1
        /\ pos' - 1 = pos /\ UNCHANGED <<ex, value, out>> /\ value \in Values
    BY <1>0, <1>5 DEF PushOpt, Push, ComputeInv
  <2>2. ASSUME ~LoneSign
        PROVE  \E a : Maps(s, ex, a) /\ Computed(s, value, data', a[pos])
    <3>1. PICK a : Maps(s, ex, a) /\ Computed(s, value, data, a[pos - 1])
      BY <1>s, <2>1, <2>2 DEF ComputeInv
    <3>2. /\ a[pos - 1] \in 0 .. Len(s) /\ a[pos] \in 0 .. Len(s) /\ ex[pos] \in Node
          /\ MapsNode(s, ex[pos], a[pos - 1], a[pos])
      BY <1>0, <2>1, <3>1, NodeAt
    <3>3. PICK x \in Node : x = ex[pos]
      BY <3>2
    <3>4. ~Doomed(s)
      BY <1>s, <2>1, <2>2, AcceptedRight
    <3>5. CASE x.type = "kleft"
      <4>1. ~IsOperand(x) /\ x.type # "kright"
        BY <3>5, NodeKinds
      <4>2. data' = Append(data, CNode("kleft"))
        BY <1>5, <3>3, <3>5, <4>1 DEF PushOpt, Push
      <4> QED
        BY <3>1, <3>2, <3>3, <3>4, <3>5, <4>2, Opens
    <3>6. CASE IsFour(x)
      <4>1. ~IsOperand(x) /\ x.type # "kright"
        BY <3>6, NodeKinds
      <4>2. data' = Append(data, CNode(x.type))
        BY <1>5, <3>3, <4>1 DEF PushOpt, Push
      <4> QED
        BY <3>1, <3>2, <3>3, <3>4, <3>6, <4>2, Operates
    <3>7. CASE IsOperand(x)
      <4>1. ~IsFour(x) /\ x.type # "kleft" /\ x.type # "kright"
        BY <3>7, NodeKinds
      <4>2. Push
        BY <1>5, <3>3, <4>1 DEF PushOpt
      <4>3. PICK Q : Q = NumberOf(x, value)
        OBVIOUS
      <4>4. Pushed(data, x, value) = Q /\ Remains(data, x) = data
        BY <3>7, <4>1, <4>3 DEF Pushed, Remains, NumberOf, IsOperand
      <4>5. data' = PushNumber(data, Q) /\ ~PushUndefined(data, Q)
        BY <3>3, <4>2, <4>4 DEF Push, Traps, AfterNumber
      <4>6. Q \in Num
        <5>1. x.v \in Int
          BY DEF Node
        <5>2. x.type = "kname" => x.v \in Fields
          BY <1>0, <1>n, <2>1, <3>3
        <5>3. x.type = "kname" => value[x.v] \in Int
          BY <2>1, <5>2, ExpressionAssumption
        <5> QED
          BY <3>7, <4>3, <5>1, <5>3, IntIsNum DEF NumberOf, IsOperand
      <4> QED
        BY <3>1, <3>2, <3>3, <3>4, <3>7, <4>3, <4>5, <4>6, PushesOperand
    <3>8. CASE x.type = "kright"
      <4>1. ~IsFour(x) /\ x.type # "kleft"
        BY <3>8, NodeKinds
      <4>2. Push
        BY <1>5, <3>3, <4>1 DEF PushOpt
      <4>3. Pushed(data, x, value) = Sum(Within(data)) /\ Remains(data, x) = Below(data)
        BY <3>8 DEF Pushed, Remains
      <4>4. data' = PushNumber(Below(data), Sum(Within(data)))
        BY <3>3, <4>2, <4>3 DEF Push, Traps, AfterNumber
      <4> QED
        BY <3>1, <3>2, <3>3, <3>4, <3>8, <4>4, Closes
    <3> QED
      BY <1>5, <3>3, <3>5, <3>6, <3>7, <3>8 DEF PushOpt, Push
  <2>3. pos' <= Len(ex') + 1
    BY <1>0, <2>1
  <2> QED
    BY <1>0, <1>t, <1>l, <1>s, <1>n, <2>1, <2>2, <2>3 DEF ComputeInv, ComputesMeaning
<1>6. CASE PushTraps
  <2>1. pc' = "undefined" /\ ex' = ex
    BY <1>6 DEF PushTraps
  <2> QED
    BY <1>0, <1>t, <1>n, <2>1 DEF ComputeInv, ComputesMeaning
<1>7. CASE EndCompute
  <2>1. /\ pc = "compute" /\ pc' = "ready" /\ pos > Len(ex) /\ out' = Sum(data)
        /\ UNCHANGED <<ex, value>>
    BY <1>7 DEF EndCompute
  <2>2. ASSUME ~LoneSign
        PROVE  (\E a : Maps(s, ex, a)) /\ \E m \in Meanings(s, value) : out' = m
    <3>1. PICK a : Maps(s, ex, a) /\ Computed(s, value, data, a[pos - 1])
      BY <1>s, <2>1, <2>2 DEF ComputeInv
    <3>2. pos - 1 = Len(ex)
      <4>1. pos <= Len(ex) + 1
        BY <2>1 DEF ComputeInv
      <4> QED
        BY <1>0, <2>1, <4>1
    <3>3. a[pos - 1] = Len(s)
      BY <3>1, <3>2 DEF Maps
    <3>4. ~Doomed(s)
      BY <1>s, <2>1, <2>2, AcceptedRight
    <3> QED
      BY <2>1, <3>1, <3>3, <3>4, ComputedEnd
  <2>3. ComputesMeaning'
    BY <1>t, <1>l, <1>s, <2>1, <2>2 DEF ComputesMeaning, Same
  <2> QED
    BY <1>0, <1>t, <1>l, <1>s, <1>n, <2>1, <2>2, <2>3 DEF ComputeInv
<1>8. CASE UNCHANGED vars
  <2>1. UNCHANGED <<pc, pos, ex, value, data, out>>
    BY <1>8 DEF vars
  <2> QED
    BY <1>t, <1>l, <2>1 DEF ComputeInv, ComputesMeaning
<1> QED
  BY <1>1, <1>2, <1>3, <1>4, <1>5, <1>6, <1>7, <1>8 DEF Next

\* So it always holds.
LEMMA ComputeInvariant == Spec => []ComputeInv
BY InitExpr, NextExpr, InitCheckInv, NextCheckInv, InitComputeInv, NextComputeInv, PTL DEF Spec

\* What the Computer makes of a formula that check_expression accepts, of whatever
\* length and for whatever records one after another, is what the grammar says it
\* means.
THEOREM ResultIsMeaning == Spec => []ComputesMeaning
<1>1. ComputeInv => ComputesMeaning
  BY DEF ComputeInv
<1> QED
  BY <1>1, ComputeInvariant, PTL
=============================================================================
