----------------------------- MODULE Conditions -----------------------------
(***************************************************************************)
(* What logical.cc and the part of record.cc that evaluates conditions do  *)
(* with one node, one comparison or one stack, and what conditions mean.   *)
(* Logical.tla has the loops.  Conditions are given as the nodes that      *)
(* load_expression makes of their text (Formula.tla).                      *)
(*                                                                         *)
(* A string is a place in Texts, whose elements are sequences of character *)
(* codes, in a node of type kchar as in a field of type char.              *)
(***************************************************************************)
EXTENDS Grammar

CONSTANTS
  NumFields,  \* fields_.size(); field ids are 0 .. NumFields - 1
  FieldType,  \* Field::type
  FieldName,  \* Field::name, a place in Texts
  Texts       \* the strings that records, names and conditions hold

Field == 0 .. NumFields - 1
CharField == {f \in Field : FieldType[f] = "kchar"}
DoubleField == {f \in Field : FieldType[f] \in {"kfloat", "kdouble"}}
NumField == Field \ CharField

\* A record: a number or a string for each field.
Row == {r \in [Field -> Int] : \A f \in CharField : r[f] \in DOMAIN Texts}

\* A condition that was read: the texts in it are strings, and a sign is an operator
\* where load_expression makes one of it.
Condition ==
  {c \in Seq(Node) : \A i \in DOMAIN c :
     /\ c[i].type = "kchar" => c[i].v \in DOMAIN Texts
     /\ c[i].type = "ksub" => IsMinus(SubSeq(c, 1, i - 1))}

ASSUME ConditionAssumption ==
  /\ NumFields \in Nat \ {0}
  /\ FieldType \in [Field -> {"kint1", "kint2", "kint4", "kint8", "kfloat", "kdouble", "kchar"}]
  /\ FieldName \in [Field -> DOMAIN Texts]
  /\ Texts \in Seq(Seq(Nat))

CompareTypes == {"keq", "kgt", "kge", "klt", "kle", "kne"}
LikeTypes == {"klike", "knlike"}
Joins == {"kand", "kor"}
IsComparison(x) == x.type \in CompareTypes \cup LikeTypes

-----------------------------------------------------------------------------
(* The parts of a Logical, and where the expressions around a comparison end. *)

LogicalNode(x, l, r) == [type |-> x.type, left |-> l, right |-> r]
Convert(x) == LogicalNode(x, <<>>, <<>>)
Converted(s) == [i \in DOMAIN s |-> Convert(s[i])]

\* Brackets opened and closed in a part of a condition.
Count(s, t) == Cardinality({i \in DOMAIN s : s[i].type = t})
Balanced(s) == Count(s, "kleft") = Count(s, "kright")
Open(s) == Count(s, "kleft") - Count(s, "kright")

\* make_left_expression: the last node of s that ends the expression before a
\* comparison, or 0; the mutation takes no account of brackets.
LeftEndFlat(s) == SelectLastInSeq(s, LAMBDA x : x.type \in Joins \cup {"kleft"})
LeftEnd(s) ==
  LET ends == {i \in DOMAIN s :
        \/ s[i].type \in Joins
        \/ s[i].type = "kleft" /\ Balanced(SubSeq(s, i + 1, Len(s)))}
  IN IF ends = {} THEN 0 ELSE Max(ends)

-----------------------------------------------------------------------------
(* check_logical, then change_fname_to_fid. *)

IsOne(s, t) == Len(s) = 1 /\ s[1].type = t

ComparisonFits(x) ==
  LET ofString == IsOne(x.left, "kname") /\ IsOne(x.right, "kchar") IN
  \/ ofString
  \/ x.type \in CompareTypes /\ CheckExpression(x.left) /\ CheckExpression(x.right)

NodeFits(s, x) ==
  \/ x.type = "kleft"
  \/ x.type = "kright" /\ Len(s) >= 2 /\ Top(s, 2) = <<"left", "expr">>
  \/ x.type \in Joins /\ IsTop(s, "expr")
  \/ IsComparison(x) /\ ComparisonFits(x)

\* push_expr.
PushExpr(s) ==
  Append(IF Len(s) > 1 /\ Top(s, 2) = <<"expr", "opt">> THEN Popped(s, 2) ELSE s, "expr")

Merged(s) == IF IsTop(s, "opt") THEN Popped(s, 2) ELSE s

NodeChecked(s, x) ==
  CASE x.type = "kleft" -> Append(s, "left")
    [] x.type = "kright" -> PushExpr(Popped(s, 2))
    [] x.type \in Joins -> Append(s, "opt")
    [] OTHER -> PushExpr(Merged(s))

\* expression_type.  Brackets and operators have no type of their own.
OfField(e, fields) == {i \in DOMAIN e : e[i].type = "kname" /\ e[i].v \in fields}
OfType(e, t) == {i \in DOMAIN e : e[i].type = t}
Chars(e) == OfType(e, "kchar") \cup OfField(e, CharField)
Numbers(e) == OfType(e, "kint8") \cup OfField(e, NumField)
KnowsFields(e) == OfType(e, "kname") = OfField(e, Field)
IsString(e) == KnowsFields(e) /\ Chars(e) # {} /\ Numbers(e) = {}
IsNumber(e) == KnowsFields(e) /\ Chars(e) = {} /\ Numbers(e) # {}

Typed(x) ==
  IsComparison(x) =>
    \/ IsString(x.left) /\ IsString(x.right) /\ Len(x.left) = 1 /\ Len(x.right) = 1
    \/ x.type \in CompareTypes /\ IsNumber(x.left) /\ IsNumber(x.right)

\* LogicalNode::extype.
ExType(x) ==
  IF Chars(x.left) # {} THEN "kchar"
  ELSE IF OfField(x.left \o x.right, DoubleField) # {} THEN "kdouble" ELSE "kint8"

-----------------------------------------------------------------------------
(* What one comparison yields for a record. *)

\* -1, 0 or 1: the order of two numbers, and of two strings.
Sign(n) == IF n < 0 THEN -1 ELSE IF n > 0 THEN 1 ELSE 0
OrderOfNumbers(a, b) == Sign(a[1] * b[2] - b[1] * a[2])
OrderOfStrings(s, t) ==
  LET differ == {i \in 1 .. Min({Len(s), Len(t)}) : s[i] # t[i]}
  IN IF differ = {} THEN Sign(Len(s) - Len(t))
     ELSE LET i == Min(differ) IN Sign(s[i] - t[i])

Answers(type, order) ==
  CASE type = "keq" -> order = 0  [] type = "kne" -> order # 0
    [] type = "kgt" -> order > 0  [] type = "kge" -> order >= 0
    [] type = "klt" -> order < 0  [] type = "kle" -> order <= 0

\* Node::vs: the characters of a constant, or of the name of a field.
Vs(x) == IF x.type = "kname" THEN Texts[FieldName[x.v]] ELSE Texts[x.v]

\* LIKE, with what load_logical makes of ^ and $ around its right side.
Caret == 94
Dollar == 36
LikeEnd(s) == s # <<>> /\ Last(s) = Dollar
Unended(s) == IF LikeEnd(s) THEN Front(s) ELSE s
LikeStart(s) == Unended(s) # <<>> /\ Head(Unended(s)) = Caret
Body(s) == IF LikeStart(s) THEN Tail(Unended(s)) ELSE Unended(s)

Likes(v, s) ==
  CASE LikeStart(s) /\ LikeEnd(s) -> v = Body(s)
    [] LikeStart(s) /\ ~LikeEnd(s) -> IsPrefix(Body(s), v)
    [] ~LikeStart(s) /\ LikeEnd(s) -> IsSuffix(Body(s), v)
    [] OTHER -> Body(s) \in SubSeqs(v)

Cast(n) == Int2Num(Truncated(n))

\* C++ compares NaN with nothing, and leaves its conversion to an integer undefined.
Compared(type, a, b) ==
  IF IsNaN(a) \/ IsNaN(b) THEN type = "kne" ELSE Answers(type, OrderOfNumbers(a, b))
Undefined(x, row) ==
  /\ x.type \in CompareTypes /\ ExType(x) # "kchar"
  /\ \E e \in {x.left, x.right} :
       \/ Computing(e, row) = Trapped
       \/ ExType(x) = "kint8" /\ IsNaN(Compute(e, row))

\* The string at the left is a field's, the one at the right what the condition
\* says; numbers that are all integers are compared as int64_t.
Holds(x, row) ==
  LET v == Texts[row[x.left[1].v]]
      l == Compute(x.left, row)
      r == Compute(x.right, row)
  IN
  CASE x.type \in LikeTypes -> Likes(v, Vs(x.right[1])) = (x.type = "klike")
    [] x.type \in CompareTypes /\ ExType(x) = "kchar" ->
         Answers(x.type, OrderOfStrings(v, Vs(x.right[1])))
    [] x.type \in CompareTypes /\ ExType(x) = "kint8" ->
         Compared(x.type, Cast(l), Cast(r))
    [] OTHER -> Compared(x.type, l, r)

-----------------------------------------------------------------------------
(* The stack of compute_logical. *)

Truth(b) == IF b THEN "T" ELSE "F"
Joined(j, l, r) == Truth(IF j = "A" THEN l = "T" /\ r = "T" ELSE l = "T" \/ r = "T")

\* put_stack: joins c with what waits for it, as long as something does.  The
\* mutations take the right operand alone, and leave the joining for later.
PutRight(s, c) == Append(Merged(s), c)
PutUnjoined(s, c) == Append(s, c)
PutStack(s, c) ==
  LET put[n \in 0 .. Len(s)] ==
        [r \in {"T", "F"} |->
           IF n = 0 \/ s[n] \notin {"A", "O"}
           THEN Append(SubSeq(s, 1, n), r)
           ELSE put[n - 2][Joined(s[n], s[n - 1], r)]]
  IN put[Len(s)][c]

Char(x) == CASE x.type = "kleft" -> "(" [] x.type = "kand" -> "A" [] x.type = "kor" -> "O"

\* What check_logical has on its stack where compute_logical has c.
Kind(c) == CASE c = "(" -> "left" [] c \in {"A", "O"} -> "opt" [] OTHER -> "expr"

-----------------------------------------------------------------------------
(* What conditions mean. *)

\* What a comparison means: a text that is LIKE a pattern has it somewhere in it, at
\* its beginning if the pattern begins with ^, at its end if the pattern ends with $;
\* numbers without a double among them are compared as integers.
Matches(v, s) ==
  LET b == IF s # <<>> /\ Head(s) = Caret THEN <<Caret>> ELSE <<>>
      e == IF s # <<>> /\ Last(s) = Dollar THEN <<Dollar>> ELSE <<>>
  IN \E i \in 1 .. Len(v) + 1, j \in 0 .. Len(v) :
       /\ i <= j + 1 /\ s = b \o SubSeq(v, i, j) \o e
       /\ (b # <<>> => i = 1) /\ (e # <<>> => j = Len(v))

AsText(e) == [i \in DOMAIN e |-> IF e[i].type = "ksub" THEN Token("minus") ELSE e[i]]
Number1(e, row) == CHOOSE n \in Meanings(AsText(e), row) : TRUE

\* A departure: a string field at the right stands for its name.
Stands(x, row) == Vs(x)

Means(x, row) ==
  LET v == Texts[row[x.left[1].v]]
      t == Stands(x.right[1], row)
      l == Number1(x.left, row)
      r == Number1(x.right, row)
      whole == OfField(x.left \o x.right, DoubleField) = {}
  IN
  CASE x.type = "klike" -> Matches(v, t)
    [] x.type = "knlike" -> ~Matches(v, t)
    [] x.type \in CompareTypes /\ IsString(x.left) -> Answers(x.type, OrderOfStrings(v, t))
    [] OTHER ->
         IF IsNaN(l) \/ IsNaN(r) THEN x.type = "kne"
         ELSE Answers(x.type, IF whole THEN Sign(Truncated(l) - Truncated(r))
                                       ELSE OrderOfNumbers(l, r))

\* The grammar of logical.h: comparisons, joined from the left by AND and OR
\* without precedence, and brackets.  Readings are those of Grammar.tla, with a
\* truth in place of a number: comparisons and brackets are of level 0.
Comparison(c, i, k, j) == LogicalNode(c[k], SubSeq(c, i, k - 1), SubSeq(c, k + 1, j))
IsOneAt(c, i, k, j) == LET x == Comparison(c, i, k, j) IN ComparisonFits(x) /\ Typed(x)
Comparisons(c, row) ==
  UNION {UNION {{Reading(0, i, j, Means(Comparison(c, i, k, j), row)) :
      j \in {j \in k .. Len(c) : IsOneAt(c, i, k, j)}} :
    i \in 1 .. k} :
  k \in {k \in DOMAIN c : IsComparison(c[k])}}

Join(type, a, b) == IF type = "kand" THEN a /\ b ELSE a \/ b
Beyond(c, readings) ==
  {Reading(1, r.from, r.to, r.number) : r \in {r \in readings : r.level = 0}} \cup
  {Reading(0, r.from - 1, r.to + 1, r.number) : r \in {r \in readings :
     /\ r.level = 1 /\ r.from > 1 /\ r.to < Len(c)
     /\ c[r.from - 1].type = "kleft" /\ c[r.to + 1].type = "kright"}} \cup
  UNION {
    {Reading(1, l.from, r.to, Join(c[l.to + 1].type, l.number, r.number)) :
       r \in {r \in readings :
         r.level = 0 /\ r.from = l.to + 2 /\ c[l.to + 1].type \in Joins}} :
      l \in {l \in readings : l.level = 1}}

\* What condition c may yield for a record: nothing if it is malformed.
Truths(c, row) ==
  LET read[n \in 0 .. 3 * Len(c)] ==
        IF n = 0 THEN Comparisons(c, row)
        ELSE LET readings == read[n - 1] IN readings \cup Beyond(c, readings)
      whole == {r \in read[3 * Len(c)] : r.level = 1 /\ r.from = 1 /\ r.to = Len(c)}
  IN {r.number : r \in whole}

AnyRow == [f \in Field |-> 1]
InGrammar(c) == Truths(c, AnyRow) # {}
=============================================================================
