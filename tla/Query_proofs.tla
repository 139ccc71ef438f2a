---------------------------- MODULE Query_proofs ----------------------------
(***************************************************************************)
(* Proofs about conditions and queries, for conditions and requests of any *)
(* length.                                                                 *)
(*                                                                         *)
(* compute_logical, which pops and joins as it goes, and check_logical,    *)
(* which only replaces marks, hold stacks of one shape at the same node;   *)
(* so what the check has let pass is all that the pops of the evaluation   *)
(* rely on, and the depth of a condition bounds its stack.  What the stack *)
(* holds in the end is the reading that the grammar gives the condition.   *)
(*                                                                         *)
(* What a request does to rows is said with Picking: the rows kept are     *)
(* those at the places of a set, in their order, a sequence of which there *)
(* is one only.                                                            *)
(***************************************************************************)
EXTENDS Query, Grammar_proofs

-----------------------------------------------------------------------------
(* The evaluation of a part of a condition. *)

\* Something waits to be joined.
Waits(s) == Len(s) # 0 /\ s[Len(s)] \in {"A", "O"}

\* put_stack joins once at most.
LEMMA PutStackIs ==
  ASSUME NEW s \in Seq(Code), Formed(Kinds(s)), NEW c \in Two
  PROVE  /\ ~Waits(s) => PutStack(s, c) = Append(s, c)
         /\ Waits(s) => PutStack(s, c) =
              Append(SubSeq(s, 1, Len(s) - 2), Joined(s[Len(s)], s[Len(s) - 1], c))
<1>1. PICK g : Put(s, g) /\ PutStack(s, c) = g[Len(s)][c]
  BY PutExists, PutStackIsPut
<1>2. PICK n \in Nat : n = Len(s)
  OBVIOUS
<1>3. n \in 0 .. Len(s)
  BY <1>2
<1>4. g[n][c] = IF n = 0 \/ s[n] \notin {"A", "O"} THEN Append(SubSeq(s, 1, n), c)
                ELSE g[n - 2][Joined(s[n], s[n - 1], c)]
  BY <1>1, <1>3, PutAt
<1>5. CASE ~Waits(s)
  <2>1. SubSeq(s, 1, n) = s
    BY <1>2
  <2> QED
    BY <1>1, <1>2, <1>4, <1>5, <2>1 DEF Waits
<1>6. CASE Waits(s)
  <2>1. n # 0 /\ s[n] \in {"A", "O"}
    BY <1>2, <1>6 DEF Waits
  <2>2. PICK d : d = Joined(s[n], s[n - 1], c)
    OBVIOUS
  <2>3. n - 2 \in 0 .. Len(s) /\ (n - 2 = 0 \/ s[n - 2] \notin {"A", "O"}) /\ d \in Two
    BY <1>3, <2>1, <2>2, JoinPlace
  <2>4. PICK k \in 0 .. Len(s) : k = n - 2
    BY <2>3
  <2>5. g[k][d] = IF k = 0 \/ s[k] \notin {"A", "O"} THEN Append(SubSeq(s, 1, k), d)
                  ELSE g[k - 2][Joined(s[k], s[k - 1], d)]
    BY <1>1, <2>3, PutAt
  <2>6. g[n][c] = Append(SubSeq(s, 1, k), d)
    BY <1>4, <2>1, <2>2, <2>3, <2>4, <2>5
  <2> QED
    BY <1>1, <1>2, <1>6, <2>2, <2>4, <2>6
<1> QED
  BY <1>5, <1>6

\* The result of a comparison.
TruthOf(x, row) == Truth(Means(x, row))

\* A truth is one of two characters.
LEMMA TruthIsTwo ==
  ASSUME NEW b
  PROVE  Truth(b) \in Two
BY DEF Truth, Two

\* The characters of the stack, one sequence for each node from o to q.
Run(l, row, w, o, q) ==
  \A m \in o + 1 .. q : /\ NodeFits(Kinds(w[m - 1]), l[m])
                        /\ w[m] = Told(w[m - 1], l[m], TruthOf(l[m], row))

\* The nodes behind o up to q turn the stack s into t.
Good(s) == s \in Seq(Code) /\ Formed(Kinds(s))
Runs(l, row, o, q, s, t) ==
  Good(s) /\ Good(t) /\ \E w : w = [m \in o .. q |-> w[m]] /\ Run(l, row, w, o, q) /\ w[o] = s /\ w[q] = t

\* A node turns a stack of characters into another.
LEMMA GoodTold ==
  ASSUME NEW s, Good(s), NEW x, NodeFits(Kinds(s), x), NEW t \in Two
  PROVE  Good(Told(s, x, t))
<1>1. s \in Seq(Code) /\ Formed(Kinds(s)) /\ Kinds(s) \in Seq(Mark)
  BY KindsShape DEF Good
<1>2. Told(s, x, t) \in Seq(Code) /\ Kinds(Told(s, x, t)) = NodeChecked(Kinds(s), x)
  BY <1>1, ToldShape
<1>3. Formed(NodeChecked(Kinds(s), x))
  BY <1>1, StepShape
<1> QED
  BY <1>2, <1>3 DEF Good

\* One node.
LEMMA RunOne ==
  ASSUME NEW l, NEW row, NEW o \in Nat, NEW s, Good(s), NodeFits(Kinds(s), l[o + 1])
  PROVE  Runs(l, row, o, o + 1, s, Told(s, l[o + 1], TruthOf(l[o + 1], row)))
<1>1. PICK t : t = Told(s, l[o + 1], TruthOf(l[o + 1], row))
  OBVIOUS
<1>2. Good(t)
  BY <1>1, TruthIsTwo, GoodTold DEF TruthOf
<1> DEFINE w == [m \in o .. o + 1 |-> IF m = o THEN s ELSE t]
<1>3. w[o] = s /\ w[o + 1] = t /\ w = [m \in o .. o + 1 |-> w[m]]
  OBVIOUS
<1> HIDE DEF w
<1>4. \A m \in o + 1 .. o + 1 : m = o + 1 /\ m - 1 = o
  OBVIOUS
<1>5. Run(l, row, w, o, o + 1)
  BY <1>1, <1>3, <1>4 DEF Run
<1> QED
  BY <1>1, <1>2, <1>3, <1>5 DEF Runs

\* One part after another.
LEMMA RunCat ==
  ASSUME NEW l, NEW row, NEW o \in Nat, NEW m \in Nat, NEW q \in Nat, o <= m, m <= q,
         NEW s, NEW t, NEW u, Runs(l, row, o, m, s, t), Runs(l, row, m, q, t, u)
  PROVE  Runs(l, row, o, q, s, u)
<1>1. PICK v : Run(l, row, v, o, m) /\ v[o] = s /\ v[m] = t
  BY DEF Runs
<1>2. PICK w : Run(l, row, w, m, q) /\ w[m] = t /\ w[q] = u
  BY DEF Runs
<1> DEFINE z == [n \in o .. q |-> IF n <= m THEN v[n] ELSE w[n]]
<1>3. \A n \in o .. q : z[n] = IF n <= m THEN v[n] ELSE w[n]
  OBVIOUS
<1>4. z = [n \in o .. q |-> z[n]]
  OBVIOUS
<1> HIDE DEF z
<1>5. z[o] = s /\ z[m] = t /\ z[q] = u
  <2>1. o \in o .. q /\ m \in o .. q /\ q \in o .. q /\ o <= m /\ (q <= m => q = m)
    OBVIOUS
  <2> QED
    BY <1>1, <1>2, <1>3, <2>1
<1>6. ASSUME NEW n \in o + 1 .. q
      PROVE  NodeFits(Kinds(z[n - 1]), l[n]) /\ z[n] = Told(z[n - 1], l[n], TruthOf(l[n], row))
  <2>1. CASE n <= m
    <3>1. n \in o + 1 .. m /\ n - 1 \in o .. q /\ n - 1 <= m /\ n \in o .. q
      BY <2>1
    <3>2. z[n - 1] = v[n - 1] /\ z[n] = v[n]
      BY <1>3, <2>1, <3>1
    <3> QED
      BY <1>1, <3>1, <3>2 DEF Run
  <2>2. CASE ~(n <= m)
    <3>1. n \in m + 1 .. q /\ n - 1 \in o .. q /\ n \in o .. q /\ (n - 1 <= m => n - 1 = m)
      BY <2>2
    <3>2. z[n] = w[n]
      BY <1>3, <2>2, <3>1
    <3>3. z[n - 1] = w[n - 1]
      <4>1. CASE n - 1 <= m
        BY <1>2, <1>5, <3>1, <4>1
      <4>2. CASE ~(n - 1 <= m)
        BY <1>3, <3>1, <4>2
      <4> QED
        BY <4>1, <4>2
    <3> QED
      BY <1>2, <3>1, <3>2, <3>3 DEF Run
  <2> QED
    BY <2>1, <2>2
<1>7. Run(l, row, z, o, q)
  BY <1>6 DEF Run
<1> QED
  BY <1>4, <1>5, <1>7 DEF Runs

\* What a part makes of a stack: with what waits there, and where nothing waits.
Operates0(l, row, o, q, b) ==
  \A s : Good(s) => Runs(l, row, o, q, s, PutStack(s, Truth(b)))
Starting(s) == Len(s) = 0 \/ s[Len(s)] = "("
Operates1(l, row, o, q, b) ==
  \A s : Good(s) /\ Starting(s) => Runs(l, row, o, q, s, Append(s, Truth(b)))

\* A stack with one character more.
LEMMA CodeAppend ==
  ASSUME NEW s, Good(s), NEW c \in Code
  PROVE  /\ Append(s, c) \in Seq(Code) /\ Len(Append(s, c)) = Len(s) + 1 /\ Len(s) \in Nat
         /\ Append(s, c)[Len(s) + 1] = c /\ \A i \in 1 .. Len(s) : Append(s, c)[i] = s[i]
         /\ Popped(Append(s, c), 1) = s
<1>1. s \in Seq(Code)
  BY DEF Good
<1>2. PICK n \in Nat : n = Len(s)
  BY <1>1
<1>3. /\ Append(s, c) \in Seq(Code) /\ Len(Append(s, c)) = n + 1
      /\ Append(s, c)[n + 1] = c /\ \A i \in 1 .. n : Append(s, c)[i] = s[i]
  BY <1>1, <1>2, AppendProperties
<1>4. SubSeq(Append(s, c), 1, n) = s
  BY <1>1, <1>2
<1>5. (n + 1) - 1 = n
  OBVIOUS
<1> QED
  BY <1>2, <1>3, <1>4, <1>5 DEF Popped

\* A comparison.
LEMMA ComparisonRuns ==
  ASSUME NEW l, NEW row, NEW o \in Nat, IsComparison(l[o + 1]), ComparisonFits(l[o + 1])
  PROVE  Operates0(l, row, o, o + 1, Means(l[o + 1], row))
<1> SUFFICES ASSUME NEW s, Good(s)
             PROVE  Runs(l, row, o, o + 1, s, PutStack(s, TruthOf(l[o + 1], row)))
  BY DEF Operates0, TruthOf
<1>1. NodeFits(Kinds(s), l[o + 1])
  BY DEF NodeFits
<1>2. Told(s, l[o + 1], TruthOf(l[o + 1], row)) = PutStack(s, TruthOf(l[o + 1], row))
  BY DEF Told, IsComparison, CompareTypes, LikeTypes, Joins
<1> QED
  BY <1>1, <1>2, RunOne

\* Where nothing waits.
LEMMA RaisedRuns ==
  ASSUME NEW l, NEW row, NEW o, NEW q, NEW b, Operates0(l, row, o, q, b)
  PROVE  Operates1(l, row, o, q, b)
<1> SUFFICES ASSUME NEW s, Good(s), Starting(s)
             PROVE  Runs(l, row, o, q, s, Append(s, Truth(b)))
  BY DEF Operates1
<1>1. ~Waits(s)
  BY DEF Starting, Waits
<1>2. PutStack(s, Truth(b)) = Append(s, Truth(b))
  BY <1>1, TruthIsTwo, PutStackIs DEF Good
<1> QED
  BY <1>2 DEF Operates0

\* In brackets.
LEMMA BracketRuns ==
  ASSUME NEW l, NEW row, NEW o \in Nat, NEW q \in Nat, o + 1 <= q, NEW b,
         Operates1(l, row, o + 1, q, b), l[o + 1].type = "kleft", l[q + 1].type = "kright"
  PROVE  Operates0(l, row, o, q + 1, b)
<1> SUFFICES ASSUME NEW s, Good(s)
             PROVE  Runs(l, row, o, q + 1, s, PutStack(s, Truth(b)))
  BY DEF Operates0
<1>1. NodeFits(Kinds(s), l[o + 1])
  BY DEF NodeFits
<1>2. Told(s, l[o + 1], TruthOf(l[o + 1], row)) = Append(s, "(")
  BY DEF Told, Char
<1>3. Runs(l, row, o, o + 1, s, Append(s, "("))
  BY <1>1, <1>2, RunOne
<1>4. PICK u : u = Append(s, "(")
  OBVIOUS
<1>5. Good(u)
  BY <1>3, <1>4 DEF Runs
<1>6. "(" \in Code /\ Truth(b) \in Code /\ Truth(b) \in Two
  BY TruthIsTwo DEF Code, Two
<1>7. PICK n \in Nat : n = Len(s) /\ Len(u) = n + 1 /\ u[n + 1] = "(" /\ \A i \in 1 .. n : u[i] = s[i]
  BY <1>4, <1>6, CodeAppend
<1>8. Starting(u)
  BY <1>7 DEF Starting
<1>9. Runs(l, row, o + 1, q, u, Append(u, Truth(b)))
  BY <1>5, <1>8 DEF Operates1
<1>10. PICK v : v = Append(u, Truth(b))
  OBVIOUS
<1>11. Good(v)
  BY <1>9, <1>10 DEF Runs
<1>12. /\ v \in Seq(Code) /\ Len(v) = n + 2 /\ v[n + 2] = Truth(b) /\ v[n + 1] = "("
       /\ \A i \in 1 .. n : v[i] = s[i]
  <2>1. /\ v \in Seq(Code) /\ Len(v) = (n + 1) + 1 /\ v[(n + 1) + 1] = Truth(b)
        /\ \A i \in 1 .. n + 1 : v[i] = u[i]
    BY <1>5, <1>6, <1>7, <1>10, CodeAppend
  <2>2. (n + 1) + 1 = n + 2 /\ \A i \in 1 .. n : i \in 1 .. n + 1
    OBVIOUS
  <2> QED
    BY <1>7, <2>1, <2>2
<1>13. Popped(v, 2) = s /\ Last(v) = Truth(b)
  <2>1. (n + 2) - 2 = n
    OBVIOUS
  <2>2. s \in Seq(Code)
    BY DEF Good
  <2>3. SubSeq(v, 1, n) = s
    <3>1. SubSeq(v, 1, n) \in Seq(Code) /\ Len(SubSeq(v, 1, n)) = n
          /\ \A i \in 1 .. n : SubSeq(v, 1, n)[i] = v[i]
      BY <1>12
    <3>2. PICK z \in Seq(Code) : z = SubSeq(v, 1, n) /\ Len(z) = n /\ \A i \in 1 .. n : z[i] = v[i]
      BY <3>1
    <3>3. Len(z) = Len(s) /\ \A i \in 1 .. Len(z) : z[i] = s[i]
      BY <1>7, <1>12, <3>2
    <3>4. z = s
      BY <2>2, <3>3, SeqEqual
    <3> QED
      BY <3>2, <3>4
  <2> QED
    BY <1>12, <2>1, <2>3 DEF Popped, Last
<1>14. NodeFits(Kinds(v), l[q + 1])
  <2>1. /\ Kinds(v) \in Seq(Mark) /\ Len(Kinds(v)) = n + 2
        /\ Kinds(v)[n + 1] = "left" /\ Kinds(v)[n + 2] = "expr"
    <3>1. /\ Kinds(v) \in Seq(Mark) /\ Len(Kinds(v)) = n + 2
          /\ \A i \in 1 .. n + 2 : Kinds(v)[i] = Kind(v[i])
      BY <1>12, KindsShape
    <3>2. Kind("(") = "left" /\ Kind(Truth(b)) = "expr"
      BY <1>6 DEF Kind, Two
    <3> QED
      BY <1>12, <3>1, <3>2
  <2>2. Top(Kinds(v), 2) = <<Kinds(v)[Len(Kinds(v)) - 1], Kinds(v)[Len(Kinds(v))]>>
    BY <2>1, PopTwo
  <2>3. (n + 2) - 1 = n + 1
    OBVIOUS
  <2>4. Top(Kinds(v), 2) = <<"left", "expr">>
    BY <2>1, <2>2, <2>3
  <2> QED
    BY <2>1, <2>4 DEF NodeFits
<1>15. Told(v, l[q + 1], TruthOf(l[q + 1], row)) = PutStack(s, Truth(b))
  BY <1>13 DEF Told, Joins
<1>16. Runs(l, row, q, q + 1, v, PutStack(s, Truth(b)))
  BY <1>11, <1>14, <1>15, RunOne
<1>17. Runs(l, row, o, q, s, v)
  BY <1>3, <1>4, <1>9, <1>10, RunCat
<1> QED
  BY <1>16, <1>17, RunCat

\* Two parts joined.
LEMMA JoinRuns ==
  ASSUME NEW l, NEW row, NEW o \in Nat, NEW m \in Nat, NEW q \in Nat, o <= m, m + 1 <= q,
         NEW a, NEW b, Operates1(l, row, o, m, a), l[m + 1].type \in Joins,
         Operates0(l, row, m + 1, q, b)
  PROVE  Operates1(l, row, o, q, Join(l[m + 1].type, a, b))
<1>1. PICK y : y = Join(l[m + 1].type, a, b)
  OBVIOUS
<1> SUFFICES ASSUME NEW s, Good(s), Starting(s)
             PROVE  Runs(l, row, o, q, s, Append(s, Truth(y)))
  BY <1>1 DEF Operates1
<1>2. PICK u : u = Append(s, Truth(a))
  OBVIOUS
<1>3. Runs(l, row, o, m, s, u)
  BY <1>2 DEF Operates1
<1>4. Good(u)
  BY <1>3 DEF Runs
<1>5. Truth(a) \in Code /\ Truth(a) \in Two /\ Truth(b) \in Two
  BY TruthIsTwo DEF Code, Two
<1>6. PICK n \in Nat : n = Len(s) /\ Len(u) = n + 1 /\ u[n + 1] = Truth(a) /\ \A i \in 1 .. n : u[i] = s[i]
  BY <1>2, <1>5, CodeAppend
<1>7. NodeFits(Kinds(u), l[m + 1])
  <2>1. /\ Kinds(u) \in Seq(Mark) /\ Len(Kinds(u)) = n + 1
        /\ \A i \in 1 .. n + 1 : Kinds(u)[i] = Kind(u[i])
    BY <1>4, <1>6, KindsShape DEF Good
  <2>2. Kind(Truth(a)) = "expr"
    BY <1>5 DEF Kind, Two
  <2>3. Kinds(u) # <<>> /\ Last(Kinds(u)) = "expr"
    BY <1>6, <2>1, <2>2 DEF Last
  <2> QED
    BY <2>3 DEF NodeFits, IsTop
<1>8. PICK c : c = Char(l[m + 1])
  OBVIOUS
<1>9. c \in {"A", "O"} /\ c \in Code /\ (c = "A" <=> l[m + 1].type = "kand")
  BY <1>8 DEF Char, Joins, Code
<1>10. Told(u, l[m + 1], TruthOf(l[m + 1], row)) = Append(u, c)
  <2>1. l[m + 1].type \in Joins \cup {"kleft"} /\ l[m + 1].type # "kright"
    BY DEF Joins
  <2> QED
    BY <1>8, <2>1 DEF Told
<1>11. PICK v : v = Append(u, c)
  OBVIOUS
<1>12. Runs(l, row, m, m + 1, u, v)
  BY <1>4, <1>7, <1>10, <1>11, RunOne
<1>13. Good(v)
  BY <1>12 DEF Runs
<1>14. /\ v \in Seq(Code) /\ Len(v) = n + 2 /\ v[n + 2] = c /\ v[n + 1] = Truth(a)
       /\ \A i \in 1 .. n : v[i] = s[i]
  <2>1. /\ v \in Seq(Code) /\ Len(v) = (n + 1) + 1 /\ v[(n + 1) + 1] = c
        /\ \A i \in 1 .. n + 1 : v[i] = u[i]
    BY <1>4, <1>6, <1>9, <1>11, CodeAppend
  <2>2. (n + 1) + 1 = n + 2 /\ \A i \in 1 .. n : i \in 1 .. n + 1
    OBVIOUS
  <2> QED
    BY <1>6, <2>1, <2>2
<1>15. Runs(l, row, m + 1, q, v, PutStack(v, Truth(b)))
  BY <1>13 DEF Operates0
<1>16. PutStack(v, Truth(b)) = Append(s, Truth(y))
  <2>1. Waits(v)
    BY <1>9, <1>14 DEF Waits
  <2>2. PutStack(v, Truth(b)) = Append(SubSeq(v, 1, Len(v) - 2), Joined(v[Len(v)], v[Len(v) - 1], Truth(b)))
    BY <1>5, <1>13, <2>1, PutStackIs DEF Good
  <2>3. (n + 2) - 2 = n /\ (n + 2) - 1 = n + 1
    OBVIOUS
  <2>4. PutStack(v, Truth(b)) = Append(SubSeq(v, 1, n), Joined(c, Truth(a), Truth(b)))
    BY <1>14, <2>2, <2>3
  <2>5. SubSeq(v, 1, n) = s
    <3>1. SubSeq(v, 1, n) \in Seq(Code) /\ Len(SubSeq(v, 1, n)) = n
          /\ \A i \in 1 .. n : SubSeq(v, 1, n)[i] = v[i]
      BY <1>14
    <3>2. PICK z \in Seq(Code) : z = SubSeq(v, 1, n) /\ Len(z) = n /\ \A i \in 1 .. n : z[i] = v[i]
      BY <3>1
    <3>3. s \in Seq(Code) /\ Len(z) = Len(s) /\ \A i \in 1 .. Len(z) : z[i] = s[i]
      BY <1>6, <1>14, <3>2 DEF Good
    <3>4. z = s
      BY <3>3, SeqEqual
    <3> QED
      BY <3>2, <3>4
  <2>6. Joined(c, Truth(a), Truth(b)) = Truth(y)
    <3>1. \A d : Truth(d) = "T" <=> d
      BY DEF Truth
    <3>2. CASE c = "A"
      BY <1>1, <1>9, <3>1, <3>2 DEF Joined, Join, Truth
    <3>3. CASE c = "O"
      BY <1>1, <1>9, <3>1, <3>3 DEF Joined, Join, Truth
    <3> QED
      BY <1>9, <3>2, <3>3
  <2> QED
    BY <2>4, <2>5, <2>6
<1>17. Runs(l, row, o, m + 1, s, v)
  BY <1>3, <1>12, RunCat
<1> QED
  BY <1>15, <1>16, <1>17, RunCat

-----------------------------------------------------------------------------
(* Where the readings of a condition are in what load_logical makes of it. *)

\* l is all of condition c, and its comparisons are cut out of it.
Sliced(c, l, b) == Cover(c, l, b) /\ b[Len(l)] = Len(c) /\ Cuts(c)

\* No part is empty.
LEMMA CoverRises ==
  ASSUME NEW c \in Seq(Node), NEW l \in Seq(Part), NEW b, Cover(c, l, b),
         NEW m \in 0 .. Len(l), NEW n \in 0 .. Len(l), m < n
  PROVE  b[m] < b[n]
<1>1. PICK L \in Nat : L = Len(l)
  OBVIOUS
<1>2. PICK N \in Nat : N = Len(c)
  OBVIOUS
<1>3. b \in [0 .. L -> 0 .. N] /\ \A i \in 1 .. L : b[i - 1] < b[i]
  BY <1>1, <1>2 DEF Cover
<1> DEFINE T == {i \in 0 .. L : m < i => b[m] < b[i]}
<1>4. 0 \in T
  OBVIOUS
<1>5. ASSUME NEW i \in 0 .. L - 1, i \in T
      PROVE  i + 1 \in T
  <2>1. i + 1 \in 1 .. L /\ (i + 1) - 1 = i /\ i \in 0 .. L /\ i + 1 \in 0 .. L /\ m \in 0 .. L
    BY <1>1
  <2>2. b[i] < b[i + 1] /\ b[i] \in Nat /\ b[i + 1] \in Nat /\ b[m] \in Nat
    BY <1>3, <2>1
  <2>3. m < i + 1 => m = i \/ m < i
    BY <2>1
  <2> QED
    BY <1>5, <2>1, <2>2, <2>3
<1> HIDE DEF T
<1>6. \A i \in 0 .. L : i \in T
  BY <1>4, <1>5, Climb
<1> QED
  BY <1>1, <1>6 DEF T

\* So a place is the end of one part only.
LEMMA CoverOnce ==
  ASSUME NEW c \in Seq(Node), NEW l \in Seq(Part), NEW b, Cover(c, l, b),
         NEW m \in 0 .. Len(l), NEW n \in 0 .. Len(l), b[m] = b[n]
  PROVE  m = n
<1>1. PICK N \in Nat : N = Len(c)
  OBVIOUS
<1>2. b[m] \in 0 .. N /\ b[n] \in 0 .. N
  BY <1>1 DEF Cover
<1>3. ~(m < n) /\ ~(n < m)
  <2>1. m < n => b[m] < b[n]
    BY CoverRises
  <2>2. n < m => b[n] < b[m]
    BY CoverRises
  <2> QED
    BY <1>2, <2>1, <2>2
<1> QED
  BY <1>3

\* Every place is in a part.
LEMMA CoverFinds ==
  ASSUME NEW c \in Seq(Node), NEW l \in Seq(Part), NEW b, Cover(c, l, b), b[Len(l)] = Len(c),
         NEW k \in 1 .. Len(c)
  PROVE  \E m \in 1 .. Len(l) : b[m - 1] < k /\ k <= b[m]
<1>1. PICK L \in Nat : L = Len(l)
  OBVIOUS
<1>2. PICK N \in Nat : N = Len(c)
  OBVIOUS
<1>3. b \in [0 .. L -> 0 .. N] /\ b[0] = 0 /\ b[L] = N
  BY <1>1, <1>2 DEF Cover
<1> DEFINE T == {i \in 0 .. L : b[i] < k}
<1>4. CASE \A i \in 0 .. L - 1 : i \in T => i + 1 \in T
  <2>1. 0 \in T
    BY <1>3
  <2> HIDE DEF T
  <2>2. \A i \in 0 .. L : i \in T
    BY <1>4, <2>1, Climb
  <2>3. b[L] < k
    BY <2>2 DEF T
  <2> QED
    BY <1>2, <1>3, <2>3
<1>5. CASE \E i \in 0 .. L - 1 : i \in T /\ i + 1 \notin T
  <2>1. PICK i \in 0 .. L - 1 : i \in T /\ i + 1 \notin T
    BY <1>5
  <2>2. i + 1 \in 1 .. L /\ (i + 1) - 1 = i /\ i + 1 \in 0 .. L
    OBVIOUS
  <2>3. b[i] < k /\ ~(b[i + 1] < k) /\ b[i + 1] \in Nat
    BY <1>3, <2>1, <2>2
  <2>4. k <= b[i + 1]
    BY <2>3
  <2> QED
    BY <1>1, <2>2, <2>3, <2>4
<1> QED
  BY <1>4, <1>5

\* What is quiet does not end with an opening bracket, or begin with a closing one.
LEMMA QuietEnds ==
  ASSUME NEW c \in Condition, NEW a, NEW e, Quiet(c, a, e)
  PROVE  c[e].type # "kleft" /\ c[a].type # "kright"
<1>0. PICK N \in Nat : N = Len(c) /\ c \in Seq(Node)
  BY DEF Condition
<1>1. a \in 1 .. N /\ e \in a .. N
  BY <1>0 DEF Quiet
<1>2. /\ \A m \in a .. e : Opened(c, m) >= Opened(c, a - 1)
      /\ Opened(c, e) = Opened(c, a - 1)
  BY DEF Quiet
<1>3. e \in 1 .. Len(c) /\ a \in 1 .. Len(c)
  BY <1>0, <1>1
<1>4. /\ Opened(c, e) \in Int /\ Opened(c, e - 1) \in Int
      /\ Opened(c, e) = Opened(c, e - 1) + Delta(c[e].type)
  BY <1>0, <1>3, OpenedStep
<1>5. /\ Opened(c, a) \in Int /\ Opened(c, a - 1) \in Int
      /\ Opened(c, a) = Opened(c, a - 1) + Delta(c[a].type)
  BY <1>0, <1>3, OpenedStep
<1>6. c[e].type # "kleft"
  <2> SUFFICES ASSUME c[e].type = "kleft" PROVE FALSE
    OBVIOUS
  <2>1. Opened(c, e) = Opened(c, e - 1) + 1
    BY <1>4 DEF Delta
  <2>2. CASE e = a
    BY <1>2, <1>4, <2>1, <2>2
  <2>3. CASE e # a
    <3>1. e - 1 \in a .. e
      BY <1>1, <2>3
    <3> QED
      BY <1>2, <1>4, <1>5, <2>1, <3>1
  <2> QED
    BY <2>2, <2>3
<1>7. c[a].type # "kright"
  <2> SUFFICES ASSUME c[a].type = "kright" PROVE FALSE
    OBVIOUS
  <2>1. Opened(c, a) = Opened(c, a - 1) - 1
    BY <1>5 DEF Delta
  <2>2. a \in a .. e
    BY <1>1
  <2> QED
    BY <1>2, <1>5, <2>1, <2>2
<1> QED
  BY <1>6, <1>7

\* The part with place k is that node, or has a comparison with quiet sides.
Side(c, a, k, e) ==
  /\ k \in a + 1 .. e /\ IsComparison(c[k]) /\ IsOneAt(c, a + 1, k, e)
  /\ a = Lft(c, k) /\ e = Rgt(c, k + 1) - 1
  /\ Quiet(c, a + 1, k - 1) /\ Quiet(c, k + 1, e)

\* A part of a condition that is cut into parts is a node that is no comparison,
\* or a comparison with its sides.
LEMMA PartIs ==
  ASSUME NEW c \in Condition, NEW l \in Seq(Part), NEW b, Sliced(c, l, b), NEW m \in 1 .. Len(l)
  PROVE  \/ b[m] = b[m - 1] + 1 /\ ~IsComparison(c[b[m]]) /\ l[m] = Convert(c[b[m]])
         \/ \E k \in b[m - 1] + 1 .. b[m] :
              Side(c, b[m - 1], k, b[m]) /\ l[m] = Comparison(c, b[m - 1] + 1, k, b[m])
<1>0. PICK N \in Nat : N = Len(c) /\ c \in Seq(Node)
  BY DEF Condition
<1>1. PICK L \in Nat : L = Len(l)
  OBVIOUS
<1>2. b \in [0 .. L -> 0 .. N] /\ b[m - 1] < b[m] /\ Takes(c, l[m], b[m - 1], b[m]) /\ Cuts(c)
  BY <1>0, <1>1 DEF Sliced, Cover
<1>3. PICK a \in 0 .. N, e \in 0 .. N : a = b[m - 1] /\ e = b[m]
  <2>1. m - 1 \in 0 .. L /\ m \in 0 .. L
    BY <1>1
  <2> QED
    BY <1>2, <2>1
<1>4. ASSUME NEW k \in a + 1 .. e, IsComparison(c[k]),
             e = Rgt(c, k + 1) - 1, a = Lft(c, k)
      PROVE  Side(c, a, k, e)
  <2>1. k \in 1 .. N
    OBVIOUS
  <2>2. CutAt(c, 1, N, k)
    BY <1>0, <1>2, <1>4, <2>1 DEF Cuts, CutIn
  <2>3. IsOneAt(c, a + 1, k, e)
    BY <1>4, <2>2 DEF CutAt
  <2>4. a + 1 \in 1 .. Len(c) /\ k \in a + 1 .. Len(c) /\ e \in k .. Len(c)
    BY <1>0
  <2>5. Quiet(c, a + 1, k - 1) /\ Quiet(c, k + 1, e)
    BY <2>3, <2>4, SidesQuiet DEF IsOneAt
  <2> QED
    BY <1>4, <2>3, <2>5 DEF Side
<1>5. CASE e = a + 1 /\ ~IsComparison(c[e]) /\ l[m] = Convert(c[e])
  BY <1>3, <1>5
<1>6. CASE \E k \in a + 1 .. e :
             /\ IsComparison(c[k]) /\ l[m] = Comparison(c, a + 1, k, e)
             /\ e = Rgt(c, k + 1) - 1 /\ (Cuts(c) => a = Lft(c, k))
  BY <1>2, <1>3, <1>4, <1>6
<1> QED
  BY <1>2, <1>3, <1>5, <1>6 DEF Takes

\* A node in the part of a comparison is of a side, or the comparison.
LEMMA SideNodes ==
  ASSUME NEW c \in Condition, NEW a \in 0 .. Len(c), NEW e \in 0 .. Len(c), NEW k, Side(c, a, k, e)
  PROVE  /\ \A m \in a + 1 .. e : m = k \/ Within1(c[m])
         /\ c[e].type # "kleft" /\ c[a + 1].type # "kright"
         /\ \A m \in a + 1 .. e : IsComparison(c[m]) => m = k
         /\ \A m \in a + 1 .. e : c[m].type \notin Joins
<1>1. /\ k \in a + 1 .. e /\ IsComparison(c[k])
      /\ Quiet(c, a + 1, k - 1) /\ Quiet(c, k + 1, e)
  BY DEF Side
<1>2. \A m \in a + 1 .. e : m = k \/ m \in a + 1 .. k - 1 \/ m \in k + 1 .. e
  BY <1>1
<1>3. \A m \in a + 1 .. e : m = k \/ Within1(c[m])
  BY <1>1, <1>2 DEF Quiet
<1>4. c[k].type \notin Joins
  BY <1>1 DEF IsComparison, CompareTypes, LikeTypes, Joins
<1>5. \A m \in a + 1 .. e : Within1(c[m]) => ~IsComparison(c[m]) /\ c[m].type \notin Joins
  BY DEF Within1
<1>6. c[e].type # "kleft" /\ c[a + 1].type # "kright"
  BY <1>1, QuietEnds
<1> QED
  BY <1>3, <1>4, <1>5, <1>6

\* The place k is a node of its own in l.
Lone(c, l, b, k) ==
  \E m \in 1 .. Len(l) : b[m - 1] = k - 1 /\ b[m] = k /\ l[m].type = c[k].type

\* A node that joins, an opening bracket where a part ends, and a closing one where
\* one begins.
LEMMA LoneIs ==
  ASSUME NEW c \in Condition, NEW l \in Seq(Part), NEW b, Sliced(c, l, b), NEW m \in 1 .. Len(l),
         \/ c[b[m]].type \in Joins /\ b[m - 1] < b[m]
         \/ c[b[m]].type = "kleft"
         \/ c[b[m - 1] + 1].type = "kright"
  PROVE  b[m] = b[m - 1] + 1 /\ l[m].type = c[b[m]].type
<1>0. PICK N \in Nat : N = Len(c) /\ c \in Seq(Node)
  BY DEF Condition
<1>1. PICK L \in Nat : L = Len(l)
  OBVIOUS
<1>2. PICK a \in 0 .. Len(c), e \in 0 .. Len(c) : a = b[m - 1] /\ e = b[m]
  <2>1. b \in [0 .. L -> 0 .. N]
    BY <1>0, <1>1 DEF Sliced, Cover
  <2>2. m - 1 \in 0 .. L /\ m \in 0 .. L
    BY <1>1
  <2> QED
    BY <1>0, <2>1, <2>2
<1>3. CASE \E k \in a + 1 .. e : Side(c, a, k, e)
  <2>1. PICK k \in a + 1 .. e : Side(c, a, k, e)
    BY <1>3
  <2>2. c[e].type # "kleft" /\ c[a + 1].type # "kright" /\ \A n \in a + 1 .. e : c[n].type \notin Joins
    BY <2>1, SideNodes
  <2>3. e \in a + 1 .. e
    BY <1>0
  <2> QED
    BY <1>2, <2>2, <2>3
<1>4. CASE e = a + 1 /\ l[m] = Convert(c[e])
  BY <1>2, <1>4 DEF Convert, LogicalNode
<1> QED
  BY <1>2, <1>3, <1>4, PartIs

\* Every node that joins.
LEMMA JoinIsLone ==
  ASSUME NEW c \in Condition, NEW l \in Seq(Part), NEW b, Sliced(c, l, b), NEW k \in 1 .. Len(c),
         c[k].type \in Joins
  PROVE  Lone(c, l, b, k)
<1>0. PICK N \in Nat : N = Len(c) /\ c \in Seq(Node)
  BY DEF Condition
<1>1. PICK L \in Nat : L = Len(l)
  OBVIOUS
<1>2. Cover(c, l, b) /\ b[Len(l)] = Len(c)
  BY DEF Sliced
<1>3. PICK m \in 1 .. Len(l) : b[m - 1] < k /\ k <= b[m]
  BY <1>0, <1>2, CoverFinds
<1>4. PICK a \in 0 .. Len(c), e \in 0 .. Len(c) : a = b[m - 1] /\ e = b[m]
  <2>1. b \in [0 .. L -> 0 .. N]
    BY <1>0, <1>1, <1>2 DEF Cover
  <2>2. m - 1 \in 0 .. L /\ m \in 0 .. L
    BY <1>1
  <2> QED
    BY <1>0, <2>1, <2>2
<1>5. k \in a + 1 .. e
  BY <1>0, <1>3, <1>4
<1>6. CASE \E n \in a + 1 .. e : Side(c, a, n, e)
  <2>1. PICK n \in a + 1 .. e : Side(c, a, n, e)
    BY <1>6
  <2>2. c[k].type \notin Joins
    BY <1>5, <2>1, SideNodes
  <2> QED
    BY <2>2
<1>7. CASE e = a + 1 /\ l[m] = Convert(c[e])
  <2>1. k = e /\ k - 1 = a
    BY <1>0, <1>5, <1>7
  <2>2. l[m].type = c[k].type
    BY <1>7, <2>1 DEF Convert, LogicalNode
  <2>3. b[m - 1] = k - 1 /\ b[m] = k
    BY <1>4, <2>1
  <2> QED
    BY <2>2, <2>3 DEF Lone
<1> QED
  BY <1>4, <1>6, <1>7, PartIs

\* A comparison is in the part that has it with its sides.
LEMMA ComparisonIsPart ==
  ASSUME NEW c \in Condition, NEW l \in Seq(Part), NEW b, Sliced(c, l, b), NEW k \in 1 .. Len(c),
         IsComparison(c[k])
  PROVE  \E m \in 1 .. Len(l) :
           /\ b[m - 1] = Lft(c, k) /\ b[m] = Rgt(c, k + 1) - 1
           /\ l[m] = Comparison(c, b[m - 1] + 1, k, b[m]) /\ Side(c, b[m - 1], k, b[m])
<1>0. PICK N \in Nat : N = Len(c) /\ c \in Seq(Node)
  BY DEF Condition
<1>1. PICK L \in Nat : L = Len(l)
  OBVIOUS
<1>2. Cover(c, l, b) /\ b[Len(l)] = Len(c)
  BY DEF Sliced
<1>3. PICK m \in 1 .. Len(l) : b[m - 1] < k /\ k <= b[m]
  BY <1>0, <1>2, CoverFinds
<1>4. PICK a \in 0 .. Len(c), e \in 0 .. Len(c) : a = b[m - 1] /\ e = b[m]
  <2>1. b \in [0 .. L -> 0 .. N]
    BY <1>0, <1>1, <1>2 DEF Cover
  <2>2. m - 1 \in 0 .. L /\ m \in 0 .. L
    BY <1>1
  <2> QED
    BY <1>0, <2>1, <2>2
<1>5. k \in a + 1 .. e
  BY <1>0, <1>3, <1>4
<1>6. CASE \E n \in a + 1 .. e : Side(c, a, n, e) /\ l[m] = Comparison(c, a + 1, n, e)
  <2>1. PICK n \in a + 1 .. e : Side(c, a, n, e) /\ l[m] = Comparison(c, a + 1, n, e)
    BY <1>6
  <2>2. n = k
    BY <1>5, <2>1, SideNodes
  <2>3. a = Lft(c, k) /\ e = Rgt(c, k + 1) - 1
    BY <2>1, <2>2 DEF Side
  <2> QED
    BY <1>4, <2>1, <2>2, <2>3
<1>7. CASE e = a + 1 /\ ~IsComparison(c[e])
  <2>1. k = e
    BY <1>0, <1>5, <1>7
  <2> QED
    BY <1>7, <2>1
<1> QED
  BY <1>4, <1>6, <1>7, PartIs

-----------------------------------------------------------------------------
(* Every reading is what the evaluation makes of its parts. *)

\* The parts behind o up to q do with a stack what a reading of its level does.
Works(l, row, r, o, q) ==
  /\ r.level = 0 => Operates0(l, row, o, q, r.number)
  /\ r.level = 1 => Operates1(l, row, o, q, r.number)
\* The reading ends and begins where parts do.
Follows(row, l, b, r) ==
  \E o \in 0 .. Len(l), q \in 0 .. Len(l) :
    o < q /\ b[o] = r.from - 1 /\ b[q] = r.to /\ Works(l, row, r, o, q)
Followed(c, row, l, b, r) == InPlace(c, r) /\ (Placed(c, r) => Follows(row, l, b, r))

\* A comparison where an operand may stand.
LEMMA OneFollowed ==
  ASSUME NEW c \in Condition, NEW row, NEW l \in Seq(Part), NEW b, Sliced(c, l, b), NEW r,
         NEW i, NEW k, NEW j, OneRead(c, row, r, i, k, j)
  PROVE  Followed(c, row, l, b, r)
<1>0. PICK N \in Nat : N = Len(c) /\ c \in Seq(Node)
  BY DEF Condition
<1>1. PICK L \in Nat : L = Len(l)
  OBVIOUS
<1>2. InPlace(c, r)
  BY OneWellCut DEF WellCut
<1>3. /\ i \in 1 .. Len(c) /\ k \in i .. Len(c) /\ j \in k .. Len(c)
      /\ IsComparison(c[k]) /\ IsOneAt(c, i, k, j)
      /\ r = Reading(0, i, j, Means(Comparison(c, i, k, j), row))
  BY DEF OneRead
<1>4. r.level = 0 /\ r.from = i /\ r.to = j /\ r.number = Means(Comparison(c, i, k, j), row)
  BY <1>3 DEF Reading
<1>5. ASSUME Placed(c, r) PROVE Follows(row, l, b, r)
  <2>1. Lft(c, k) = i - 1 /\ Rgt(c, k + 1) = j + 1
    BY <1>3, <1>4, <1>5, OnePlaced DEF Placed
  <2>2. PICK m \in 1 .. L :
           /\ b[m - 1] = Lft(c, k) /\ b[m] = Rgt(c, k + 1) - 1
           /\ l[m] = Comparison(c, b[m - 1] + 1, k, b[m])
    <3>1. k \in 1 .. Len(c)
      BY <1>0, <1>3
    <3> QED
      BY <1>1, <1>3, <3>1, ComparisonIsPart
  <2>3. (i - 1) + 1 = i /\ (j + 1) - 1 = j
    BY <1>0, <1>3
  <2>4. b[m - 1] = i - 1 /\ b[m] = j /\ l[m] = Comparison(c, i, k, j)
    BY <2>1, <2>2, <2>3
  <2>5. PICK o \in 0 .. L : o = m - 1 /\ o + 1 = m
    OBVIOUS
  <2>6. IsComparison(l[m]) /\ ComparisonFits(l[m])
    BY <1>3, <2>4 DEF IsOneAt, IsComparison, Comparison, LogicalNode
  <2>7. Operates0(l, row, o, m, Means(l[m], row))
    <3>1. o \in Nat /\ IsComparison(l[o + 1]) /\ ComparisonFits(l[o + 1])
      BY <2>5, <2>6
    <3>2. Operates0(l, row, o, o + 1, Means(l[o + 1], row))
      BY <3>1, ComparisonRuns
    <3> QED
      BY <2>5, <3>2
  <2>8. Works(l, row, r, o, m)
    BY <1>4, <2>4, <2>5, <2>7 DEF Works
  <2> QED
    BY <1>1, <1>4, <2>4, <2>5, <2>8 DEF Follows
<1> QED
  BY <1>2, <1>5 DEF Followed

\* One level up.
LEMMA RaisedFollowed ==
  ASSUME NEW c, NEW row, NEW l, NEW b, NEW q, NEW r, Followed(c, row, l, b, r), RaisedTo(q, r)
  PROVE  Followed(c, row, l, b, q)
<1>1. r.level = 0 /\ q.level = 1 /\ q.from = r.from /\ q.to = r.to /\ q.number = r.number
  BY DEF RaisedTo, Reading
<1>2. InPlace(c, q)
  BY <1>1 DEF Followed, InPlace
<1>3. ASSUME Placed(c, q) PROVE Follows(row, l, b, q)
  <2>1. Placed(c, r)
    BY <1>1, <1>3 DEF Placed
  <2>2. PICK m \in 0 .. Len(l), n \in 0 .. Len(l) :
          m < n /\ b[m] = r.from - 1 /\ b[n] = r.to /\ Works(l, row, r, m, n)
    BY <2>1 DEF Followed, Follows
  <2>3. Works(l, row, q, m, n)
    BY <1>1, <2>2, RaisedRuns DEF Works
  <2> QED
    BY <1>1, <2>2, <2>3 DEF Follows
<1> QED
  BY <1>2, <1>3 DEF Followed

\* In brackets.
LEMMA BracketFollowed ==
  ASSUME NEW c \in Condition, NEW row, NEW l \in Seq(Part), NEW b, Sliced(c, l, b),
         NEW q, NEW r, WellCut(c, r), Followed(c, row, l, b, r), InBrackets(c, q, r)
  PROVE  Followed(c, row, l, b, q)
<1>0. PICK N \in Nat : N = Len(c) /\ c \in Seq(Node)
  BY DEF Condition
<1>1. PICK L \in Nat : L = Len(l)
  OBVIOUS
<1>2. PICK i \in 1 .. N, j \in 1 .. N : i <= j /\ i = r.from /\ j = r.to
  BY <1>0 DEF Followed, InPlace
<1>3. /\ q.level = 0 /\ q.from = i - 1 /\ q.to = j + 1 /\ q.number = r.number /\ r.level = 1
      /\ i > 1 /\ j < N /\ c[i - 1].type = "kleft" /\ c[j + 1].type = "kright"
  BY <1>0, <1>2 DEF InBrackets, Reading
<1>4. InPlace(c, q)
  BY BracketWellCut DEF WellCut
<1>5. Placed(c, r)
  BY <1>2, <1>3 DEF Placed, Ahead, Behind
<1>6. PICK m \in 0 .. L, n \in 0 .. L :
        m < n /\ b[m] = i - 1 /\ b[n] = j /\ Works(l, row, r, m, n)
  BY <1>1, <1>2, <1>5 DEF Followed, Follows
<1>7. b \in [0 .. L -> 0 .. N] /\ b[0] = 0 /\ b[L] = N
  BY <1>0, <1>1 DEF Sliced, Cover
<1>8. m \in 1 .. L /\ n + 1 \in 1 .. L
  <2>1. m # 0 /\ n # L
    BY <1>2, <1>3, <1>6, <1>7
  <2> QED
    BY <2>1
<1>9. b[m] = b[m - 1] + 1 /\ l[m].type = "kleft"
  <2>1. c[b[m]].type = "kleft"
    BY <1>3, <1>6
  <2> QED
    BY <1>1, <1>8, <2>1, LoneIs
<1>10. b[n + 1] = j + 1 /\ l[n + 1].type = "kright"
  <2>1. PICK d \in 1 .. L : d = n + 1 /\ d - 1 = n
    BY <1>8
  <2>2. c[b[d - 1] + 1].type = "kright"
    BY <1>3, <1>6, <2>1
  <2>3. b[d] = b[d - 1] + 1 /\ l[d].type = c[b[d]].type
    BY <1>1, <2>2, LoneIs
  <2> QED
    BY <1>3, <1>6, <2>1, <2>3
<1>11. PICK o \in 0 .. L : o = m - 1 /\ o + 1 = m
  BY <1>8
<1>12. b[o] = (i - 1) - 1
  <2>1. PICK z \in 0 .. N : z = b[o]
    BY <1>7
  <2>2. i - 1 = z + 1
    BY <1>6, <1>9, <1>11, <2>1
  <2>3. z = (i - 1) - 1
    BY <1>2, <2>2
  <2> QED
    BY <2>1, <2>3
<1>13. Operates0(l, row, o, n + 1, q.number)
  <2>1. Operates1(l, row, o + 1, n, r.number) /\ o + 1 <= n
    BY <1>3, <1>6, <1>11 DEF Works
  <2> QED
    BY <1>3, <1>9, <1>10, <1>11, <2>1, BracketRuns
<1>14. Works(l, row, q, o, n + 1)
  BY <1>3, <1>13 DEF Works
<1>15. o < n + 1 /\ n + 1 \in 0 .. L
  BY <1>6, <1>8, <1>11
<1>16. Follows(row, l, b, q)
  BY <1>1, <1>3, <1>10, <1>12, <1>14, <1>15 DEF Follows
<1> QED
  BY <1>4, <1>16 DEF Followed

\* Two, joined.
LEMMA JoinFollowed ==
  ASSUME NEW c \in Condition, NEW row, NEW l \in Seq(Part), NEW b, Sliced(c, l, b),
         NEW q, NEW x, NEW r, WellCut(c, x), WellCut(c, r),
         Followed(c, row, l, b, x), Followed(c, row, l, b, r), JoinedTo(c, q, x, r)
  PROVE  Followed(c, row, l, b, q)
<1>0. PICK N \in Nat : N = Len(c) /\ c \in Seq(Node)
  BY DEF Condition
<1>1. PICK L \in Nat : L = Len(l)
  OBVIOUS
<1>2. PICK i \in 1 .. N, d \in 1 .. N : i <= d /\ i = x.from /\ d = x.to
  BY <1>0 DEF Followed, InPlace
<1>3. PICK e \in 1 .. N, j \in 1 .. N : e <= j /\ e = r.from /\ j = r.to
  BY <1>0 DEF Followed, InPlace
<1>4. /\ q.level = 1 /\ q.from = i /\ q.to = j /\ e = d + 2 /\ c[d + 1].type \in Joins
      /\ q.number = Join(c[d + 1].type, x.number, r.number) /\ x.level = 1 /\ r.level = 0
  BY <1>2, <1>3 DEF JoinedTo, Reading
<1>5. InPlace(c, q)
  BY JoinWellCut DEF WellCut
<1>6. ASSUME Placed(c, q) PROVE Follows(row, l, b, q)
  <2>1. e - 1 = d + 1
    BY <1>2, <1>4
  <2>2. Placed(c, x) /\ Placed(c, r)
    BY <1>2, <1>3, <1>4, <1>6, <2>1 DEF Placed, Ahead, Behind
  <2>3. PICK o \in 0 .. L, m \in 0 .. L :
          o < m /\ b[o] = i - 1 /\ b[m] = d /\ Works(l, row, x, o, m)
    BY <1>1, <1>2, <2>2 DEF Followed, Follows
  <2>4. PICK n \in 0 .. L, z \in 0 .. L :
          n < z /\ b[n] = e - 1 /\ b[z] = j /\ Works(l, row, r, n, z)
    BY <1>1, <1>3, <2>2 DEF Followed, Follows
  <2>5. d + 1 \in 1 .. Len(c) /\ (d + 1) - 1 = d
    BY <1>0, <1>2, <1>3, <1>4
  <2>6. Lone(c, l, b, d + 1)
    BY <1>4, <2>5, JoinIsLone
  <2>7. PICK y \in 1 .. L : b[y - 1] = d /\ b[y] = d + 1 /\ l[y].type = c[d + 1].type
    BY <1>1, <2>5, <2>6 DEF Lone
  <2>8. y - 1 \in 0 .. Len(l) /\ y \in 0 .. Len(l) /\ Cover(c, l, b)
    BY <1>1 DEF Sliced
  <2>9. y - 1 = m
    BY <1>0, <1>1, <2>3, <2>7, <2>8, CoverOnce
  <2>10. y = n
    BY <1>0, <1>1, <2>1, <2>4, <2>7, <2>8, CoverOnce
  <2>11. n = m + 1
    BY <2>9, <2>10
  <2>12. Operates1(l, row, o, m, x.number) /\ Operates0(l, row, m + 1, z, r.number)
    BY <1>4, <2>3, <2>4, <2>11 DEF Works
  <2>13. l[m + 1].type = c[d + 1].type /\ l[m + 1].type \in Joins
    BY <1>4, <2>7, <2>10, <2>11
  <2>14. o <= m /\ m + 1 <= z /\ o < z
    BY <2>3, <2>4, <2>11
  <2>15. Operates1(l, row, o, z, Join(l[m + 1].type, x.number, r.number))
    BY <2>12, <2>13, <2>14, JoinRuns
  <2>16. Works(l, row, q, o, z)
    BY <1>4, <2>13, <2>15 DEF Works
  <2> QED
    BY <1>1, <1>4, <2>3, <2>4, <2>14, <2>16 DEF Follows
<1> QED
  BY <1>5, <1>6 DEF Followed

\* So all readings are.
LEMMA ReadingsFollowed ==
  ASSUME NEW c \in Condition, NEW row, NEW l \in Seq(Part), NEW b, Sliced(c, l, b),
         NEW n \in 0 .. 3 * Len(c), NEW r \in Read(c, row)[n]
  PROVE  Followed(c, row, l, b, r)
<1>0. c \in Seq(Node) /\ Len(c) \in Nat
  BY DEF Condition
<1>1. PICK N \in Nat : N = 3 * Len(c)
  BY <1>0
<1>2. PICK g : g = Read(c, row)
  OBVIOUS
<1> DEFINE T == {m \in 0 .. N : \A q \in g[m] : Followed(c, row, l, b, q)}
<1>3. 0 \in T
  <2>1. ASSUME NEW q \in g[0]
        PROVE  Followed(c, row, l, b, q)
    <3>1. q \in Comparisons(c, row)
      BY <1>0, <1>2, ReadStep
    <3>2. \E i, k, j : OneRead(c, row, q, i, k, j)
      BY <1>0, <3>1, ComparisonRead
    <3> QED
      BY <3>2, OneFollowed
  <2> QED
    BY <2>1
<1>4. ASSUME NEW m \in 0 .. N - 1, m \in T
      PROVE  m + 1 \in T
  <2>1. g[m + 1] = g[m] \cup Beyond(c, g[m])
    BY <1>0, <1>1, <1>2, ReadStep
  <2>2. ASSUME NEW q \in Beyond(c, g[m])
        PROVE  Followed(c, row, l, b, q)
    <3>1. \A x \in g[m] : Followed(c, row, l, b, x)
      BY <1>4
    <3>2. \A x \in g[m] : WellCut(c, x)
      BY <1>1, <1>2, ReadingsWellCut
    <3>3. CASE \E x \in g[m] : RaisedTo(q, x)
      BY <3>1, <3>3, RaisedFollowed
    <3>4. CASE \E x \in g[m] : InBrackets(c, q, x)
      BY <3>1, <3>2, <3>4, BracketFollowed
    <3>5. CASE \E z \in g[m], x \in g[m] : JoinedTo(c, q, z, x)
      BY <3>1, <3>2, <3>5, JoinFollowed
    <3> QED
      BY <3>3, <3>4, <3>5, BeyondKinds
  <2>3. m + 1 \in 0 .. N
    OBVIOUS
  <2> QED
    BY <1>4, <2>1, <2>2, <2>3
<1> HIDE DEF T
<1>5. \A m \in 0 .. N : m \in T
  BY <1>3, <1>4, Climb
<1>6. n \in T
  BY <1>1, <1>5
<1> QED
  BY <1>2, <1>6 DEF T

\* Nodes that run from an empty stack are those that the check has passed.
LEMMA RunsWalk ==
  ASSUME NEW l \in Seq(Part), NEW row, NEW n \in 0 .. Len(l), NEW t, Runs(l, row, 0, n, <<>>, t)
  PROVE  Passes(l, n) /\ Walk(SubSeq(l, 1, n)) = Kinds(t)
<1>1. PICK w : Run(l, row, w, 0, n) /\ w[0] = <<>> /\ w[n] = t
  BY DEF Runs
<1>2. Good(<<>>)
  BY DEF Runs
<1> DEFINE T == {m \in 0 .. n : Good(w[m]) /\ Walk(SubSeq(l, 1, m)) = Kinds(w[m])}
<1>3. 0 \in T
  <2>1. SubSeq(l, 1, 0) = <<>> /\ Kinds(<<>>) = <<>>
    BY DEF Kinds
  <2>2. 0 \in 0 .. n /\ Good(w[0])
    BY <1>1, <1>2
  <2>3. Walk(SubSeq(l, 1, 0)) = Kinds(w[0])
    BY <1>1, <2>1, WalkOfNothing
  <2> QED
    BY <2>2, <2>3
<1>4. ASSUME NEW m \in 0 .. n - 1, m \in T
      PROVE  m + 1 \in T
  <2>1. PICK k \in 1 .. Len(l) : k = m + 1 /\ k - 1 = m /\ k \in 0 + 1 .. n /\ k \in 0 .. n
    OBVIOUS
  <2>2. NodeFits(Kinds(w[m]), l[k]) /\ w[k] = Told(w[m], l[k], TruthOf(l[k], row))
    BY <1>1, <2>1 DEF Run
  <2>3. PICK s : s = w[m]
    OBVIOUS
  <2>4. Good(s) /\ Walk(SubSeq(l, 1, m)) = Kinds(s)
    BY <1>4, <2>3
  <2>5. TruthOf(l[k], row) \in Two
    BY TruthIsTwo DEF TruthOf
  <2>6. Good(w[k])
    BY <2>2, <2>3, <2>4, <2>5, GoodTold
  <2>7. Kinds(w[k]) = NodeChecked(Kinds(s), l[k])
    <3>1. s \in Seq(Code) /\ Formed(Kinds(s))
      BY <2>4 DEF Good
    <3> QED
      BY <2>2, <2>3, <2>5, <3>1, ToldShape
  <2>8. Walk(SubSeq(l, 1, k)) = NodeChecked(Walk(SubSeq(l, 1, k - 1)), l[k])
    BY PrefixStep
  <2> QED
    BY <2>1, <2>4, <2>6, <2>7, <2>8
<1> HIDE DEF T
<1>5. n \in Nat
  OBVIOUS
<1>6. \A m \in 0 .. n : m \in T
  BY <1>3, <1>4, <1>5, Climb
<1>7. ASSUME NEW k \in 1 .. n
      PROVE  NodeFits(Walk(SubSeq(l, 1, k - 1)), l[k])
  <2>1. k - 1 \in 0 .. n /\ k \in 0 + 1 .. n
    BY <1>5
  <2>2. k - 1 \in T
    BY <1>6, <2>1
  <2>3. Walk(SubSeq(l, 1, k - 1)) = Kinds(w[k - 1])
    BY <2>2 DEF T
  <2> QED
    BY <1>1, <2>1, <2>3 DEF Run
<1>8. n \in T
  BY <1>5, <1>6
<1> QED
  BY <1>1, <1>7, <1>8 DEF Passes, T

\* Nodes turn a stack into one other.
LEMMA RunsOnce ==
  ASSUME NEW l, NEW row, NEW n \in Nat, NEW s, NEW t, NEW u,
         Runs(l, row, 0, n, s, t), Runs(l, row, 0, n, s, u)
  PROVE  t = u
<1>1. PICK w : Run(l, row, w, 0, n) /\ w[0] = s /\ w[n] = t
  BY DEF Runs
<1>2. PICK v : Run(l, row, v, 0, n) /\ v[0] = s /\ v[n] = u
  BY DEF Runs
<1> DEFINE T == {m \in 0 .. n : v[m] = w[m]}
<1>3. 0 \in T
  BY <1>1, <1>2
<1>4. ASSUME NEW m \in 0 .. n - 1, m \in T
      PROVE  m + 1 \in T
  <2>1. PICK k \in 0 + 1 .. n : k = m + 1 /\ k - 1 = m
    OBVIOUS
  <2>2. w[k] = Told(w[m], l[k], TruthOf(l[k], row)) /\ v[k] = Told(v[m], l[k], TruthOf(l[k], row))
    BY <1>1, <1>2, <2>1 DEF Run
  <2> QED
    BY <1>4, <2>1, <2>2
<1> HIDE DEF T
<1>5. \A m \in 0 .. n : m \in T
  BY <1>3, <1>4, Climb
<1> QED
  BY <1>1, <1>2, <1>5 DEF T

\* Nothing has run yet.
LEMMA RunsNothing ==
  ASSUME NEW l, NEW row
  PROVE  Runs(l, row, 0, 0, <<>>, <<>>)
<1> DEFINE w == [m \in 0 .. 0 |-> <<>>]
<1>1. w[0] = <<>> /\ w = [m \in 0 .. 0 |-> w[m]]
  OBVIOUS
<1> HIDE DEF w
<1>2. Run(l, row, w, 0, 0)
  BY DEF Run
<1>3. Good(<<>>)
  BY DEF Good, Kinds, Formed
<1> QED
  BY <1>1, <1>2, <1>3 DEF Runs

\* The evaluation of what load_logical makes of a condition that has a reading.
LEMMA WholeRuns ==
  ASSUME NEW c \in Condition, NEW row, NEW l \in Seq(Part), NEW b,
         Cover(c, l, b), b[Len(l)] = Len(c),
         NEW r \in Read(c, row)[3 * Len(c)], WholeOf(c, r)
  PROVE  Sliced(c, l, b) /\ Runs(l, row, 0, Len(l), <<>>, <<Truth(r.number)>>)
<1>0. PICK N \in Nat : N = Len(c) /\ c \in Seq(Node)
  BY DEF Condition
<1>1. PICK L \in Nat : L = Len(l)
  OBVIOUS
<1>2. 3 * Len(c) \in 0 .. 3 * Len(c)
  BY <1>0
<1>3. r.level = 1 /\ r.from = 1 /\ r.to = Len(c)
  BY DEF WholeOf
<1>4. Placed(c, r)
  BY <1>3 DEF Placed, Ahead, Behind
<1>5. CutIn(c, r.from, r.to)
  BY <1>2, <1>4, ReadingsWellCut DEF WellCut
<1>6. Sliced(c, l, b)
  BY <1>3, <1>5 DEF Sliced, Cuts
<1>7. Followed(c, row, l, b, r)
  BY <1>2, <1>6, ReadingsFollowed
<1>8. PICK o \in 0 .. Len(l), q \in 0 .. Len(l) :
        o < q /\ b[o] = r.from - 1 /\ b[q] = r.to /\ Works(l, row, r, o, q)
  BY <1>4, <1>7 DEF Followed, Follows
<1>9. b[o] = b[0] /\ b[q] = b[Len(l)] /\ 0 \in 0 .. Len(l) /\ Len(l) \in 0 .. Len(l)
  BY <1>1, <1>3, <1>8 DEF Cover
<1>10. o = 0 /\ q = Len(l)
  BY <1>0, <1>9, CoverOnce
<1>11. Operates1(l, row, 0, Len(l), r.number)
  BY <1>3, <1>8, <1>10 DEF Works
<1>12. Good(<<>>) /\ Starting(<<>>)
  BY RunsNothing DEF Runs, Starting
<1>13. Runs(l, row, 0, Len(l), <<>>, Append(<<>>, Truth(r.number)))
  BY <1>11, <1>12 DEF Operates1
<1>14. Append(<<>>, Truth(r.number)) = <<Truth(r.number)>>
  OBVIOUS
<1> QED
  BY <1>6, <1>13, <1>14

\* Every comparison of it fits and is of one type.
LEMMA SlicedFits ==
  ASSUME NEW c \in Condition, NEW l \in Seq(Part), NEW b, Sliced(c, l, b), NEW m \in 1 .. Len(l)
  PROVE  Typed(l[m]) /\ (IsComparison(l[m]) => ComparisonFits(l[m]))
<1>1. CASE ~IsComparison(c[b[m]]) /\ l[m] = Convert(c[b[m]])
  <2>1. ~IsComparison(l[m])
    BY <1>1 DEF IsComparison, Convert, LogicalNode
  <2> QED
    BY <2>1 DEF Typed
<1>2. CASE \E k : Side(c, b[m - 1], k, b[m]) /\ l[m] = Comparison(c, b[m - 1] + 1, k, b[m])
  BY <1>2 DEF Side, IsOneAt
<1> QED
  BY <1>1, <1>2, PartIs

\* A condition in the grammar is accepted.
LEMMA GrammarAccepts ==
  ASSUME NEW c \in Condition, NEW row, NEW l \in Seq(Part), NEW b,
         Cover(c, l, b), b[Len(l)] = Len(c), Truths(c, row) # {}
  PROVE  /\ Passes(l, Len(l)) /\ Walk(l) = <<"expr">>
         /\ \A m \in 1 .. Len(l) : Typed(l[m]) /\ (IsComparison(l[m]) => ComparisonFits(l[m]))
<1>1. PICK r \in Read(c, row)[3 * Len(c)] : WholeOf(c, r)
  BY TruthsRead
<1>2. Sliced(c, l, b) /\ Runs(l, row, 0, Len(l), <<>>, <<Truth(r.number)>>)
  BY <1>1, WholeRuns
<1>3. Len(l) \in 0 .. Len(l) /\ SubSeq(l, 1, Len(l)) = l
  OBVIOUS
<1>4. Passes(l, Len(l)) /\ Walk(l) = Kinds(<<Truth(r.number)>>)
  BY <1>2, <1>3, RunsWalk
<1>5. Kinds(<<Truth(r.number)>>) = <<"expr">>
  BY DEF Kinds, Kind, Truth
<1> QED
  BY <1>2, <1>4, <1>5, SlicedFits

\* What a condition that is evaluated comes to is each of the truths it has.
LEMMA TruthsRun ==
  ASSUME NEW c \in Condition, NEW row, NEW l \in Seq(Part), NEW b,
         Cover(c, l, b), b[Len(l)] = Len(c), NEW t \in Truths(c, row),
         NEW s, Runs(l, row, 0, Len(l), <<>>, s)
  PROVE  s = <<Truth(t)>> /\ t \in BOOLEAN
<1>1. PICK r \in Read(c, row)[3 * Len(c)] : WholeOf(c, r) /\ t = r.number
  BY TruthsRead
<1>2. Runs(l, row, 0, Len(l), <<>>, <<Truth(r.number)>>)
  BY <1>1, WholeRuns
<1>3. Len(l) \in Nat
  OBVIOUS
<1>4. s = <<Truth(t)>>
  BY <1>1, <1>2, <1>3, RunsOnce
<1>5. 3 * Len(c) \in 0 .. 3 * Len(c)
  BY DEF Condition
<1>6. InPlace(c, r)
  BY <1>1, <1>5, ReadingsWellCut DEF WellCut
<1> QED
  BY <1>1, <1>4, <1>6 DEF InPlace

-----------------------------------------------------------------------------
(* A condition that the check accepts has a reading. *)

\* A mark of the stack of check_logical stands for nodes of the condition: for the
\* ones behind place a up to j.
Stood(c, row, x, a, j) ==
  /\ a < j
  /\ x = "left" => j = a + 1 /\ c[j].type = "kleft"
  /\ x = "opt" => j = a + 1 /\ c[j].type \in Joins
  /\ x = "expr" => \E t : Reading(1, a + 1, j, t) \in Read(c, row)[3 * j - 2]

\* The marks s stand for the first j nodes.
Laid(c, row, s, e, j) ==
  /\ e \in [0 .. Len(s) -> 0 .. Len(c)] /\ e[0] = 0 /\ e[Len(s)] = j
  /\ \A m \in 1 .. Len(s) : Stood(c, row, s[m], e[m - 1], e[m])

\* One mark more.
LEMMA LaidMore ==
  ASSUME NEW c \in Seq(Node), NEW row, NEW s \in Seq(Mark), NEW x \in Mark, NEW e, NEW j,
         Laid(c, row, s, e, j), NEW i \in 0 .. Len(c), Stood(c, row, x, j, i)
  PROVE  \E d : Laid(c, row, Append(s, x), d, i)
<1>1. PICK L \in Nat : L = Len(s)
  OBVIOUS
<1>2. PICK r \in Seq(Mark) : /\ r = Append(s, x) /\ Len(r) = L + 1 /\ r[L + 1] = x
                             /\ \A m \in 1 .. L : r[m] = s[m]
  <2>1. /\ Append(s, x) \in Seq(Mark) /\ Len(Append(s, x)) = L + 1 /\ Append(s, x)[L + 1] = x
        /\ \A m \in 1 .. L : Append(s, x)[m] = s[m]
    BY <1>1, AppendProperties
  <2> QED
    BY <2>1
<1>3. /\ e \in [0 .. L -> 0 .. Len(c)] /\ e[0] = 0 /\ e[L] = j
      /\ \A m \in 1 .. L : Stood(c, row, s[m], e[m - 1], e[m])
  BY <1>1 DEF Laid
<1> DEFINE d == [m \in 0 .. L + 1 |-> IF m <= L THEN e[m] ELSE i]
<1>4. d \in [0 .. L + 1 -> 0 .. Len(c)] /\ d[L + 1] = i /\ \A m \in 0 .. L : d[m] = e[m]
  BY <1>3
<1> HIDE DEF d
<1>5. ASSUME NEW m \in 1 .. L + 1
      PROVE  Stood(c, row, r[m], d[m - 1], d[m])
  <2>1. CASE m = L + 1
    <3>1. m - 1 = L /\ L \in 0 .. L
      BY <2>1
    <3>2. d[m - 1] = j /\ d[m] = i /\ r[m] = x
      BY <1>2, <1>3, <1>4, <2>1, <3>1
    <3> QED
      BY <3>2
  <2>2. CASE m # L + 1
    <3>1. m \in 1 .. L /\ m \in 0 .. L /\ m - 1 \in 0 .. L
      BY <2>2
    <3>2. d[m - 1] = e[m - 1] /\ d[m] = e[m] /\ r[m] = s[m]
      BY <1>2, <1>4, <3>1
    <3> QED
      BY <1>3, <3>1, <3>2
  <2> QED
    BY <2>1, <2>2
<1>6. d[0] = 0
  BY <1>3, <1>4
<1> QED
  BY <1>2, <1>4, <1>5, <1>6 DEF Laid

\* Fewer marks.
LEMMA LaidLess ==
  ASSUME NEW c, NEW row, NEW s \in Seq(Mark), NEW e, NEW j, Laid(c, row, s, e, j),
         NEW r \in Seq(Mark), Len(r) <= Len(s), \A m \in 1 .. Len(r) : r[m] = s[m]
  PROVE  \E d : Laid(c, row, r, d, e[Len(r)])
<1>1. PICK L \in Nat : L = Len(s)
  OBVIOUS
<1>2. PICK n \in 0 .. L : n = Len(r)
  BY <1>1
<1>3. /\ e \in [0 .. L -> 0 .. Len(c)] /\ e[0] = 0
      /\ \A m \in 1 .. L : Stood(c, row, s[m], e[m - 1], e[m])
  BY <1>1 DEF Laid
<1> DEFINE d == [m \in 0 .. n |-> e[m]]
<1>4. d \in [0 .. n -> 0 .. Len(c)] /\ \A m \in 0 .. n : d[m] = e[m]
  BY <1>3
<1> HIDE DEF d
<1>5. d[0] = 0 /\ d[n] = e[n]
  BY <1>3, <1>4
<1>6. ASSUME NEW m \in 1 .. n
      PROVE  Stood(c, row, r[m], d[m - 1], d[m])
  <2>1. m - 1 \in 0 .. n /\ m \in 0 .. n /\ m \in 1 .. L
    OBVIOUS
  <2>2. d[m - 1] = e[m - 1] /\ d[m] = e[m] /\ r[m] = s[m]
    BY <1>2, <1>4, <2>1
  <2> QED
    BY <1>3, <2>1, <2>2
<1> QED
  BY <1>2, <1>4, <1>5, <1>6 DEF Laid

\* One step of reading.
LEMMA ReadNext ==
  ASSUME NEW c \in Seq(Node), NEW row, NEW n \in Nat, n < 3 * Len(c), NEW q,
         q \in Beyond(c, Read(c, row)[n])
  PROVE  q \in Read(c, row)[n + 1]
<1>1. n \in 0 .. 3 * Len(c) - 1
  OBVIOUS
<1>2. Read(c, row)[n + 1] = Read(c, row)[n] \cup Beyond(c, Read(c, row)[n])
  BY <1>1, ReadStep
<1> QED
  BY <1>2

\* A comparison, or what a closing bracket ends, is joined to what waits for it.
LEMMA OperandLaid ==
  ASSUME NEW c \in Seq(Node), NEW row, NEW s \in Seq(Mark), Formed(s), NEW e, NEW a \in Nat,
         Laid(c, row, s, e, a), NEW j \in a + 1 .. Len(c), NEW t,
         Reading(0, a + 1, j, t) \in Read(c, row)[3 * j - 3]
  PROVE  \E d : Laid(c, row, Append(Merged(s), "expr"), d, j)
<1>1. PICK N \in Nat : N = Len(c)
  OBVIOUS
<1>2. PICK L \in Nat : L = Len(s)
  OBVIOUS
<1>3. PICK n \in Nat : n = 3 * j - 3 /\ n + 1 = 3 * j - 2 /\ n < 3 * N
  <2>1. 3 * j - 3 \in Nat /\ (3 * j - 3) + 1 = 3 * j - 2 /\ 3 * j - 3 < 3 * N
    BY <1>1
  <2> QED
    BY <2>1
<1>4. PICK o : o = Reading(0, a + 1, j, t)
  OBVIOUS
<1>5. o \in Read(c, row)[n] /\ o.level = 0 /\ o.from = a + 1 /\ o.to = j /\ o.number = t
  BY <1>3, <1>4 DEF Reading
<1>6. PICK m \in Seq(Mark) : m = Merged(s)
  BY MergedShape
<1>7. /\ Len(m) <= L /\ \A i \in 1 .. Len(m) : m[i] = s[i]
      /\ \/ m = s
         \/ /\ L >= 2 /\ Len(m) = L - 2
            /\ s[L - 1] = "expr" /\ s[L] = "opt"
  BY <1>2, <1>6, MergedShape
<1>8. /\ e \in [0 .. L -> 0 .. N] /\ e[L] = a
      /\ \A i \in 1 .. L : Stood(c, row, s[i], e[i - 1], e[i])
  BY <1>1, <1>2 DEF Laid
<1>9. PICK k \in 0 .. L : k = Len(m)
  BY <1>2, <1>7
<1>10. PICK d : Laid(c, row, m, d, e[k])
  BY <1>2, <1>7, <1>9, LaidLess
<1>11. PICK f \in 0 .. N : f = e[k]
  BY <1>8
<1>12. Stood(c, row, "expr", f, j)
  <2>1. CASE m = s
    <3>1. f = a
      BY <1>2, <1>8, <1>9, <1>11, <2>1
    <3>2. RaisedTo(Reading(1, a + 1, j, t), o)
      BY <1>5 DEF RaisedTo
    <3>3. Reading(1, a + 1, j, t) \in Beyond(c, Read(c, row)[n])
      BY <1>5, <3>2, BeyondKinds
    <3>4. Reading(1, a + 1, j, t) \in Read(c, row)[n + 1]
      BY <1>1, <1>3, <3>3, ReadNext
    <3>5. f < j
      BY <3>1
    <3> QED
      BY <1>3, <3>1, <3>4, <3>5 DEF Stood
  <2>2. CASE L >= 2 /\ Len(m) = L - 2 /\ s[L - 1] = "expr" /\ s[L] = "opt"
    <3>1. L \in 1 .. L /\ L - 1 \in 1 .. L /\ (L - 1) - 1 = k /\ k \in 0 .. L
      BY <1>9, <2>2
    <3>2. Stood(c, row, "opt", e[L - 1], a)
      BY <1>8, <2>2, <3>1
    <3>3. PICK h \in 0 .. N : h = e[L - 1]
      BY <1>8, <3>1
    <3>4. a = h + 1 /\ c[a].type \in Joins
      BY <3>2, <3>3 DEF Stood
    <3>5. Stood(c, row, "expr", f, h)
      <4>1. Stood(c, row, s[L - 1], e[(L - 1) - 1], e[L - 1])
        BY <1>8, <3>1
      <4> QED
        BY <1>11, <2>2, <3>1, <3>3, <4>1
    <3>6. PICK u : f < h /\ Reading(1, f + 1, h, u) \in Read(c, row)[3 * h - 2]
      BY <3>5 DEF Stood
    <3>7. PICK l : l = Reading(1, f + 1, h, u)
      OBVIOUS
    <3>8. l \in Read(c, row)[n] /\ l.level = 1 /\ l.from = f + 1 /\ l.to = h /\ l.number = u
      <4>1. n \in 0 .. 3 * Len(c) /\ 3 * h - 2 \in 0 .. n
        <5>1. h >= 1 /\ h + 2 <= j
          BY <1>1, <3>4, <3>6
        <5>2. 3 * h - 2 \in Nat /\ 3 * h - 2 <= 3 * j - 3
          BY <5>1
        <5> QED
          BY <1>1, <1>3, <5>2
      <4>2. Read(c, row)[3 * h - 2] \subseteq Read(c, row)[n]
        BY <4>1, ReadGrows
      <4>3. l \in Read(c, row)[n]
        BY <3>6, <3>7, <4>2
      <4> QED
        BY <3>7, <4>3 DEF Reading
    <3>9. PICK q : q = Reading(1, f + 1, j, Join(c[h + 1].type, u, t))
      OBVIOUS
    <3>10. JoinedTo(c, q, l, o)
      <4>1. a + 1 = h + 2
        BY <3>4
      <4> QED
        BY <1>5, <3>4, <3>8, <3>9, <4>1 DEF JoinedTo
    <3>11. q \in Beyond(c, Read(c, row)[n])
      BY <1>5, <3>8, <3>10, BeyondKinds
    <3>12. q \in Read(c, row)[n + 1]
      BY <1>1, <1>3, <3>11, ReadNext
    <3>13. f < j
      BY <3>4, <3>6
    <3> QED
      BY <1>3, <3>9, <3>12, <3>13 DEF Stood
  <2> QED
    BY <1>7, <2>1, <2>2
<1>13. j \in 0 .. Len(c) /\ "expr" \in Mark
  BY <1>1 DEF Mark
<1> QED
  BY <1>6, <1>10, <1>11, <1>12, <1>13, LaidMore

\* A node that passes.
LEMMA NodeLaid ==
  ASSUME NEW c \in Condition, NEW row, NEW l \in Seq(Part), NEW b, Cover(c, l, b),
         NEW n \in 1 .. Len(l), Typed(l[n]),
         NEW s \in Seq(Mark), Formed(s), NodeFits(s, l[n]), NEW e, Laid(c, row, s, e, b[n - 1])
  PROVE  \E d : Laid(c, row, NodeChecked(s, l[n]), d, b[n])
<1>0. PICK N \in Nat : N = Len(c) /\ c \in Seq(Node)
  BY DEF Condition
<1>1. PICK L \in Nat : L = Len(l)
  OBVIOUS
<1>2. PICK a \in 0 .. N, j \in 0 .. N : a = b[n - 1] /\ j = b[n]
  <2>1. b \in [0 .. L -> 0 .. N]
    BY <1>0, <1>1 DEF Cover
  <2>2. n - 1 \in 0 .. L /\ n \in 0 .. L
    BY <1>1
  <2> QED
    BY <2>1, <2>2
<1>3. a < j /\ Takes(c, l[n], a, j)
  BY <1>1, <1>2 DEF Cover
<1>4. CASE IsComparison(l[n]) /\ NodeChecked(s, l[n]) = PushExpr(Merged(s))
  <2>1. PICK k \in a + 1 .. j : IsComparison(c[k]) /\ l[n] = Comparison(c, a + 1, k, j)
    <3>1. ~(~IsComparison(c[j]) /\ l[n] = Convert(c[j]))
      BY <1>4 DEF IsComparison, Convert, LogicalNode
    <3> QED
      BY <1>3, <3>1 DEF Takes
  <2>2. ComparisonFits(l[n])
    BY <1>4 DEF NodeFits, IsComparison, CompareTypes, LikeTypes, Joins
  <2>3. PICK q : q = Reading(0, a + 1, j, Means(Comparison(c, a + 1, k, j), row))
    OBVIOUS
  <2>4. a + 1 \in 1 .. Len(c) /\ k \in a + 1 .. Len(c) /\ j \in k .. Len(c)
    BY <1>0
  <2>5. OneRead(c, row, q, a + 1, k, j)
    BY <2>1, <2>2, <2>3, <2>4 DEF OneRead, IsOneAt
  <2>6. q \in Comparisons(c, row)
    BY <1>0, <2>5, ComparisonRead
  <2>7. q \in Read(c, row)[0]
    BY <1>0, <2>6, ReadStep
  <2>8. 3 * j - 3 \in 0 .. 3 * Len(c) /\ 0 \in 0 .. 3 * j - 3
    BY <1>0, <1>3
  <2>9. q \in Read(c, row)[3 * j - 3]
    BY <1>0, <2>7, <2>8, ReadGrows
  <2>10. j \in a + 1 .. Len(c) /\ a \in Nat
    BY <1>0, <1>3
  <2>11. \E d : Laid(c, row, Append(Merged(s), "expr"), d, j)
    BY <1>0, <1>2, <2>3, <2>9, <2>10, OperandLaid
  <2> QED
    BY <1>2, <1>4, <2>11, PushExprShape
<1>5. ASSUME ~IsComparison(l[n])
      PROVE  j = a + 1 /\ l[n].type = c[j].type
  <2>1. \A k : l[n] = Comparison(c, a + 1, k, j) => ~IsComparison(c[k])
    BY <1>5 DEF IsComparison, Comparison, LogicalNode
  <2> QED
    BY <1>3, <2>1 DEF Takes, Convert, LogicalNode
<1>6. CASE l[n].type = "kleft" /\ NodeChecked(s, l[n]) = Append(s, "left")
  <2>1. ~IsComparison(l[n])
    BY <1>6 DEF IsComparison, CompareTypes, LikeTypes
  <2>2. Stood(c, row, "left", a, j)
    BY <1>3, <1>5, <1>6, <2>1 DEF Stood
  <2>3. "left" \in Mark /\ j \in 0 .. Len(c)
    BY <1>0 DEF Mark
  <2> QED
    BY <1>0, <1>2, <1>6, <2>2, <2>3, LaidMore
<1>7. CASE l[n].type \in Joins /\ NodeChecked(s, l[n]) = Append(s, "opt")
  <2>1. ~IsComparison(l[n])
    BY <1>7 DEF IsComparison, CompareTypes, LikeTypes, Joins
  <2>2. Stood(c, row, "opt", a, j)
    BY <1>3, <1>5, <1>7, <2>1 DEF Stood
  <2>3. "opt" \in Mark /\ j \in 0 .. Len(c)
    BY <1>0 DEF Mark
  <2> QED
    BY <1>0, <1>2, <1>7, <2>2, <2>3, LaidMore
<1>8. CASE /\ l[n].type = "kright" /\ Len(s) >= 2
           /\ s[Len(s) - 1] = "left" /\ s[Len(s)] = "expr"
           /\ NodeChecked(s, l[n]) = PushExpr(Popped(s, 2))
  <2>1. ~IsComparison(l[n])
    BY <1>8 DEF IsComparison, CompareTypes, LikeTypes
  <2>2. j = a + 1 /\ c[j].type = "kright"
    BY <1>5, <1>8, <2>1
  <2>3. PICK M \in Nat : M = Len(s)
    OBVIOUS
  <2>4. PICK y \in Seq(Mark) : /\ y = Popped(s, 2) /\ Len(y) = M - 2
                               /\ \A i \in 1 .. M - 2 : y[i] = s[i]
    BY <1>8, <2>3, PopTwo
  <2>5. Formed(y)
    <3>1. ASSUME NEW i \in 1 .. M - 2, y[i] = "opt"
          PROVE  i > 1 /\ y[i - 1] = "expr" /\ (i < M - 2 => y[i + 1] = "left")
      <4>1. i \in 1 .. M /\ s[i] = "opt" /\ i < M
        BY <2>4, <3>1
      <4>2. i > 1 /\ s[i - 1] = "expr" /\ s[i + 1] = "left"
        BY <2>3, <4>1 DEF Formed
      <4>3. i - 1 \in 1 .. M - 2 /\ (i < M - 2 => i + 1 \in 1 .. M - 2)
        BY <4>2
      <4> QED
        BY <2>4, <4>2, <4>3
    <3> QED
      BY <2>4, <3>1 DEF Formed
  <2>6. /\ e \in [0 .. M -> 0 .. N] /\ e[M] = a
        /\ \A m \in 1 .. M : Stood(c, row, s[m], e[m - 1], e[m])
    BY <1>0, <1>2, <2>3 DEF Laid
  <2>7. M \in 1 .. M /\ M - 1 \in 1 .. M /\ M - 1 \in 0 .. M /\ M - 2 \in 0 .. M /\ (M - 1) - 1 = M - 2
    BY <1>8, <2>3
  <2>8. PICK h \in 0 .. N, f \in 0 .. N : h = e[M - 1] /\ f = e[M - 2]
    BY <2>6, <2>7
  <2>9. Stood(c, row, "expr", h, a)
    BY <1>8, <2>3, <2>6, <2>7, <2>8
  <2>10. Stood(c, row, "left", f, h)
    <3>1. Stood(c, row, s[M - 1], e[(M - 1) - 1], e[M - 1])
      BY <2>6, <2>7
    <3> QED
      BY <1>8, <2>3, <2>7, <2>8, <3>1
  <2>11. h = f + 1 /\ c[h].type = "kleft" /\ h < a
    BY <2>9, <2>10 DEF Stood
  <2>12. PICK t : Reading(1, h + 1, a, t) \in Read(c, row)[3 * a - 2]
    BY <2>9 DEF Stood
  <2>13. PICK r : r = Reading(1, h + 1, a, t)
    OBVIOUS
  <2>14. PICK q : q = Reading(0, f + 1, j, t)
    OBVIOUS
  <2>15. InBrackets(c, q, r)
    <3>1. r.level = 1 /\ r.from = h + 1 /\ r.to = a /\ r.number = t
      BY <2>13 DEF Reading
    <3>2. h + 1 > 1 /\ a < Len(c) /\ (h + 1) - 1 = h /\ c[a + 1].type = "kright"
      BY <1>0, <2>2, <2>11
    <3>3. q = Reading(0, (h + 1) - 1, a + 1, t)
      BY <2>2, <2>11, <2>14, <3>2
    <3> QED
      BY <2>11, <3>1, <3>2, <3>3 DEF InBrackets
  <2>16. q \in Beyond(c, Read(c, row)[3 * a - 2])
    BY <2>12, <2>13, <2>15, BeyondKinds
  <2>17. q \in Read(c, row)[3 * j - 3]
    <3>1. PICK z \in Nat : z = 3 * a - 2 /\ z < 3 * Len(c)
      <4>1. 3 * a - 2 \in Nat /\ 3 * a - 2 < 3 * Len(c)
        BY <1>0, <2>11
      <4> QED
        BY <4>1
    <3>2. q \in Read(c, row)[z + 1]
      BY <1>0, <2>16, <3>1, ReadNext
    <3>3. 3 * j - 3 \in 0 .. 3 * Len(c) /\ z + 1 \in 0 .. 3 * j - 3
      BY <1>0, <2>2, <3>1
    <3> QED
      BY <1>0, <3>2, <3>3, ReadGrows
  <2>18. PICK d : Laid(c, row, y, d, f)
    <3>1. Len(y) <= Len(s) /\ \A m \in 1 .. Len(y) : y[m] = s[m]
      BY <2>3, <2>4, <2>7
    <3> QED
      BY <2>4, <2>8, <3>1, LaidLess
  <2>19. j \in f + 1 .. Len(c) /\ f \in Nat
    BY <1>0, <2>2, <2>11
  <2>20. \E g : Laid(c, row, Append(Merged(y), "expr"), g, j)
    BY <1>0, <2>5, <2>14, <2>17, <2>18, <2>19, OperandLaid
  <2> QED
    BY <1>2, <1>8, <2>4, <2>5, <2>20, PushExprShape
<1> QED
  BY <1>4, <1>6, <1>7, <1>8, FitsCases

\* All that the check accepts has a truth for every record.
LEMMA AcceptedHasTruth ==
  ASSUME NEW c \in Condition, NEW row, NEW l \in Seq(Part), NEW b,
         Cover(c, l, b), b[Len(l)] = Len(c), Passes(l, Len(l)), Walk(l) = <<"expr">>,
         \A m \in 1 .. Len(l) : Typed(l[m])
  PROVE  Truths(c, row) # {}
<1>0. PICK N \in Nat : N = Len(c) /\ c \in Seq(Node)
  BY DEF Condition
<1>1. PICK L \in Nat : L = Len(l)
  OBVIOUS
<1> DEFINE T == {n \in 0 .. L : \E e : Laid(c, row, Walk(SubSeq(l, 1, n)), e, b[n])}
<1>2. 0 \in T
  <2>1. SubSeq(l, 1, 0) = <<>> /\ b[0] = 0
    BY DEF Cover
  <2>2. Walk(SubSeq(l, 1, 0)) = <<>>
    BY <2>1, WalkOfNothing
  <2> DEFINE e == [m \in 0 .. 0 |-> 0]
  <2>3. e \in [0 .. 0 -> 0 .. N] /\ e[0] = 0
    OBVIOUS
  <2> HIDE DEF e
  <2>4. Len(<<>>) = 0 /\ 1 .. 0 = {}
    OBVIOUS
  <2>5. Laid(c, row, <<>>, e, 0)
    BY <1>0, <2>3, <2>4 DEF Laid
  <2> QED
    BY <2>1, <2>2, <2>5
<1>3. ASSUME NEW n \in 0 .. L - 1, n \in T
      PROVE  n + 1 \in T
  <2>1. PICK k \in 1 .. Len(l) : k = n + 1 /\ k - 1 = n
    BY <1>1
  <2>2. PICK s : s = Walk(SubSeq(l, 1, n))
    OBVIOUS
  <2>3. PICK e : Laid(c, row, s, e, b[k - 1])
    BY <1>3, <2>1, <2>2
  <2>4. n \in 0 .. Len(l) /\ Len(l) \in 0 .. Len(l)
    BY <1>1
  <2>5. s \in Seq(Mark) /\ Formed(s)
    BY <2>2, <2>4, WalkShape
  <2>6. NodeFits(s, l[k])
    BY <2>1, <2>2 DEF Passes
  <2>7. \E d : Laid(c, row, NodeChecked(s, l[k]), d, b[k])
    BY <2>3, <2>5, <2>6, NodeLaid
  <2>8. Walk(SubSeq(l, 1, k)) = NodeChecked(Walk(SubSeq(l, 1, k - 1)), l[k])
    BY PrefixStep
  <2>9. n + 1 \in 0 .. L
    OBVIOUS
  <2> QED
    BY <2>1, <2>2, <2>7, <2>8, <2>9
<1> HIDE DEF T
<1>4. L \in T
  <2>1. \A n \in 0 .. L : n \in T
    BY <1>2, <1>3, Climb
  <2> QED
    BY <2>1
<1>5. SubSeq(l, 1, L) = l
  BY <1>1
<1>6. PICK e : Laid(c, row, <<"expr">>, e, N)
  BY <1>0, <1>1, <1>4, <1>5 DEF T
<1>7. e[0] = 0 /\ e[1] = N /\ Stood(c, row, "expr", 0, N)
  <2>1. Len(<<"expr">>) = 1 /\ <<"expr">>[1] = "expr" /\ 1 \in 1 .. 1 /\ 1 - 1 = 0
    OBVIOUS
  <2>2. e[0] = 0 /\ e[1] = N
    BY <1>6, <2>1 DEF Laid
  <2>3. Stood(c, row, <<"expr">>[1], e[1 - 1], e[1])
    BY <1>6, <2>1 DEF Laid
  <2> QED
    BY <2>1, <2>2, <2>3
<1>8. PICK t : 0 < N /\ Reading(1, 0 + 1, N, t) \in Read(c, row)[3 * N - 2]
  BY <1>7 DEF Stood
<1>9. PICK r : r = Reading(1, 1, N, t)
  OBVIOUS
<1>10. r \in Read(c, row)[3 * Len(c)] /\ WholeOf(c, r)
  <2>1. 3 * Len(c) \in 0 .. 3 * Len(c) /\ 3 * N - 2 \in 0 .. 3 * Len(c) /\ 0 + 1 = 1
    BY <1>0, <1>8
  <2>2. Read(c, row)[3 * N - 2] \subseteq Read(c, row)[3 * Len(c)]
    BY <1>0, <2>1, ReadGrows
  <2>3. r \in Read(c, row)[3 * Len(c)]
    BY <1>8, <1>9, <2>1, <2>2
  <2> QED
    BY <1>0, <1>9, <2>3 DEF WholeOf, Reading
<1> QED
  BY <1>10, TruthsRead

-----------------------------------------------------------------------------
(* A comparison is evaluated to what it means. *)

\* Three sequences, one behind the other.
LEMMA Sandwich ==
  ASSUME NEW x \in Seq(Nat), NEW u \in Seq(Nat), NEW y \in Seq(Nat)
  PROVE  LET r == x \o u \o y IN
         /\ r \in Seq(Nat) /\ Len(r) = Len(x) + Len(u) + Len(y)
         /\ \A i \in 1 .. Len(x) : r[i] = x[i]
         /\ \A i \in 1 .. Len(u) : r[Len(x) + i] = u[i]
         /\ \A i \in 1 .. Len(y) : r[Len(x) + Len(u) + i] = y[i]
<1>1. PICK a \in Nat, b \in Nat, d \in Nat : a = Len(x) /\ b = Len(u) /\ d = Len(y)
  OBVIOUS
<1>2. PICK z \in Seq(Nat) : /\ z = x \o u /\ Len(z) = a + b
                            /\ \A i \in 1 .. a : z[i] = x[i]
                            /\ \A i \in a + 1 .. a + b : z[i] = u[i - a]
  <2>1. /\ x \o u \in Seq(Nat) /\ Len(x \o u) = a + b
        /\ \A i \in 1 .. a : (x \o u)[i] = x[i]
        /\ \A i \in a + 1 .. a + b : (x \o u)[i] = u[i - a]
    <3>1. \A i \in 1 .. a + b : (x \o u)[i] = IF i <= a THEN x[i] ELSE u[i - a]
      BY <1>1, ConcatProperties
    <3>2. \A i \in 1 .. a : i \in 1 .. a + b /\ i <= a
      OBVIOUS
    <3>3. \A i \in a + 1 .. a + b : i \in 1 .. a + b /\ ~(i <= a)
      OBVIOUS
    <3> QED
      BY <1>1, <3>1, <3>2, <3>3, ConcatProperties
  <2> QED
    BY <2>1
<1>3. PICK r \in Seq(Nat) : /\ r = z \o y /\ Len(r) = a + b + d
                            /\ \A i \in 1 .. a + b : r[i] = z[i]
                            /\ \A i \in a + b + 1 .. a + b + d : r[i] = y[i - (a + b)]
  <2>1. /\ z \o y \in Seq(Nat) /\ Len(z \o y) = a + b + d
        /\ \A i \in 1 .. a + b : (z \o y)[i] = z[i]
        /\ \A i \in a + b + 1 .. a + b + d : (z \o y)[i] = y[i - (a + b)]
    <3>1. \A i \in 1 .. (a + b) + d : (z \o y)[i] = IF i <= a + b THEN z[i] ELSE y[i - (a + b)]
      BY <1>1, <1>2, ConcatProperties
    <3>2. \A i \in 1 .. a + b : i \in 1 .. (a + b) + d /\ i <= a + b
      OBVIOUS
    <3>3. \A i \in a + b + 1 .. a + b + d : i \in 1 .. (a + b) + d /\ ~(i <= a + b)
      OBVIOUS
    <3> QED
      BY <1>1, <1>2, <3>1, <3>2, <3>3, ConcatProperties
  <2> QED
    BY <2>1
<1>4. \A i \in 1 .. a : r[i] = x[i]
  BY <1>2, <1>3
<1>5. ASSUME NEW i \in 1 .. b PROVE r[a + i] = u[i]
  <2>1. a + i \in a + 1 .. a + b /\ a + i \in 1 .. a + b /\ (a + i) - a = i
    OBVIOUS
  <2> QED
    BY <1>2, <1>3, <2>1
<1>6. ASSUME NEW i \in 1 .. d PROVE r[a + b + i] = y[i]
  <2>1. a + b + i \in a + b + 1 .. a + b + d /\ (a + b + i) - (a + b) = i
    OBVIOUS
  <2> QED
    BY <1>3, <2>1
<1> QED
  BY <1>1, <1>2, <1>3, <1>4, <1>5, <1>6

\* What a pattern says of the beginning and the end of a text.
AtStart(s) == IF s # <<>> /\ Head(s) = Caret THEN <<Caret>> ELSE <<>>
AtEnd(s) == IF s # <<>> /\ Last(s) = Dollar THEN <<Dollar>> ELSE <<>>

\* load_logical takes just these signs from the pattern.
LEMMA BodyIs ==
  ASSUME NEW s \in Seq(Nat)
  PROVE  /\ Body(s) \in Seq(Nat) /\ AtStart(s) \in Seq(Nat) /\ AtEnd(s) \in Seq(Nat)
         /\ LikeStart(s) <=> AtStart(s) # <<>>
         /\ LikeEnd(s) <=> AtEnd(s) # <<>>
         /\ \A u \in Seq(Nat) : s = AtStart(s) \o u \o AtEnd(s) <=> u = Body(s)
<1>1. PICK n \in Nat : n = Len(s)
  OBVIOUS
<1>2. PICK e \in {0, 1} : e = 1 <=> LikeEnd(s)
  <2>1. CASE LikeEnd(s)
    <3>1. 1 \in {0, 1}
      OBVIOUS
    <3> QED
      BY <2>1, <3>1
  <2>2. CASE ~LikeEnd(s)
    <3>1. 0 \in {0, 1} /\ 0 # 1
      OBVIOUS
    <3> QED
      BY <2>2, <3>1
  <2> QED
    BY <2>1, <2>2
<1>3. e = 1 <=> n >= 1 /\ s[n] = 36
  BY <1>1, <1>2 DEF LikeEnd, Last, Dollar
<1>4. PICK U \in Seq(Nat) : U = Unended(s) /\ Len(U) = n - e /\ \A i \in 1 .. n - e : U[i] = s[i]
  <2>1. CASE e = 1
    <3>1. Unended(s) = SubSeq(s, 1, n - 1)
      BY <1>1, <1>2, <2>1 DEF Unended, Front
    <3>2. n >= 1
      BY <1>3, <2>1
    <3>3. /\ SubSeq(s, 1, n - 1) \in Seq(Nat) /\ Len(SubSeq(s, 1, n - 1)) = n - 1
          /\ \A i \in 1 .. n - 1 : SubSeq(s, 1, n - 1)[i] = s[i]
      BY <1>1, <3>2
    <3> QED
      BY <2>1, <3>1, <3>3
  <2>2. CASE e = 0
    <3>1. Unended(s) = s /\ n - e = n
      BY <1>2, <2>2 DEF Unended
    <3> QED
      BY <1>1, <3>1
  <2> QED
    BY <2>1, <2>2
<1>5. LikeStart(s) <=> n >= 1 /\ s[1] = 94
  <2>1. LikeStart(s) <=> n - e >= 1 /\ s[1] = 94
    BY <1>1, <1>4 DEF LikeStart, Caret
  <2>2. n >= 1 /\ s[1] = 94 => n - e >= 1
    BY <1>3
  <2>3. n - e >= 1 => n >= 1
    OBVIOUS
  <2> QED
    BY <2>1, <2>2, <2>3
<1>6. PICK a \in {0, 1} : a = 1 <=> n >= 1 /\ s[1] = 94
  <2>1. CASE n >= 1 /\ s[1] = 94
    <3>1. 1 \in {0, 1}
      OBVIOUS
    <3> QED
      BY <2>1, <3>1
  <2>2. CASE ~(n >= 1 /\ s[1] = 94)
    <3>1. 0 \in {0, 1} /\ 0 # 1
      OBVIOUS
    <3> QED
      BY <2>2, <3>1
  <2> QED
    BY <2>1, <2>2
<1>7. a = 1 => n - e >= 1
  BY <1>3, <1>6
<1>8. PICK k \in Nat : k = n - e - a
  <2>1. n - e - a \in Nat
    BY <1>3, <1>7
  <2> QED
    BY <2>1
<1>9. PICK w \in Seq(Nat) : w = Body(s) /\ Len(w) = k /\ \A i \in 1 .. k : w[i] = s[a + i]
  <2>1. CASE a = 1
    <3>1. Body(s) = Tail(U)
      BY <1>4, <1>5, <1>6, <2>1 DEF Body
    <3>2. U # <<>>
      BY <1>4, <1>7, <2>1
    <3>3. Tail(U) \in Seq(Nat) /\ Len(Tail(U)) = Len(U) - 1 /\ \A i \in 1 .. Len(U) - 1 : Tail(U)[i] = U[i + 1]
      BY <3>2
    <3>4. Len(U) - 1 = k /\ \A i \in 1 .. k : i + 1 \in 1 .. n - e /\ i + 1 = a + i
      BY <1>4, <1>8, <2>1
    <3>5. \A i \in 1 .. k : Tail(U)[i] = s[a + i]
      BY <1>4, <3>3, <3>4
    <3> QED
      BY <3>1, <3>3, <3>4, <3>5
  <2>2. CASE a = 0
    <3>1. Body(s) = U /\ Len(U) = k
      BY <1>4, <1>5, <1>6, <1>8, <2>2 DEF Body
    <3>2. \A i \in 1 .. k : a + i = i /\ i \in 1 .. n - e
      BY <1>8, <2>2
    <3> QED
      BY <1>4, <3>1, <3>2
  <2> QED
    BY <2>1, <2>2
<1>10. PICK B \in Seq(Nat) : B = AtStart(s) /\ Len(B) = a /\ \A i \in 1 .. a : B[i] = s[i]
  <2>1. CASE a = 1
    <3>1. AtStart(s) = <<94>> /\ s[1] = 94
      BY <1>1, <1>6, <2>1 DEF AtStart, Caret
    <3>2. <<94>> \in Seq(Nat) /\ Len(<<94>>) = 1 /\ <<94>>[1] = 94
      OBVIOUS
    <3>3. AtStart(s) \in Seq(Nat) /\ Len(AtStart(s)) = a /\ \A i \in 1 .. a : AtStart(s)[i] = s[i]
      BY <2>1, <3>1, <3>2
    <3> QED
      BY <3>3
  <2>2. CASE a = 0
    <3>1. AtStart(s) = <<>>
      BY <1>1, <1>6, <2>2 DEF AtStart, Caret
    <3>2. AtStart(s) \in Seq(Nat) /\ Len(AtStart(s)) = a /\ \A i \in 1 .. a : AtStart(s)[i] = s[i]
      BY <2>2, <3>1
    <3> QED
      BY <3>2
  <2> QED
    BY <2>1, <2>2
<1>11. PICK E \in Seq(Nat) : E = AtEnd(s) /\ Len(E) = e /\ \A i \in 1 .. e : E[i] = s[a + k + i]
  <2>1. CASE e = 1
    <3>1. AtEnd(s) = <<36>> /\ s[n] = 36 /\ a + k + 1 = n
      BY <1>1, <1>3, <1>8, <2>1 DEF AtEnd, Dollar, Last
    <3>2. <<36>> \in Seq(Nat) /\ Len(<<36>>) = 1 /\ <<36>>[1] = 36
      OBVIOUS
    <3>3. AtEnd(s) \in Seq(Nat) /\ Len(AtEnd(s)) = e /\ \A i \in 1 .. e : AtEnd(s)[i] = s[a + k + i]
      BY <2>1, <3>1, <3>2
    <3> QED
      BY <3>3
  <2>2. CASE e = 0
    <3>1. AtEnd(s) = <<>>
      BY <1>1, <1>3, <2>2 DEF AtEnd, Dollar, Last
    <3>2. AtEnd(s) \in Seq(Nat) /\ Len(AtEnd(s)) = e /\ \A i \in 1 .. e : AtEnd(s)[i] = s[a + k + i]
      BY <2>2, <3>1
    <3> QED
      BY <3>2
  <2> QED
    BY <2>1, <2>2
<1>12. LikeStart(s) <=> B # <<>>
  BY <1>5, <1>6, <1>10
<1>13. LikeEnd(s) <=> E # <<>>
  BY <1>2, <1>11
<1>14. ASSUME NEW u \in Seq(Nat), s = B \o u \o E
       PROVE  u = w
  <2>1. PICK m \in Nat : m = Len(u)
    OBVIOUS
  <2>2. n = a + m + e /\ \A i \in 1 .. m : s[a + i] = u[i]
    <3>1. /\ Len(B \o u \o E) = Len(B) + Len(u) + Len(E)
          /\ \A i \in 1 .. Len(u) : (B \o u \o E)[Len(B) + i] = u[i]
      BY Sandwich
    <3> QED
      BY <1>1, <1>10, <1>11, <1>14, <2>1, <3>1
  <2>3. m = k
    BY <1>8, <2>2
  <2>4. Len(u) = Len(w) /\ \A i \in 1 .. Len(u) : u[i] = w[i]
    BY <1>9, <2>1, <2>2, <2>3
  <2> QED
    BY <2>4, SeqEqual
<1>15. s = B \o w \o E
  <2>1. PICK r \in Seq(Nat) : /\ r = B \o w \o E /\ Len(r) = a + k + e
                              /\ \A i \in 1 .. a : r[i] = B[i]
                              /\ \A i \in 1 .. k : r[a + i] = w[i]
                              /\ \A i \in 1 .. e : r[a + k + i] = E[i]
    <3>1. /\ B \o w \o E \in Seq(Nat) /\ Len(B \o w \o E) = Len(B) + Len(w) + Len(E)
          /\ \A i \in 1 .. Len(B) : (B \o w \o E)[i] = B[i]
          /\ \A i \in 1 .. Len(w) : (B \o w \o E)[Len(B) + i] = w[i]
          /\ \A i \in 1 .. Len(E) : (B \o w \o E)[Len(B) + Len(w) + i] = E[i]
      BY Sandwich
    <3>2. Len(B) = a /\ Len(w) = k /\ Len(E) = e
      BY <1>9, <1>10, <1>11
    <3> QED
      BY <3>1, <3>2
  <2>2. a + k + e = n
    BY <1>8
  <2>3. ASSUME NEW i \in 1 .. n
        PROVE  r[i] = s[i]
    <3>1. CASE i <= a
      <4>1. i \in 1 .. a
        BY <3>1
      <4> QED
        BY <1>10, <2>1, <4>1
    <3>2. CASE i > a /\ i <= a + k
      <4>1. PICK j \in 1 .. k : i = a + j
        <5>1. i - a \in 1 .. k /\ i = a + (i - a)
          BY <3>2
        <5> QED
          BY <5>1
      <4> QED
        BY <1>9, <2>1, <4>1
    <3>3. CASE i > a + k
      <4>1. PICK j \in 1 .. e : i = a + k + j
        <5>1. i - (a + k) \in 1 .. e /\ i = a + k + (i - (a + k))
          BY <2>2, <3>3
        <5> QED
          BY <5>1
      <4> QED
        BY <1>11, <2>1, <4>1
    <3> QED
      BY <3>1, <3>2, <3>3
  <2>4. Len(r) = Len(s) /\ \A i \in 1 .. Len(r) : r[i] = s[i]
    BY <1>1, <2>1, <2>2, <2>3
  <2>5. r = s
    BY <2>4, SeqEqual
  <2> QED
    BY <2>1, <2>5
<1> QED
  BY <1>9, <1>10, <1>11, <1>12, <1>13, <1>14, <1>15

\* A text has w behind the first i - 1 characters, up to the j-th.
Has(v, w, i, j) == i \in 1 .. Len(v) + 1 /\ j \in 0 .. Len(v) /\ i <= j + 1 /\ w = SubSeq(v, i, j)

\* A part of a text.
LEMMA HasPart ==
  ASSUME NEW v \in Seq(Nat), NEW i \in 1 .. Len(v) + 1, NEW j \in 0 .. Len(v), i <= j + 1
  PROVE  /\ SubSeq(v, i, j) \in Seq(Nat) /\ Len(SubSeq(v, i, j)) = j - i + 1
         /\ \A n \in 1 .. j - i + 1 : SubSeq(v, i, j)[n] = v[i - 1 + n]
<1>1. j \in i - 1 .. Len(v)
  OBVIOUS
<1>2. /\ SubSeq(v, i, j) \in Seq(Nat) /\ Len(SubSeq(v, i, j)) = j - (i - 1)
      /\ \A n \in 1 .. j - (i - 1) : SubSeq(v, i, j)[n] = v[(i - 1) + n]
  BY <1>1, PartNodes
<1>3. j - (i - 1) = j - i + 1
  OBVIOUS
<1> QED
  BY <1>2, <1>3

\* What is at the beginning, at the end, and anywhere.
LEMMA PrefixHas ==
  ASSUME NEW v \in Seq(Nat), NEW w \in Seq(Nat)
  PROVE  IsPrefix(w, v) <=> \E j : Has(v, w, 1, j)
<1>1. PICK n \in Nat, m \in Nat : n = Len(v) /\ m = Len(w)
  OBVIOUS
<1>2. SubSeq(w, 1, m) = w
  BY <1>1
<1>3. ASSUME IsPrefix(w, v) PROVE Has(v, w, 1, m)
  BY <1>1, <1>2, <1>3 DEF IsPrefix, Has
<1>4. ASSUME NEW j, Has(v, w, 1, j) PROVE IsPrefix(w, v)
  <2>1. j \in 0 .. n /\ w = SubSeq(v, 1, j) /\ 1 \in 1 .. Len(v) + 1 /\ 1 <= j + 1
    BY <1>1, <1>4 DEF Has
  <2>2. Len(w) = j - 1 + 1
    BY <1>1, <2>1, HasPart
  <2>3. m = j
    BY <1>1, <2>1, <2>2
  <2> QED
    BY <1>1, <1>2, <2>1, <2>3 DEF IsPrefix
<1> QED
  BY <1>3, <1>4

\* A text turned round.
LEMMA Reversed ==
  ASSUME NEW v \in Seq(Nat)
  PROVE  /\ Reverse(v) \in Seq(Nat) /\ Len(Reverse(v)) = Len(v)
         /\ \A i \in 1 .. Len(v) : Reverse(v)[i] = v[(Len(v) - i) + 1]
<1>1. PICK n \in Nat : n = Len(v)
  OBVIOUS
<1>2. \A i \in 1 .. n : (n - i) + 1 \in 1 .. n
  OBVIOUS
<1>3. \A i \in 1 .. n : v[(n - i) + 1] \in Nat
  BY <1>1, <1>2
<1>4. Reverse(v) = [i \in 1 .. n |-> v[(n - i) + 1]]
  BY <1>1 DEF Reverse
<1>5. Reverse(v) \in [1 .. n -> Nat]
  BY <1>3, <1>4
<1>6. Reverse(v) \in Seq(Nat) /\ Len(Reverse(v)) = n
  BY <1>5
<1> QED
  BY <1>1, <1>4, <1>6

\* endwith finds the value where the text ends.
LEMMA SuffixHas ==
  ASSUME NEW v \in Seq(Nat), NEW w \in Seq(Nat)
  PROVE  IsSuffix(w, v) <=> \E i : Has(v, w, i, Len(v))
<1>1. PICK n \in Nat, m \in Nat : n = Len(v) /\ m = Len(w)
  OBVIOUS
<1>2. PICK x \in Seq(Nat) : /\ x = Reverse(v) /\ Len(x) = n /\ \A i \in 1 .. n : x[i] = v[(n - i) + 1]
  BY <1>1, Reversed
<1>3. PICK y \in Seq(Nat) : /\ y = Reverse(w) /\ Len(y) = m /\ \A i \in 1 .. m : y[i] = w[(m - i) + 1]
  BY <1>1, Reversed
<1>4. IsSuffix(w, v) <=> IsPrefix(y, x)
  BY <1>2, <1>3 DEF IsSuffix
<1>5. ASSUME IsPrefix(y, x) PROVE \E i : Has(v, w, i, n)
  <2>1. PICK j : Has(x, y, 1, j)
    BY <1>5, PrefixHas
  <2>2. j \in 0 .. Len(x) /\ y = SubSeq(x, 1, j) /\ 1 \in 1 .. Len(x) + 1 /\ 1 <= j + 1
    BY <2>1 DEF Has
  <2>3. Len(y) = j - 1 + 1 /\ \A k \in 1 .. j - 1 + 1 : y[k] = x[1 - 1 + k]
    BY <2>2, HasPart
  <2>4. m = j /\ m <= n
    BY <1>2, <1>3, <2>2, <2>3
  <2>5. \A k \in 1 .. m : y[k] = x[k]
    BY <2>3, <2>4
  <2>6. PICK i \in 1 .. n + 1 : i = n - m + 1
    <3>1. n - m + 1 \in 1 .. n + 1
      BY <2>4
    <3> QED
      BY <3>1
  <2>7. i \in 1 .. Len(v) + 1 /\ n \in 0 .. Len(v) /\ i <= n + 1 /\ n - i + 1 = m
    BY <1>1, <2>4, <2>6
  <2>8. PICK z \in Seq(Nat) : /\ z = SubSeq(v, i, n) /\ Len(z) = m
                              /\ \A k \in 1 .. m : z[k] = v[i - 1 + k]
    <3>1. /\ SubSeq(v, i, n) \in Seq(Nat) /\ Len(SubSeq(v, i, n)) = n - i + 1
          /\ \A k \in 1 .. n - i + 1 : SubSeq(v, i, n)[k] = v[i - 1 + k]
      BY <2>7, HasPart
    <3> QED
      BY <2>7, <3>1
  <2>9. ASSUME NEW k \in 1 .. m PROVE w[k] = z[k]
    <3>1. PICK h \in 1 .. m : h = (m - k) + 1
      <4>1. (m - k) + 1 \in 1 .. m
        OBVIOUS
      <4> QED
        BY <4>1
    <3>2. y[h] = w[k]
      <4>1. (m - h) + 1 = k
        BY <3>1
      <4> QED
        BY <1>3, <4>1
    <3>3. x[h] = v[i - 1 + k]
      <4>1. h \in 1 .. n /\ (n - h) + 1 = i - 1 + k
        BY <2>4, <2>6, <3>1
      <4> QED
        BY <1>2, <4>1
    <3> QED
      BY <2>5, <2>8, <3>2, <3>3
  <2>10. Len(w) = Len(z) /\ \A k \in 1 .. Len(w) : w[k] = z[k]
    BY <1>1, <2>8, <2>9
  <2>11. w = z
    BY <2>10, SeqEqual
  <2> QED
    BY <2>7, <2>8, <2>11 DEF Has
<1>6. ASSUME NEW i, Has(v, w, i, n) PROVE IsPrefix(y, x)
  <2>1. i \in 1 .. Len(v) + 1 /\ n \in 0 .. Len(v) /\ i <= n + 1 /\ w = SubSeq(v, i, n)
    BY <1>6 DEF Has
  <2>2. Len(w) = n - i + 1 /\ \A k \in 1 .. n - i + 1 : w[k] = v[i - 1 + k]
    BY <2>1, HasPart
  <2>3. i \in 1 .. n + 1 /\ m = n - i + 1 /\ m <= n
    BY <1>1, <2>1, <2>2
  <2>4. ASSUME NEW k \in 1 .. m PROVE y[k] = x[k]
    <3>1. PICK h \in 1 .. m : h = (m - k) + 1
      <4>1. (m - k) + 1 \in 1 .. m
        OBVIOUS
      <4> QED
        BY <4>1
    <3>2. y[k] = w[h]
      BY <1>3, <3>1
    <3>3. w[h] = v[i - 1 + h]
      BY <2>2, <2>3
    <3>4. i - 1 + h = (n - k) + 1 /\ k \in 1 .. n
      BY <2>3, <3>1
    <3> QED
      BY <1>2, <3>2, <3>3, <3>4
  <2>5. m \in 0 .. Len(x) /\ 1 \in 1 .. Len(x) + 1 /\ 1 <= m + 1
    BY <1>2, <2>3
  <2>6. PICK z \in Seq(Nat) : z = SubSeq(x, 1, m) /\ Len(z) = m /\ \A k \in 1 .. m : z[k] = x[k]
    <3>1. /\ SubSeq(x, 1, m) \in Seq(Nat) /\ Len(SubSeq(x, 1, m)) = m - 1 + 1
          /\ \A k \in 1 .. m - 1 + 1 : SubSeq(x, 1, m)[k] = x[1 - 1 + k]
      BY <2>5, HasPart
    <3>2. m - 1 + 1 = m /\ \A k \in 1 .. m : 1 - 1 + k = k
      OBVIOUS
    <3> QED
      BY <3>1, <3>2
  <2>7. Len(y) = Len(z) /\ \A k \in 1 .. Len(y) : y[k] = z[k]
    BY <1>3, <2>4, <2>6
  <2>8. y = z
    BY <2>7, SeqEqual
  <2>9. Has(x, y, 1, m)
    BY <2>5, <2>6, <2>8 DEF Has
  <2> QED
    BY <2>9, PrefixHas
<1> QED
  BY <1>1, <1>4, <1>5, <1>6

\* contain finds the value anywhere in the text.
LEMMA PartHas ==
  ASSUME NEW v \in Seq(Nat), NEW w \in Seq(Nat)
  PROVE  w \in SubSeqs(v) <=> \E i, j : Has(v, w, i, j)
<1>1. PICK n \in Nat : n = Len(v)
  OBVIOUS
<1>2. w \in SubSeqs(v) <=> \E i, j \in 0 .. n : w = SubSeq(v, i + 1, j)
  BY <1>1 DEF SubSeqs
<1>3. ASSUME NEW i \in 0 .. n, NEW j \in 0 .. n, w = SubSeq(v, i + 1, j)
      PROVE  \E a, b : Has(v, w, a, b)
  <2>1. CASE i <= j
    <3>1. i + 1 \in 1 .. Len(v) + 1 /\ j \in 0 .. Len(v) /\ i + 1 <= j + 1
      BY <1>1, <2>1
    <3> QED
      BY <1>3, <3>1 DEF Has
  <2>2. CASE j < i
    <3>1. SubSeq(v, i + 1, j) = <<>> /\ SubSeq(v, 1, 0) = <<>>
      BY <2>2
    <3>2. 1 \in 1 .. Len(v) + 1 /\ 0 \in 0 .. Len(v) /\ 1 <= 0 + 1
      BY <1>1
    <3> QED
      BY <1>3, <3>1, <3>2 DEF Has
  <2> QED
    BY <2>1, <2>2
<1>4. ASSUME NEW a, NEW b, Has(v, w, a, b)
      PROVE  \E i, j \in 0 .. n : w = SubSeq(v, i + 1, j)
  <2>1. a \in 1 .. n + 1 /\ b \in 0 .. n /\ w = SubSeq(v, a, b)
    BY <1>1, <1>4 DEF Has
  <2>2. PICK i \in 0 .. n : i + 1 = a
    <3>1. a - 1 \in 0 .. n /\ (a - 1) + 1 = a
      BY <2>1
    <3> QED
      BY <3>1
  <2> QED
    BY <2>1, <2>2
<1> QED
  BY <1>2, <1>3, <1>4

\* A text is LIKE a pattern, as it is evaluated, if it matches it.
LEMMA LikesMatches ==
  ASSUME NEW v \in Seq(Nat), NEW s \in Seq(Nat)
  PROVE  Likes(v, s) <=> Matches(v, s)
<1>1. PICK n \in Nat : n = Len(v)
  OBVIOUS
<1>2. PICK w \in Seq(Nat) : w = Body(s)
  BY BodyIs
<1>3. Matches(v, s) <=> \E i \in 1 .. Len(v) + 1, j \in 0 .. Len(v) :
        /\ i <= j + 1 /\ s = AtStart(s) \o SubSeq(v, i, j) \o AtEnd(s)
        /\ (AtStart(s) # <<>> => i = 1) /\ (AtEnd(s) # <<>> => j = Len(v))
  BY DEF Matches, AtStart, AtEnd
<1>4. ASSUME NEW i \in 1 .. Len(v) + 1, NEW j \in 0 .. Len(v), i <= j + 1
      PROVE  s = AtStart(s) \o SubSeq(v, i, j) \o AtEnd(s) <=> Has(v, w, i, j)
  <2>1. SubSeq(v, i, j) \in Seq(Nat)
    BY <1>4, HasPart
  <2>2. s = AtStart(s) \o SubSeq(v, i, j) \o AtEnd(s) <=> SubSeq(v, i, j) = w
    BY <1>2, <2>1, BodyIs
  <2> QED
    BY <1>4, <2>2 DEF Has
<1>5. \A i, j : Has(v, w, i, j) => i \in 1 .. Len(v) + 1 /\ j \in 0 .. Len(v) /\ i <= j + 1
  BY DEF Has
<1>6. Matches(v, s) <=> \E i, j : Has(v, w, i, j) /\ (LikeStart(s) => i = 1) /\ (LikeEnd(s) => j = Len(v))
  <2>1. (LikeStart(s) <=> AtStart(s) # <<>>) /\ (LikeEnd(s) <=> AtEnd(s) # <<>>)
    BY BodyIs
  <2> QED
    BY <1>3, <1>4, <1>5, <2>1
<1>7. CASE LikeStart(s) /\ LikeEnd(s)
  <2>1. Matches(v, s) <=> Has(v, w, 1, n)
    BY <1>1, <1>6, <1>7
  <2>2. SubSeq(v, 1, n) = v /\ 1 \in 1 .. Len(v) + 1 /\ n \in 0 .. Len(v) /\ 1 <= n + 1
    BY <1>1
  <2>3. Has(v, w, 1, n) <=> w = v
    BY <2>2 DEF Has
  <2>4. Likes(v, s) <=> v = w
    BY <1>2, <1>7 DEF Likes
  <2> QED
    BY <2>1, <2>3, <2>4
<1>8. CASE LikeStart(s) /\ ~LikeEnd(s)
  <2>1. Matches(v, s) <=> \E j : Has(v, w, 1, j)
    BY <1>6, <1>8
  <2>2. Likes(v, s) <=> IsPrefix(w, v)
    BY <1>2, <1>8 DEF Likes
  <2> QED
    BY <2>1, <2>2, PrefixHas
<1>9. CASE ~LikeStart(s) /\ LikeEnd(s)
  <2>1. Matches(v, s) <=> \E i : Has(v, w, i, Len(v))
    BY <1>6, <1>9
  <2>2. Likes(v, s) <=> IsSuffix(w, v)
    BY <1>2, <1>9 DEF Likes
  <2> QED
    BY <2>1, <2>2, SuffixHas
<1>10. CASE ~LikeStart(s) /\ ~LikeEnd(s)
  <2>1. Matches(v, s) <=> \E i, j : Has(v, w, i, j)
    BY <1>6, <1>10
  <2>2. Likes(v, s) <=> w \in SubSeqs(v)
    BY <1>2, <1>10 DEF Likes
  <2> QED
    BY <2>1, <2>2, PartHas
<1> QED
  BY <1>7, <1>8, <1>9, <1>10

-----------------------------------------------------------------------------
(* What a comparison yields is what it means. *)

\* A side of a comparison: its signs and its strings are those of a condition.
IsSide(e) ==
  /\ e \in Seq(Node) /\ Signed(e)
  /\ \A i \in 1 .. Len(e) : e[i].type = "kchar" => e[i].v \in DOMAIN Texts
HasSides(x) == IsSide(x.left) /\ IsSide(x.right)

\* What is cut out of a condition is a side.
LEMMA PartIsSide ==
  ASSUME NEW c \in Condition, NEW a \in 1 .. Len(c) + 1, NEW b \in a - 1 .. Len(c)
  PROVE  IsSide(SubSeq(c, a, b))
<1>1. PICK N \in Nat : N = Len(c) /\ c \in Seq(Node)
  BY DEF Condition
<1>2. PICK e \in Seq(Node) : e = SubSeq(c, a, b)
  BY PartSigned
<1>3. /\ Len(e) = b - (a - 1) /\ Signed(e)
      /\ \A i \in 1 .. b - (a - 1) : e[i] = c[(a - 1) + i]
  BY <1>2, PartSigned
<1>4. ASSUME NEW i \in 1 .. Len(e), e[i].type = "kchar"
      PROVE  e[i].v \in DOMAIN Texts
  <2>1. PICK n : n = (a - 1) + i
    OBVIOUS
  <2>2. n \in DOMAIN c
    BY <1>1, <1>3, <2>1
  <2>3. c[n].type = "kchar" => c[n].v \in DOMAIN Texts
    BY <2>2 DEF Condition
  <2> QED
    BY <1>3, <1>4, <2>1, <2>3
<1> QED
  BY <1>2, <1>3, <1>4 DEF IsSide

\* The nodes that load_logical makes of a condition have sides.
LEMMA CoverSides ==
  ASSUME NEW c \in Condition, NEW l \in Seq(Part), NEW b, Cover(c, l, b), NEW m \in 1 .. Len(l)
  PROVE  IsComparison(l[m]) => HasSides(l[m])
<1>1. PICK N \in Nat : N = Len(c) /\ c \in Seq(Node)
  BY DEF Condition
<1>2. PICK L \in Nat : L = Len(l)
  OBVIOUS
<1>3. m - 1 \in 0 .. L /\ m \in 0 .. L
  BY <1>2
<1>4. PICK a \in 0 .. N : a = b[m - 1]
  BY <1>1, <1>2, <1>3 DEF Cover
<1>5. PICK e \in 0 .. N : e = b[m]
  BY <1>1, <1>2, <1>3 DEF Cover
<1>6. Takes(c, l[m], a, e)
  BY <1>4, <1>5 DEF Cover
<1>7. CASE ~IsComparison(c[e]) /\ l[m] = Convert(c[e])
  BY <1>7 DEF IsComparison, Convert, LogicalNode
<1>8. CASE \E k \in a + 1 .. e : l[m] = Comparison(c, a + 1, k, e)
  <2>1. PICK k \in a + 1 .. e : l[m] = Comparison(c, a + 1, k, e)
    BY <1>8
  <2>2. a + 1 \in 1 .. Len(c) + 1 /\ k - 1 \in (a + 1) - 1 .. Len(c)
    BY <1>1
  <2>3. k + 1 \in 1 .. Len(c) + 1 /\ e \in (k + 1) - 1 .. Len(c)
    BY <1>1
  <2>4. IsSide(SubSeq(c, a + 1, k - 1))
    BY <2>2, PartIsSide
  <2>5. IsSide(SubSeq(c, k + 1, e))
    BY <2>3, PartIsSide
  <2> QED
    BY <2>1, <2>4, <2>5 DEF Comparison, LogicalNode, HasSides
<1> QED
  BY <1>6, <1>7, <1>8 DEF Takes

\* A string is one field or one constant.
LEMMA StringIs ==
  ASSUME NEW e, IsSide(e), IsString(e), Len(e) = 1
  PROVE  /\ e[1].type = "kname" => e[1].v \in CharField
         /\ e[1].type = "kchar" => e[1].v \in DOMAIN Texts
         /\ Vs(e[1]) \in Seq(Nat) \/ e[1].type \notin {"kname", "kchar"}
         /\ Chars(e) # {}
<1>1. e \in Seq(Node) /\ DOMAIN e = {1}
  BY DEF IsSide
<1>2. Chars(e) # {} /\ Numbers(e) = {} /\ KnowsFields(e)
  BY DEF IsString
<1>3. e[1].type = "kchar" => e[1].v \in DOMAIN Texts
  BY DEF IsSide
<1>4. e[1].type = "kname" => e[1].v \in CharField
  BY <1>1, <1>2 DEF Chars, OfType, OfField
<1>5. \A i \in DOMAIN Texts : Texts[i] \in Seq(Nat)
  BY ConditionAssumption
<1>6. \A f \in CharField : FieldName[f] \in DOMAIN Texts
  BY ConditionAssumption DEF CharField
<1> QED
  BY <1>2, <1>3, <1>4, <1>5, <1>6 DEF Vs

\* A text is LIKE a pattern, or it is not.
LEMMA LikesIsTruth ==
  ASSUME NEW v, NEW s
  PROVE  Likes(v, s) \in BOOLEAN
<1>1. IsPrefix(Body(s), v) \in BOOLEAN /\ IsSuffix(Body(s), v) \in BOOLEAN
  BY DEF IsPrefix, IsSuffix
<1>2. CASE LikeStart(s) /\ LikeEnd(s)
  BY <1>2 DEF Likes
<1>3. CASE LikeStart(s) /\ ~LikeEnd(s)
  BY <1>1, <1>3 DEF Likes
<1>4. CASE ~LikeStart(s) /\ LikeEnd(s)
  BY <1>1, <1>4 DEF Likes
<1>5. CASE ~LikeStart(s) /\ ~LikeEnd(s)
  BY <1>5 DEF Likes
<1> QED
  BY <1>2, <1>3, <1>4, <1>5

\* LIKE.
LEMMA LikeHolds ==
  ASSUME NEW x \in Part, HasSides(x), x.type \in LikeTypes, ComparisonFits(x), Typed(x), NEW row \in Row
  PROVE  Holds(x, row) <=> Means(x, row)
<1>1. x.type \notin CompareTypes /\ x.type \in {"klike", "knlike"}
  BY DEF LikeTypes, CompareTypes
<1>2. IsOne(x.left, "kname") /\ IsOne(x.right, "kchar")
  BY <1>1 DEF ComparisonFits
<1>3. IsString(x.left) /\ IsString(x.right)
  BY <1>1 DEF Typed, IsComparison
<1>4. Vs(x.right[1]) \in Seq(Nat)
  BY <1>2, <1>3, StringIs DEF IsOne, HasSides
<1>5. x.left[1].v \in CharField
  BY <1>2, <1>3, StringIs DEF IsOne, HasSides
<1>6. Texts[row[x.left[1].v]] \in Seq(Nat)
  BY <1>5, ConditionAssumption DEF Row
<1>7. PICK v \in Seq(Nat) : v = Texts[row[x.left[1].v]]
  BY <1>6
<1>8. PICK s \in Seq(Nat) : s = Vs(x.right[1])
  BY <1>4
<1>9. Likes(v, s) <=> Matches(v, s)
  BY LikesMatches
<1>10. Holds(x, row) = (Likes(v, s) = (x.type = "klike"))
  <2>1. Holds(x, row) = (Likes(Texts[row[x.left[1].v]], Vs(x.right[1])) = (x.type = "klike"))
    BY <1>1 DEF Holds
  <2> QED
    BY <1>7, <1>8, <2>1
<1>11. CASE x.type = "klike"
  <2>1. Means(x, row) <=> Matches(v, s)
    BY <1>1, <1>7, <1>8, <1>11 DEF Means, Stands
  <2>2. Holds(x, row) <=> Likes(v, s)
    BY <1>10, <1>11
  <2> QED
    BY <1>9, <2>1, <2>2
<1>12. CASE x.type = "knlike"
  <2>1. Means(x, row) <=> ~Matches(v, s)
    BY <1>1, <1>7, <1>8, <1>12 DEF Means, Stands
  <2>2. Holds(x, row) <=> ~Likes(v, s)
    <3>1. x.type # "klike"
      BY <1>12
    <3> QED
      BY <1>10, <3>1, LikesIsTruth
  <2> QED
    BY <1>9, <2>1, <2>2
<1> QED
  BY <1>1, <1>11, <1>12

\* Strings.
LEMMA StringHolds ==
  ASSUME NEW x \in Part, HasSides(x), x.type \in CompareTypes, IsString(x.left), NEW row \in Row
  PROVE  Holds(x, row) = Means(x, row)
<1>1. x.type \notin LikeTypes /\ x.type # "klike" /\ x.type # "knlike"
  BY DEF LikeTypes, CompareTypes
<1>2. ExType(x) = "kchar"
  BY DEF IsString, ExType
<1>3. Holds(x, row) = Answers(x.type, OrderOfStrings(Texts[row[x.left[1].v]], Vs(x.right[1])))
  BY <1>1, <1>2 DEF Holds
<1>4. Means(x, row) = Answers(x.type, OrderOfStrings(Texts[row[x.left[1].v]], Vs(x.right[1])))
  BY <1>1 DEF Means, Stands
<1> QED
  BY <1>3, <1>4

\* Numbers.
LEMMA NumberHolds ==
  ASSUME NEW x \in Part, HasSides(x), x.type \in CompareTypes, ~IsString(x.left),
         ComparisonFits(x), Typed(x), NEW row \in Row, ~Undefined(x, row)
  PROVE  Holds(x, row) <=> Means(x, row)
<1>1. x.type \notin LikeTypes /\ x.type # "klike" /\ x.type # "knlike"
  BY DEF LikeTypes, CompareTypes
<1>2. IsNumber(x.left) /\ IsNumber(x.right)
  BY DEF Typed, IsComparison
<1>3. /\ Chars(x.left) = {} /\ Chars(x.right) = {}
      /\ KnowsFields(x.left) /\ KnowsFields(x.right)
  BY <1>2 DEF IsNumber
<1>4. ~IsOne(x.right, "kchar")
  BY <1>3 DEF IsOne, Chars, OfType, HasSides, IsSide
<1>5. CheckExpression(x.left) /\ CheckExpression(x.right)
  BY <1>4 DEF ComparisonFits
<1>6. ExType(x) # "kchar" /\ ExType(x) \in {"kdouble", "kint8"}
  BY <1>3 DEF ExType
<1>7. PICK a \in Seq(Node) : a = x.left
  BY DEF HasSides, IsSide
<1>8. PICK b \in Seq(Node) : b = x.right
  BY DEF HasSides, IsSide
<1>9. Computing(a, row) # Trapped /\ Computing(b, row) # Trapped
  BY <1>6, <1>7, <1>8 DEF Undefined
<1>10. PICK l \in Num : l = Compute(x.left, row) /\ l = Number1(x.left, row)
  <2>1. Known(a) /\ Signed(a) /\ CheckExpression(a)
    BY <1>3, <1>5, <1>7, KnowsAll DEF HasSides, IsSide
  <2> QED
    BY <1>7, <1>9, <2>1, ComputesNumber
<1>11. PICK r \in Num : r = Compute(x.right, row) /\ r = Number1(x.right, row)
  <2>1. Known(b) /\ Signed(b) /\ CheckExpression(b)
    BY <1>3, <1>5, <1>8, KnowsAll DEF HasSides, IsSide
  <2> QED
    BY <1>8, <1>9, <2>1, ComputesNumber
<1>12. PICK whole \in BOOLEAN : whole = (OfField(x.left \o x.right, DoubleField) = {})
  OBVIOUS
<1>13. ExType(x) = IF whole THEN "kint8" ELSE "kdouble"
  BY <1>3, <1>12 DEF ExType
<1>14. Means(x, row) = IF IsNaN(l) \/ IsNaN(r) THEN x.type = "kne"
                       ELSE Answers(x.type, IF whole THEN Sign(Truncated(l) - Truncated(r))
                                                     ELSE OrderOfNumbers(l, r))
  BY <1>1, <1>10, <1>11, <1>12 DEF Means
<1>15. CASE whole
  <2>1. ExType(x) = "kint8"
    BY <1>13, <1>15
  <2>2. ~IsNaN(l) /\ ~IsNaN(r)
    BY <1>6, <1>10, <1>11, <2>1 DEF Undefined
  <2>3. PICK m \in Int : m = Truncated(l)
    BY <2>2, TruncatedInt
  <2>4. PICK n \in Int : n = Truncated(r)
    BY <2>2, TruncatedInt
  <2>5. Holds(x, row) = Compared(x.type, <<m, 1>>, <<n, 1>>)
    BY <1>1, <1>10, <1>11, <2>1, <2>3, <2>4 DEF Holds, Cast, Int2Num
  <2>6. ~IsNaN(<<m, 1>>) /\ ~IsNaN(<<n, 1>>)
    BY DEF IsNaN
  <2>7. OrderOfNumbers(<<m, 1>>, <<n, 1>>) = Sign(m - n)
    BY DEF OrderOfNumbers
  <2> QED
    BY <1>14, <1>15, <2>2, <2>3, <2>4, <2>5, <2>6, <2>7 DEF Compared
<1>16. CASE ~whole
  <2>1. ExType(x) = "kdouble"
    BY <1>13, <1>16
  <2>2. Holds(x, row) = Compared(x.type, l, r)
    BY <1>1, <1>10, <1>11, <2>1 DEF Holds
  <2> QED
    BY <1>14, <1>16, <2>2 DEF Compared
<1> QED
  BY <1>15, <1>16

\* A comparison that is accepted and defined yields what it means.
LEMMA HoldsMeans ==
  ASSUME NEW x \in Part, HasSides(x), IsComparison(x), ComparisonFits(x), Typed(x),
         NEW row \in Row, ~Undefined(x, row)
  PROVE  Holds(x, row) <=> Means(x, row)
<1>1. CASE x.type \in LikeTypes
  BY <1>1, LikeHolds
<1>2. CASE x.type \in CompareTypes
  BY <1>2, StringHolds, NumberHolds
<1> QED
  BY <1>1, <1>2 DEF IsComparison

\* So it is when the comparison is evaluated.
LEMMA EvaluatedShape ==
  ASSUME NEW s \in Seq(Code), Formed(Kinds(s)), NEW x, NodeFits(Kinds(s), x)
  PROVE  Evaluated(s, x) \in Seq(Code) /\ Kinds(Evaluated(s, x)) = NodeChecked(Kinds(s), x)
<1>1. Evaluated(s, x) = Told(s, x, Truth(Holds(x, value)))
  BY DEF Evaluated, Told
<1>2. Truth(Holds(x, value)) \in Two
  BY DEF Truth, Two
<1> QED
  BY <1>1, <1>2, ToldShape

\* The types of the members of a condition.
LogicalSorts ==
  /\ ex \in Condition /\ ex \in Seq(Node) /\ st \in Seq(Node) /\ lg \in Seq(Part)
  /\ pc \in {"idle", "split", "check", "ready", "evaluate", "refused", "undefined"}
  /\ stack \in Seq(Mark)
  /\ lgStack \in Seq(Code) /\ Len(lgStack) <= LgSize
  /\ out \in {"T", "F", "none"}

\* How far the loop is: load_logical makes no more nodes than it has read.
Bounds ==
  /\ pos \in 1 .. Len(ex) + 1
  /\ Len(st) + Len(lg) <= Len(ex)
  /\ pc = "split" => Len(st) + Len(lg) <= pos - 1
  /\ pc \in {"check", "evaluate"} => pos <= Len(lg) + 1

\* The stack of check_logical is that of the nodes it has seen, which have passed.
Checking ==
  /\ pc = "split" => stack = <<>>
  /\ pc = "check" => Passes(lg, pos - 1) /\ stack = Walk(SubSeq(lg, 1, pos - 1))

\* A condition is evaluated only if all of it has passed and left one expression.
Accepted ==
  pc \in {"ready", "evaluate"} => Passes(lg, Len(lg)) /\ Walk(lg) = <<"expr">>

\* The stack of the evaluation has the marks that the check had at the same node.
Evaluating == pc = "evaluate" => Kinds(lgStack) = Walk(SubSeq(lg, 1, pos - 1))

\* What every step of loading, checking and evaluating preserves.
LogicalInv == LogicalSorts /\ Bounds /\ Checking /\ Accepted /\ Evaluating

\* make_right_expression stays in the condition.
LEMMA RightEndIn ==
  ASSUME ex \in Seq(Node), NEW start \in 1 .. Len(ex) + 1
  PROVE  RightEnd(start) \in start .. Len(ex) + 1
<1> DEFINE ends == {i \in start .. Len(ex) :
        \/ ex[i].type \in Joins
        \/ ex[i].type = "kright" /\ Balanced(SubSeq(ex, start, i - 1))}
<1>1. RightEnd(start) = IF ends = {} THEN Len(ex) + 1 ELSE Min(ends)
  BY DEF RightEnd
<1>2. Len(ex) \in Nat /\ ends \in SUBSET (start .. Len(ex))
  OBVIOUS
<1> HIDE DEF ends
<1>3. ends \in SUBSET Nat
  BY <1>2
<1>4. ends # {} => Min(ends) \in start .. Len(ex)
  BY <1>2, <1>3, MinIsIn
<1> QED
  BY <1>1, <1>2, <1>4

\* Loading a condition leaves nothing of the last one, but for lg_stack_.
LEMMA LoadKeeps ==
  ASSUME LogicalInv, NEW where \in Condition, LoadLogical(where)
  PROVE  LogicalInv'
<1>1. LogicalSorts'
  BY DEF LogicalInv, LogicalSorts, LoadLogical, Condition
<1>2. Bounds'
  BY DEF Bounds, LoadLogical
<1>3. Checking' /\ Accepted' /\ Evaluating'
  BY DEF Checking, Accepted, Evaluating, LoadLogical
<1> QED
  BY <1>1, <1>2, <1>3 DEF LogicalInv

\* A comparison is one node for at least one that was read.
LEMMA SplitKeeps ==
  ASSUME LogicalInv, Split
  PROVE  LogicalInv'
<1>1. PICK n : n = LeftEnd(st)
  OBVIOUS
<1>2. PICK q : q = RightEnd(pos + 1)
  OBVIOUS
<1>3. /\ ex \in Seq(Node) /\ st \in Seq(Node) /\ lg \in Seq(Part)
      /\ pc = "split" /\ pos \in 1 .. Len(ex) /\ Len(ex) \in Nat
      /\ Len(st) + Len(lg) <= pos - 1 /\ Len(st) \in Nat /\ Len(lg) \in Nat
  BY DEF LogicalInv, LogicalSorts, Bounds, Split
<1>4. n \in 0 .. Len(st) /\ q \in pos + 1 .. Len(ex) + 1
  BY <1>1, <1>2, <1>3, LeftEndIn, RightEndIn
<1>5. PICK a : a = Converted(SubSeq(st, 1, n))
  OBVIOUS
<1>6. PICK b : b = LogicalNode(ex[pos], SubSeq(st, n + 1, Len(st)), SubSeq(ex, pos + 1, q - 1))
  OBVIOUS
<1>7. /\ lg' = Append(lg \o a, b) /\ pos' = q /\ st' = <<>>
      /\ UNCHANGED <<ex, pc, stack, lgStack, value, out>>
  BY <1>1, <1>2, <1>5, <1>6 DEF Split, Cleared
<1>8. a \in Seq(Part) /\ Len(a) = n
  <2>1. SubSeq(st, 1, n) \in Seq(Node) /\ Len(SubSeq(st, 1, n)) = n
    BY <1>3, <1>4
  <2> QED
    BY <1>5, <2>1, ConvertedIsSeq
<1>9. b \in Part
  <2>1. SubSeq(st, n + 1, Len(st)) \in Seq(Node)
    BY <1>3, <1>4
  <2>2. SubSeq(ex, pos + 1, q - 1) \in Seq(Node) /\ ex[pos] \in Node
    BY <1>3, <1>4
  <2> QED
    BY <1>6, <2>1, <2>2 DEF LogicalNode, Node, Part
<1>10. lg' \in Seq(Part) /\ Len(lg') = Len(lg) + n + 1
  <2>1. lg \o a \in Seq(Part) /\ Len(lg \o a) = Len(lg) + n
    BY <1>3, <1>8, ConcatProperties
  <2> QED
    BY <1>3, <1>4, <1>7, <1>9, <2>1, AppendProperties
<1>11. LogicalSorts'
  BY <1>7, <1>10 DEF LogicalInv, LogicalSorts
<1>12. Bounds'
  BY <1>3, <1>4, <1>7, <1>10 DEF Bounds
<1>13. Checking' /\ Accepted' /\ Evaluating'
  BY <1>3, <1>7 DEF LogicalInv, Checking, Accepted, Evaluating
<1> QED
  BY <1>11, <1>12, <1>13 DEF LogicalInv

\* A node kept is one that was read.
LEMMA KeepKeeps ==
  ASSUME LogicalInv, Keep
  PROVE  LogicalInv'
<1>1. /\ ex \in Seq(Node) /\ st \in Seq(Node) /\ lg \in Seq(Part)
      /\ pc = "split" /\ pos \in 1 .. Len(ex) /\ Len(ex) \in Nat
      /\ Len(st) + Len(lg) <= pos - 1 /\ Len(st) \in Nat /\ Len(lg) \in Nat
  BY DEF LogicalInv, LogicalSorts, Bounds, Keep
<1>2. /\ st' = Append(st, ex[pos]) /\ pos' = pos + 1
      /\ UNCHANGED <<ex, pc, lg, stack, lgStack, value, out>>
  BY DEF Keep
<1>3. st' \in Seq(Node) /\ Len(st') = Len(st) + 1
  BY <1>1, <1>2
<1>4. LogicalSorts'
  BY <1>2, <1>3 DEF LogicalInv, LogicalSorts
<1>5. Bounds'
  BY <1>1, <1>2, <1>3 DEF Bounds
<1>6. Checking' /\ Accepted' /\ Evaluating'
  BY <1>1, <1>2 DEF LogicalInv, Checking, Accepted, Evaluating
<1> QED
  BY <1>4, <1>5, <1>6 DEF LogicalInv

\* The check begins with no node seen.
LEMMA EndSplitKeeps ==
  ASSUME LogicalInv, EndSplit
  PROVE  LogicalInv'
<1>1. /\ ex \in Seq(Node) /\ st \in Seq(Node) /\ lg \in Seq(Part)
      /\ pc = "split" /\ Len(ex) \in Nat /\ stack = <<>>
      /\ Len(st) + Len(lg) <= Len(ex) /\ Len(st) \in Nat /\ Len(lg) \in Nat
  BY DEF LogicalInv, LogicalSorts, Bounds, Checking, EndSplit
<1>2. /\ lg' = lg \o Converted(st) /\ st' = <<>> /\ pc' \in {"undefined", "check"} /\ pos' = 1
      /\ UNCHANGED <<ex, stack, lgStack, value, out>>
  BY DEF EndSplit
<1>3. lg' \in Seq(Part) /\ Len(lg') = Len(lg) + Len(st)
  <2>1. PICK c : c = Converted(st)
    OBVIOUS
  <2>2. c \in Seq(Part) /\ Len(c) = Len(st)
    BY <1>1, <2>1, ConvertedIsSeq
  <2>3. lg \in Seq(Part)
    BY <1>1
  <2>4. lg \o c \in Seq(Part) /\ Len(lg \o c) = Len(lg) + Len(c)
    BY <2>2, <2>3, ConcatProperties
  <2> QED
    BY <1>2, <2>1, <2>2, <2>4
<1>4. LogicalSorts'
  BY <1>2, <1>3 DEF LogicalInv, LogicalSorts
<1>5. Bounds'
  BY <1>1, <1>2, <1>3 DEF Bounds
<1>6. Checking'
  <2>1. pos' - 1 = 0
    BY <1>2
  <2>2. SubSeq(lg', 1, 0) = <<>>
    BY <1>3
  <2>3. Passes(lg', 0)
    BY DEF Passes
  <2> QED
    BY <1>1, <1>2, <2>1, <2>2, <2>3, WalkOfNothing DEF Checking
<1>7. Accepted' /\ Evaluating'
  BY <1>2 DEF Accepted, Evaluating
<1> QED
  BY <1>4, <1>5, <1>6, <1>7 DEF LogicalInv

\* A node that fits has passed.
LEMMA CheckKeeps ==
  ASSUME LogicalInv, Check
  PROVE  LogicalInv'
<1>1. /\ lg \in Seq(Part) /\ Len(lg) \in Nat /\ Len(ex) \in Nat /\ Len(st) \in Nat
      /\ pc = "check" /\ pos \in 1 .. Len(lg) /\ Len(lg) <= Len(ex)
      /\ Passes(lg, pos - 1) /\ stack = Walk(SubSeq(lg, 1, pos - 1))
      /\ NodeFits(stack, lg[pos])
  <2>1. pc = "check" /\ pos <= Len(lg) /\ NodeFits(stack, lg[pos])
    BY DEF Check
  <2> QED
    BY <2>1 DEF LogicalInv, LogicalSorts, Bounds, Checking
<1>2. /\ stack' = NodeChecked(stack, lg[pos]) /\ pos' = pos + 1
      /\ UNCHANGED <<ex, pc, st, lg, lgStack, value, out>>
  BY DEF Check
<1>3. Passes(lg, pos)
  BY <1>1 DEF Passes
<1>4. stack' = Walk(SubSeq(lg, 1, pos))
  BY <1>1, <1>2, PrefixStep
<1>5. stack' \in Seq(Mark)
  <2>1. pos \in 0 .. pos /\ pos \in 0 .. Len(lg)
    BY <1>1
  <2> QED
    BY <1>1, <1>3, <1>4, <2>1, WalkShape
<1>6. LogicalSorts'
  BY <1>2, <1>5 DEF LogicalInv, LogicalSorts
<1>7. Bounds'
  BY <1>1, <1>2 DEF LogicalInv, Bounds
<1>8. Checking'
  <2>1. pos' - 1 = pos /\ pc' = "check" /\ lg' = lg
    BY <1>1, <1>2
  <2> QED
    BY <1>3, <1>4, <2>1 DEF Checking
<1>9. Accepted' /\ Evaluating'
  BY <1>1, <1>2 DEF Accepted, Evaluating
<1> QED
  BY <1>6, <1>7, <1>8, <1>9 DEF LogicalInv

\* A condition refused is neither checked nor evaluated further.
LEMMA CheckRefusesKeeps ==
  ASSUME LogicalInv, CheckRefuses
  PROVE  LogicalInv'
<1>1. pc' = "refused" /\ UNCHANGED <<ex, pos, st, lg, stack, lgStack, value, out>>
  BY DEF CheckRefuses
<1> QED
  BY <1>1 DEF LogicalInv, LogicalSorts, Bounds, Checking, Accepted, Evaluating

\* Only a condition of which every node has passed is accepted.
LEMMA EndCheckKeeps ==
  ASSUME LogicalInv, EndCheck
  PROVE  LogicalInv'
<1>1. /\ pc = "check" /\ pos > Len(lg)
      /\ pc' \in {"ready", "refused"} /\ (pc' = "ready" => stack = <<"expr">>)
      /\ UNCHANGED <<ex, pos, st, lg, stack, lgStack, value, out>>
  BY DEF EndCheck
<1>2. lg \in Seq(Part) /\ Len(lg) \in Nat /\ pos - 1 = Len(lg)
  BY <1>1 DEF LogicalInv, LogicalSorts, Bounds
<1>3. Passes(lg, Len(lg)) /\ stack = Walk(lg)
  <2>1. SubSeq(lg, 1, Len(lg)) = lg
    BY <1>2
  <2> QED
    BY <1>1, <1>2, <2>1 DEF LogicalInv, Checking
<1>4. LogicalSorts' /\ Bounds'
  BY <1>1 DEF LogicalInv, LogicalSorts, Bounds
<1>5. Checking' /\ Evaluating'
  BY <1>1 DEF Checking, Evaluating
<1>6. Accepted'
  BY <1>1, <1>3 DEF Accepted
<1> QED
  BY <1>4, <1>5, <1>6 DEF LogicalInv

\* An evaluation begins with no node seen and an empty stack.
LEMMA BeginEvaluateKeeps ==
  ASSUME LogicalInv, NEW row, BeginEvaluate(row)
  PROVE  LogicalInv'
<1>1. /\ pc = "ready" /\ pc' = "evaluate" /\ lgStack' = <<>> /\ pos' = 1
      /\ UNCHANGED <<ex, st, lg, stack, out>>
  BY DEF BeginEvaluate
<1>2. LogicalSorts'
  <2>1. <<>> \in Seq(Code) /\ Len(<<>>) = 0 /\ 0 <= LgSize
    BY LogicalAssumption
  <2> QED
    BY <1>1, <2>1 DEF LogicalInv, LogicalSorts
<1>3. Bounds'
  BY <1>1 DEF LogicalInv, LogicalSorts, Bounds
<1>4. Checking' /\ Accepted'
  BY <1>1 DEF LogicalInv, Checking, Accepted
<1>5. Evaluating'
  <2>1. pos' - 1 = 0 /\ SubSeq(lg, 1, 0) = <<>>
    BY <1>1
  <2>2. Kinds(<<>>) = <<>>
    BY DEF Kinds
  <2> QED
    BY <1>1, <2>1, <2>2, WalkOfNothing DEF Evaluating
<1> QED
  BY <1>2, <1>3, <1>4, <1>5 DEF LogicalInv

\* At each node of an evaluation the stack is formed, the node fits its marks, and
\* it holds the brackets that are open.
LEMMA EvaluationShape ==
  ASSUME LogicalInv, pc = "evaluate"
  PROVE  /\ lg \in Seq(Part) /\ Len(lg) \in Nat /\ pos \in 1 .. Len(lg) + 1
         /\ lgStack \in Seq(Code) /\ Formed(Kinds(lgStack))
         /\ Kinds(lgStack) = Walk(SubSeq(lg, 1, pos - 1))
         /\ pos <= Len(lg) => NodeFits(Kinds(lgStack), lg[pos])
         /\ Lefts(Kinds(lgStack)) = Open(SubSeq(lg, 1, pos - 1))
<1>1. /\ lg \in Seq(Part) /\ Len(lg) \in Nat /\ pos \in 1 .. Len(lg) + 1
      /\ lgStack \in Seq(Code) /\ Passes(lg, Len(lg))
      /\ Kinds(lgStack) = Walk(SubSeq(lg, 1, pos - 1))
  BY DEF LogicalInv, LogicalSorts, Bounds, Accepted, Evaluating
<1>2. pos - 1 \in 0 .. Len(lg) /\ Len(lg) \in 0 .. Len(lg)
  BY <1>1
<1>3. Formed(Kinds(lgStack)) /\ Lefts(Kinds(lgStack)) = Open(SubSeq(lg, 1, pos - 1))
  BY <1>1, <1>2, WalkShape
<1>4. pos <= Len(lg) => NodeFits(Kinds(lgStack), lg[pos])
  BY <1>1 DEF Passes
<1> QED
  BY <1>1, <1>3, <1>4

\* A node evaluated changes the marks as the check did.
LEMMA EvaluateKeeps ==
  ASSUME LogicalInv, Evaluate
  PROVE  LogicalInv'
<1>1. /\ pc = "evaluate" /\ pos <= Len(lg)
      /\ lgStack' = Evaluated(lgStack, lg[pos]) /\ Len(lgStack') <= LgSize /\ pos' = pos + 1
      /\ UNCHANGED <<ex, pc, st, lg, stack, value, out>>
  BY DEF Evaluate
<1>2. /\ lg \in Seq(Part) /\ Len(lg) \in Nat /\ pos \in 1 .. Len(lg)
      /\ lgStack \in Seq(Code) /\ Formed(Kinds(lgStack))
      /\ Kinds(lgStack) = Walk(SubSeq(lg, 1, pos - 1))
      /\ NodeFits(Kinds(lgStack), lg[pos])
  BY <1>1, EvaluationShape
<1>3. lgStack' \in Seq(Code) /\ Kinds(lgStack') = NodeChecked(Kinds(lgStack), lg[pos])
  BY <1>1, <1>2, EvaluatedShape
<1>4. Kinds(lgStack') = Walk(SubSeq(lg, 1, pos))
  BY <1>2, <1>3, PrefixStep
<1>5. LogicalSorts'
  BY <1>1, <1>3 DEF LogicalInv, LogicalSorts
<1>6. Bounds'
  BY <1>1, <1>2 DEF LogicalInv, LogicalSorts, Bounds
<1>7. Checking' /\ Accepted'
  BY <1>1 DEF LogicalInv, Checking, Accepted
<1>8. Evaluating'
  <2>1. pos' - 1 = pos
    BY <1>1, <1>2
  <2> QED
    BY <1>1, <1>4, <2>1 DEF Evaluating
<1> QED
  BY <1>5, <1>6, <1>7, <1>8 DEF LogicalInv

\* A stack too short is the end of the model.
LEMMA EvaluateOverrunsKeeps ==
  ASSUME LogicalInv, EvaluateOverruns
  PROVE  LogicalInv'
<1>1. pc' = "undefined" /\ UNCHANGED <<ex, pos, st, lg, stack, lgStack, value, out>>
  BY DEF EvaluateOverruns
<1> QED
  BY <1>1 DEF LogicalInv, LogicalSorts, Bounds, Checking, Accepted, Evaluating

\* So is a comparison that C++ leaves undefined.
LEMMA EvaluateTrapsKeeps ==
  ASSUME LogicalInv, EvaluateTraps
  PROVE  LogicalInv'
<1>1. pc' = "undefined" /\ UNCHANGED <<ex, pos, st, lg, stack, lgStack, value, out>>
  BY DEF EvaluateTraps
<1> QED
  BY <1>1 DEF LogicalInv, LogicalSorts, Bounds, Checking, Accepted, Evaluating

\* A result leaves the condition ready for the next record.
LEMMA EndEvaluateKeeps ==
  ASSUME LogicalInv, EndEvaluate
  PROVE  LogicalInv'
<1>1. /\ pc = "evaluate" /\ pc' = "ready" /\ out' = Result
      /\ UNCHANGED <<ex, pos, st, lg, stack, lgStack, value>>
  BY DEF EndEvaluate
<1>2. Result \in {"T", "F"}
  BY DEF Result, Truth
<1> QED
  BY <1>1, <1>2 DEF LogicalInv, LogicalSorts, Bounds, Checking, Accepted, Evaluating

\* What does not touch these members preserves what is said of them.
LEMMA LogicalKeeps ==
  ASSUME LogicalInv, UNCHANGED logicalVars
  PROVE  LogicalInv'
BY DEF logicalVars, LogicalInv, LogicalSorts, Bounds, Checking, Accepted, Evaluating

-----------------------------------------------------------------------------
(* What the steps of Logical have made of the condition. *)

\* l is all of c, cut around its comparisons.
Wholly(c, l) == \E b : Cover(c, l, b) /\ b[Len(l)] = Len(c)

\* While a condition is split, the nodes read are in lg_ or kept; then all of them
\* are in lg_.
SplitSoFar ==
  /\ pc = "split" => Splitting(ex, lg, st, pos)
  /\ pc \in {"check", "ready", "evaluate"} => Wholly(ex, lg)

\* Accepted comparisons have types.
TypesFit == pc \in {"ready", "evaluate"} => \A m \in 1 .. Len(lg) : Typed(lg[m])

\* The evaluation has done to its stack what the readings of the condition say.
Telling == pc = "evaluate" => value \in Row /\ Runs(lg, value, 0, pos - 1, <<>>, lgStack)

\* What a condition that is refused, or comes to harm, has done for it.
Judged ==
  /\ pc = "refused" => ~InGrammar(ex)
  /\ pc = "undefined" /\ InGrammar(ex) =>
       Len(lgStack) = LgSize \/ Undefined(lg[pos], value)

\* A condition has no result before it is accepted.
Untold == pc \in {"split", "check"} => out = "none"

\* What every step of loading, checking and evaluating preserves of the meaning.
MeaningInv == SplitSoFar /\ TypesFit /\ Telling /\ Judged /\ Untold /\ EvaluatesMeaning

\* All of a condition that has a truth is accepted.
LEMMA WholeAccepts ==
  ASSUME NEW c \in Condition, NEW row, NEW l \in Seq(Part), Wholly(c, l), Truths(c, row) # {}
  PROVE  /\ Passes(l, Len(l)) /\ Walk(l) = <<"expr">>
         /\ \A m \in 1 .. Len(l) : Typed(l[m]) /\ (IsComparison(l[m]) => ComparisonFits(l[m]))
<1>1. PICK b : Cover(c, l, b) /\ b[Len(l)] = Len(c)
  BY DEF Wholly
<1> QED
  BY <1>1, GrammarAccepts

\* All of a condition that is accepted has a truth for each record.
LEMMA WholeHasTruth ==
  ASSUME NEW c \in Condition, NEW row, NEW l \in Seq(Part), Wholly(c, l),
         Passes(l, Len(l)), Walk(l) = <<"expr">>, \A m \in 1 .. Len(l) : Typed(l[m])
  PROVE  Truths(c, row) # {}
<1>1. PICK b : Cover(c, l, b) /\ b[Len(l)] = Len(c)
  BY DEF Wholly
<1> QED
  BY <1>1, AcceptedHasTruth

\* Loading begins with nothing read.
LEMMA LoadMeans ==
  ASSUME NEW where \in Condition, LoadLogical(where)
  PROVE  MeaningInv'
<1>1. /\ ex' = where /\ lg' = <<>> /\ pc' = "split" /\ pos' = 1 /\ st' = <<>> /\ out' = "none"
  BY DEF LoadLogical
<1>2. Splitting(where, <<>>, <<>>, 1)
  BY SplittingBegins DEF Condition
<1> QED
  BY <1>1, <1>2 DEF MeaningInv, SplitSoFar, TypesFit, Telling, Judged, Untold, EvaluatesMeaning

\* A comparison is cut out.
LEMMA SplitMeans ==
  ASSUME LogicalInv, MeaningInv, Split
  PROVE  MeaningInv'
<1>1. /\ ex \in Condition /\ ex \in Seq(Node) /\ st \in Seq(Node) /\ lg \in Seq(Part)
      /\ pc = "split" /\ pos \in 1 .. Len(ex) /\ IsComparison(ex[pos])
      /\ Len(ex) \in Nat /\ Splitting(ex, lg, st, pos)
  BY DEF LogicalInv, LogicalSorts, Bounds, Split, MeaningInv, SplitSoFar
<1>2. RightEnd(pos + 1) = Rgt(ex, pos + 1)
  BY DEF RightEnd, Rgt
<1>3. PICK q : q = Rgt(ex, pos + 1)
  OBVIOUS
<1>4. PICK n : n = LeftEnd(st)
  OBVIOUS
<1>5. n \in 0 .. Len(st) /\ q \in pos + 1 .. Len(ex) + 1
  BY <1>1, <1>2, <1>3, <1>4, LeftEndIn, RightEndIn
<1>6. PICK x : x = LogicalNode(ex[pos], SubSeq(st, n + 1, Len(st)), SubSeq(ex, pos + 1, q - 1))
  OBVIOUS
<1>7. x \in Part
  <2>1. SubSeq(st, n + 1, Len(st)) \in Seq(Node)
    BY <1>1, <1>5
  <2>2. SubSeq(ex, pos + 1, q - 1) \in Seq(Node) /\ ex[pos] \in Node
    BY <1>1, <1>5
  <2> QED
    BY <1>6, <2>1, <2>2 DEF LogicalNode, Node, Part
<1>8. /\ lg' = Append(lg \o Converted(SubSeq(st, 1, n)), x) /\ pos' = q /\ st' = <<>>
      /\ UNCHANGED <<ex, pc, stack, lgStack, value, out>>
  BY <1>2, <1>3, <1>4, <1>6 DEF Split, Cleared
<1>9. Splitting(ex, Append(lg \o Converted(SubSeq(st, 1, n)), x), <<>>, q)
  BY <1>1, <1>3, <1>4, <1>5, <1>6, <1>7, SplittingCuts
<1> QED
  BY <1>1, <1>8, <1>9 DEF MeaningInv, SplitSoFar, TypesFit, Telling, Judged, Untold, EvaluatesMeaning

\* A node is kept.
LEMMA KeepMeans ==
  ASSUME LogicalInv, MeaningInv, Keep
  PROVE  MeaningInv'
<1>1. /\ ex \in Seq(Node) /\ lg \in Seq(Part)
      /\ pc = "split" /\ pos \in 1 .. Len(ex) /\ ~IsComparison(ex[pos])
      /\ Splitting(ex, lg, st, pos)
  BY DEF LogicalInv, LogicalSorts, Bounds, Keep, MeaningInv, SplitSoFar
<1>2. /\ st' = Append(st, ex[pos]) /\ pos' = pos + 1
      /\ UNCHANGED <<ex, pc, lg, stack, lgStack, value, out>>
  BY DEF Keep
<1>3. Splitting(ex, lg, Append(st, ex[pos]), pos + 1)
  BY <1>1, SplittingKeeps
<1> QED
  BY <1>1, <1>2, <1>3 DEF MeaningInv, SplitSoFar, TypesFit, Telling, Judged, Untold, EvaluatesMeaning

\* All nodes are in lg_; a condition with a LIKE of nothing has no reading.
LEMMA EndSplitMeans ==
  ASSUME LogicalInv, MeaningInv, EndSplit
  PROVE  MeaningInv'
<1>1. /\ ex \in Condition /\ ex \in Seq(Node) /\ st \in Seq(Node) /\ lg \in Seq(Part)
      /\ pc = "split" /\ pos = Len(ex) + 1 /\ Splitting(ex, lg, st, pos)
  BY DEF LogicalInv, LogicalSorts, Bounds, EndSplit, MeaningInv, SplitSoFar
<1>2. /\ lg' = lg \o Converted(st)
      /\ pc' = IF LikeOfNothing THEN "undefined" ELSE "check"
      /\ UNCHANGED <<ex, stack, lgStack, value, out>>
  BY DEF EndSplit
<1>3. PICK a \in Seq(Part) : a = Converted(st)
  BY <1>1, ConvertedIsSeq
<1>4. PICK l \in Seq(Part) : /\ l = lg \o a /\ Len(l) = Len(lg) + Len(a)
                             /\ \A i \in 1 .. Len(lg) : l[i] = lg[i]
  <2>1. PICK g \in Seq(Part) : g = lg
    BY <1>1
  <2>2. /\ g \o a \in Seq(Part) /\ Len(g \o a) = Len(g) + Len(a)
        /\ \A i \in 1 .. Len(g) + Len(a) : (g \o a)[i] = IF i <= Len(g) THEN g[i] ELSE a[i - Len(g)]
    BY ConcatProperties
  <2>3. \A i \in 1 .. Len(g) : i \in 1 .. Len(g) + Len(a) /\ i <= Len(g)
    OBVIOUS
  <2>4. \A i \in 1 .. Len(g) : (g \o a)[i] = g[i]
    BY <2>2, <2>3
  <2> QED
    BY <2>1, <2>2, <2>4
<1>5. Wholly(ex, l)
  <2>1. Splitting(ex, lg, st, Len(ex) + 1)
    BY <1>1
  <2>2. \E b : Cover(ex, lg \o Converted(st), b) /\ b[Len(lg \o Converted(st))] = Len(ex)
    BY <1>1, <2>1, SplittingEnds
  <2> QED
    BY <1>3, <1>4, <2>2 DEF Wholly
<1>6. ASSUME LikeOfNothing, InGrammar(ex)
      PROVE  FALSE
  <2>1. PICK i \in 1 .. Len(lg) : lg[i].type \in LikeTypes /\ lg[i].right = <<>>
    BY <1>1, <1>6 DEF LikeOfNothing
  <2>2. i \in 1 .. Len(l) /\ l[i] = lg[i]
    BY <1>1, <1>3, <1>4
  <2>3. IsComparison(l[i]) /\ l[i].type \notin CompareTypes
    BY <2>1, <2>2 DEF IsComparison, LikeTypes, CompareTypes
  <2>4. ComparisonFits(l[i])
    BY <1>1, <1>5, <1>6, <2>2, <2>3, WholeAccepts DEF InGrammar
  <2>5. Len(l[i].right) = 1
    BY <2>3, <2>4 DEF ComparisonFits, IsOne
  <2>6. l[i].right = <<>>
    BY <2>1, <2>2
  <2> QED
    BY <2>5, <2>6
<1>7. SplitSoFar'
  BY <1>2, <1>3, <1>4, <1>5 DEF SplitSoFar
<1>8. TypesFit' /\ Telling' /\ Untold' /\ EvaluatesMeaning'
  BY <1>1, <1>2 DEF MeaningInv, TypesFit, Telling, Untold, EvaluatesMeaning
<1>9. Judged'
  BY <1>2, <1>6 DEF Judged
<1> QED
  BY <1>7, <1>8, <1>9 DEF MeaningInv

\* The check changes no node.
LEMMA CheckMeans ==
  ASSUME MeaningInv, Check
  PROVE  MeaningInv'
<1>1. pc = "check" /\ UNCHANGED <<ex, pc, st, lg, lgStack, value, out>>
  BY DEF Check
<1> QED
  BY <1>1 DEF MeaningInv, SplitSoFar, TypesFit, Telling, Judged, Untold, EvaluatesMeaning

\* A condition that does not pass has no reading.
LEMMA CheckRefusesMeans ==
  ASSUME LogicalInv, MeaningInv, CheckRefuses
  PROVE  MeaningInv'
<1>1. /\ pc = "check" /\ pos <= Len(lg) /\ ~NodeFits(stack, lg[pos])
      /\ pc' = "refused" /\ UNCHANGED <<ex, pos, st, lg, stack, lgStack, value, out>>
  BY DEF CheckRefuses
<1>2. /\ ex \in Condition /\ lg \in Seq(Part) /\ pos \in 1 .. Len(lg)
      /\ stack = Walk(SubSeq(lg, 1, pos - 1)) /\ Wholly(ex, lg)
  BY <1>1 DEF LogicalInv, LogicalSorts, Bounds, Checking, MeaningInv, SplitSoFar
<1>3. ASSUME InGrammar(ex)
      PROVE  FALSE
  <2>1. Passes(lg, Len(lg))
    BY <1>2, <1>3, WholeAccepts DEF InGrammar
  <2> QED
    BY <1>1, <1>2, <2>1 DEF Passes
<1> QED
  BY <1>1, <1>3 DEF MeaningInv, SplitSoFar, TypesFit, Telling, Judged, Untold, EvaluatesMeaning

\* So it is at the end of the check.
LEMMA EndCheckMeans ==
  ASSUME LogicalInv, MeaningInv, EndCheck
  PROVE  MeaningInv'
<1>1. /\ pc = "check" /\ pos > Len(lg)
      /\ pc' = IF stack = <<"expr">> /\ \A i \in DOMAIN lg : Typed(lg[i]) THEN "ready" ELSE "refused"
      /\ UNCHANGED <<ex, pos, st, lg, stack, lgStack, value, out>>
  BY DEF EndCheck
<1>2. /\ ex \in Condition /\ lg \in Seq(Part) /\ Wholly(ex, lg)
      /\ pos \in 1 .. Len(ex) + 1 /\ pos <= Len(lg) + 1 /\ stack = Walk(SubSeq(lg, 1, pos - 1))
  BY <1>1 DEF LogicalInv, LogicalSorts, Bounds, Checking, MeaningInv, SplitSoFar
<1>3. stack = Walk(lg) /\ DOMAIN lg = 1 .. Len(lg)
  <2>1. Len(lg) \in Nat /\ pos \in Int
    BY <1>2
  <2>2. pos - 1 = Len(lg)
    BY <1>1, <1>2, <2>1
  <2>3. SubSeq(lg, 1, pos - 1) = lg
    BY <1>2, <2>1, <2>2
  <2>4. DOMAIN lg = 1 .. Len(lg)
    BY <1>2
  <2> QED
    BY <1>2, <2>3, <2>4
<1>4. CASE stack = <<"expr">> /\ \A i \in DOMAIN lg : Typed(lg[i])
  <2>1. pc' = "ready" /\ TypesFit'
    BY <1>1, <1>3, <1>4 DEF TypesFit
  <2>2. out = "none"
    BY <1>1 DEF MeaningInv, Untold
  <2> QED
    BY <1>1, <1>2, <2>1, <2>2 DEF MeaningInv, SplitSoFar, Telling, Judged, Untold, EvaluatesMeaning
<1>5. CASE ~(stack = <<"expr">> /\ \A i \in DOMAIN lg : Typed(lg[i]))
  <2>1. pc' = "refused"
    BY <1>1, <1>5
  <2>2. ASSUME InGrammar(ex)
        PROVE  FALSE
    BY <1>2, <1>3, <1>5, <2>2, WholeAccepts DEF InGrammar
  <2> QED
    BY <1>1, <2>1, <2>2 DEF MeaningInv, SplitSoFar, TypesFit, Telling, Judged, Untold, EvaluatesMeaning
<1> QED
  BY <1>4, <1>5

\* An evaluation begins with no node told.
LEMMA BeginEvaluateMeans ==
  ASSUME LogicalInv, MeaningInv, NEW row \in Row, BeginEvaluate(row)
  PROVE  MeaningInv'
<1>1. /\ pc = "ready" /\ pc' = "evaluate" /\ value' = row /\ lgStack' = <<>> /\ pos' = 1
      /\ UNCHANGED <<ex, st, lg, stack, out>>
  BY DEF BeginEvaluate
<1>2. Runs(lg, row, 0, 0, <<>>, <<>>)
  BY RunsNothing
<1>3. Telling'
  BY <1>1, <1>2 DEF Telling
<1> QED
  BY <1>1, <1>3 DEF MeaningInv, SplitSoFar, TypesFit, Judged, Untold, EvaluatesMeaning

\* A node adds at most one character.
LEMMA NodeAddsOne ==
  ASSUME NEW s \in Seq(Code), Formed(Kinds(s)), NEW x, NodeFits(Kinds(s), x)
  PROVE  Len(Evaluated(s, x)) <= Len(s) + 1
<1>1. Evaluated(s, x) \in Seq(Code) /\ Kinds(Evaluated(s, x)) = NodeChecked(Kinds(s), x)
  BY EvaluatedShape
<1>2. PICK r \in Seq(Code) : r = Evaluated(s, x)
  BY <1>1
<1>3. PICK k \in Seq(Mark) : k = Kinds(s) /\ Len(k) = Len(s)
  BY KindsShape
<1>4. PICK n \in Nat : n = Len(k)
  OBVIOUS
<1>5. Len(Kinds(r)) = Len(r)
  BY KindsShape
<1>6. ASSUME NEW j, Len(Append(k, j)) # n + 1
      PROVE  FALSE
  BY <1>4, <1>6
<1>7. \A m \in Seq(Mark) : Len(m) <= n => Len(PushExpr(m)) <= n + 1
  <2> SUFFICES ASSUME NEW m \in Seq(Mark), Len(m) <= n
               PROVE  Len(PushExpr(m)) <= n + 1
    OBVIOUS
  <2>1. CASE Len(m) > 1 /\ Top(m, 2) = <<"expr", "opt">>
    <3>1. Popped(m, 2) \in Seq(Mark) /\ Len(Popped(m, 2)) = Len(m) - 2
      <4>1. PICK i \in Nat : i = Len(m) - 2 /\ i <= Len(m)
        <5>1. Len(m) - 2 \in Nat /\ Len(m) - 2 <= Len(m)
          <6>1. Len(m) \in Nat /\ Len(m) > 1
            BY <2>1
          <6> QED
            BY <6>1
        <5> QED
          BY <5>1
      <4>2. SubSeq(m, 1, i) \in Seq(Mark) /\ Len(SubSeq(m, 1, i)) = i
        BY <4>1
      <4> QED
        BY <4>1, <4>2 DEF Popped
    <3>2. PushExpr(m) = Append(Popped(m, 2), "expr")
      BY <2>1 DEF PushExpr
    <3> QED
      BY <3>1, <3>2
  <2>2. CASE ~(Len(m) > 1 /\ Top(m, 2) = <<"expr", "opt">>)
    BY <2>2 DEF PushExpr
  <2> QED
    BY <2>1, <2>2
<1>8. Merged(k) \in Seq(Mark) /\ Len(Merged(k)) <= n
  BY <1>3, <1>4, MergedShape
<1>9. Len(k) >= 2 => Popped(k, 2) \in Seq(Mark) /\ Len(Popped(k, 2)) <= n
  BY <1>4 DEF Popped
<1>10. Len(NodeChecked(k, x)) <= n + 1
  <2>1. NodeFits(k, x)
    BY <1>3
  <2>2. CASE NodeChecked(k, x) = Append(k, "left") \/ NodeChecked(k, x) = Append(k, "opt")
    BY <1>4, <2>2
  <2>3. CASE Len(k) >= 2 /\ NodeChecked(k, x) = PushExpr(Popped(k, 2))
    BY <1>7, <1>9, <2>3
  <2>4. CASE NodeChecked(k, x) = PushExpr(Merged(k))
    BY <1>7, <1>8, <2>4
  <2> QED
    BY <2>1, <2>2, <2>3, <2>4, FitsCases
<1> QED
  BY <1>1, <1>2, <1>3, <1>4, <1>5, <1>10

\* A node evaluated is told as the readings say.
LEMMA EvaluateMeans ==
  ASSUME LogicalInv, MeaningInv, Evaluate
  PROVE  MeaningInv'
<1>1. /\ pc = "evaluate" /\ pos <= Len(lg) /\ ~Undefined(lg[pos], value)
      /\ lgStack' = Evaluated(lgStack, lg[pos]) /\ pos' = pos + 1
      /\ UNCHANGED <<ex, pc, st, lg, stack, value, out>>
  BY DEF Evaluate
<1>2. /\ lg \in Seq(Part) /\ pos \in 1 .. Len(lg)
      /\ lgStack \in Seq(Code) /\ Formed(Kinds(lgStack)) /\ NodeFits(Kinds(lgStack), lg[pos])
  BY <1>1, EvaluationShape
<1>3. /\ ex \in Condition /\ Wholly(ex, lg) /\ \A m \in 1 .. Len(lg) : Typed(lg[m])
      /\ value \in Row /\ Runs(lg, value, 0, pos - 1, <<>>, lgStack)
  BY <1>1 DEF LogicalInv, LogicalSorts, MeaningInv, SplitSoFar, TypesFit, Telling
<1>4. PICK x \in Part : x = lg[pos]
  BY <1>2
<1>5. IsComparison(x) => HasSides(x)
  <2>1. PICK b : Cover(ex, lg, b)
    BY <1>3 DEF Wholly
  <2> QED
    BY <1>2, <1>3, <1>4, <2>1, CoverSides
<1>6. Evaluated(lgStack, x) = Told(lgStack, x, TruthOf(x, value))
  <2>1. CASE IsComparison(x)
    <3>1. ComparisonFits(x)
      <4>1. x.type \notin Joins \cup {"kleft", "kright"}
        BY <2>1 DEF IsComparison, CompareTypes, LikeTypes, Joins
      <4> QED
        BY <1>2, <1>4, <4>1 DEF NodeFits
    <3>2. Typed(x)
      BY <1>2, <1>3, <1>4
    <3>3. Holds(x, value) <=> Means(x, value)
      BY <1>1, <1>3, <1>4, <1>5, <2>1, <3>1, <3>2, HoldsMeans
    <3>4. Truth(Holds(x, value)) = TruthOf(x, value)
      BY <3>3 DEF Truth, TruthOf
    <3>5. Evaluated(lgStack, x) = Told(lgStack, x, Truth(Holds(x, value)))
      BY DEF Evaluated, Told
    <3> QED
      BY <3>4, <3>5
  <2>2. CASE ~IsComparison(x)
    <3>1. x.type \in Joins \cup {"kleft"} \/ x.type = "kright"
      BY <1>2, <1>4, <2>2 DEF NodeFits
    <3>2. CASE x.type \in Joins \cup {"kleft"}
      <4>1. x.type # "kright"
        BY <3>2 DEF Joins
      <4> QED
        BY <3>2, <4>1 DEF Evaluated, Told
    <3>3. CASE x.type = "kright"
      <4>1. x.type \notin Joins \cup {"kleft"}
        BY <3>3 DEF Joins
      <4> QED
        BY <3>3, <4>1 DEF Evaluated, Told
    <3> QED
      BY <3>1, <3>2, <3>3
  <2> QED
    BY <2>1, <2>2
<1>7. PICK o \in Nat : pos = o + 1 /\ pos - 1 = o /\ (pos + 1) - 1 = o + 1
  <2>1. pos - 1 \in Nat /\ pos = (pos - 1) + 1 /\ (pos + 1) - 1 = (pos - 1) + 1
    BY <1>2
  <2> QED
    BY <2>1
<1>8. Runs(lg, value, o, o + 1, lgStack, Told(lgStack, lg[o + 1], TruthOf(lg[o + 1], value)))
  BY <1>2, <1>7, RunOne DEF Good
<1>9. PICK t : t = Evaluated(lgStack, x)
  OBVIOUS
<1>10. Runs(lg, value, o, o + 1, lgStack, t)
  BY <1>4, <1>6, <1>7, <1>8, <1>9
<1>11. Runs(lg, value, 0, o, <<>>, lgStack)
  BY <1>3, <1>7
<1>12. Runs(lg, value, 0, o + 1, <<>>, t)
  <2>1. 0 \in Nat /\ o + 1 \in Nat /\ 0 <= o /\ o <= o + 1
    OBVIOUS
  <2> QED
    BY <1>10, <1>11, <2>1, RunCat
<1>13. Telling'
  BY <1>1, <1>3, <1>4, <1>7, <1>9, <1>12 DEF Telling
<1> QED
  BY <1>1, <1>13 DEF MeaningInv, SplitSoFar, TypesFit, Judged, Untold, EvaluatesMeaning

\* lg_stack_ is overrun only if it was full.
LEMMA EvaluateOverrunsMeans ==
  ASSUME LogicalInv, MeaningInv, EvaluateOverruns
  PROVE  MeaningInv'
<1>1. /\ pc = "evaluate" /\ pos <= Len(lg) /\ Len(Evaluated(lgStack, lg[pos])) > LgSize
      /\ pc' = "undefined" /\ UNCHANGED <<ex, pos, st, lg, stack, lgStack, value, out>>
  BY DEF EvaluateOverruns
<1>2. /\ lgStack \in Seq(Code) /\ Formed(Kinds(lgStack)) /\ NodeFits(Kinds(lgStack), lg[pos])
  BY <1>1, EvaluationShape
<1>3. Evaluated(lgStack, lg[pos]) \in Seq(Code) /\ Len(Evaluated(lgStack, lg[pos])) <= Len(lgStack) + 1
  BY <1>2, EvaluatedShape, NodeAddsOne
<1>4. Len(lgStack) <= LgSize /\ LgSize \in Nat
  BY LogicalAssumption DEF LogicalInv, LogicalSorts
<1>5. Len(lgStack) = LgSize
  <2>1. Len(Evaluated(lgStack, lg[pos])) \in Nat /\ Len(lgStack) \in Nat
    BY <1>2, <1>3
  <2> QED
    BY <1>1, <1>3, <1>4, <2>1
<1> QED
  BY <1>1, <1>5 DEF MeaningInv, SplitSoFar, TypesFit, Telling, Judged, Untold, EvaluatesMeaning

\* The other harm is done by a comparison that C++ leaves undefined.
LEMMA EvaluateTrapsMeans ==
  ASSUME MeaningInv, EvaluateTraps
  PROVE  MeaningInv'
<1>1. /\ Undefined(lg[pos], value)
      /\ pc' = "undefined" /\ UNCHANGED <<ex, pos, st, lg, stack, lgStack, value, out>>
  BY DEF EvaluateTraps
<1> QED
  BY <1>1 DEF MeaningInv, SplitSoFar, TypesFit, Telling, Judged, Untold, EvaluatesMeaning

\* At the end the stack holds the one truth of the condition.
LEMMA EndEvaluateMeans ==
  ASSUME LogicalInv, MeaningInv, EndEvaluate
  PROVE  MeaningInv'
<1>1. /\ pc = "evaluate" /\ pos > Len(lg) /\ out' = Truth(lgStack[1] = "T") /\ pc' = "ready"
      /\ UNCHANGED <<ex, pos, st, lg, stack, lgStack, value>>
  BY DEF EndEvaluate, Result
<1>2. /\ lg \in Seq(Part) /\ pos \in 1 .. Len(lg) + 1
  BY <1>1, EvaluationShape
<1>3. /\ ex \in Condition /\ Wholly(ex, lg) /\ \A m \in 1 .. Len(lg) : Typed(lg[m])
      /\ Passes(lg, Len(lg)) /\ Walk(lg) = <<"expr">>
      /\ value \in Row /\ Runs(lg, value, 0, pos - 1, <<>>, lgStack)
  BY <1>1 DEF LogicalInv, LogicalSorts, Accepted, MeaningInv, SplitSoFar, TypesFit, Telling
<1>4. pos - 1 = Len(lg)
  <2>1. Len(lg) \in Nat
    BY <1>2
  <2> QED
    BY <1>1, <1>2, <2>1
<1>5. PICK t : t \in Truths(ex, value)
  <2>1. Truths(ex, value) # {}
    BY <1>2, <1>3, WholeHasTruth
  <2> QED
    BY <2>1
<1>6. PICK b : Cover(ex, lg, b) /\ b[Len(lg)] = Len(ex)
  BY <1>3 DEF Wholly
<1>7. ASSUME NEW u \in Truths(ex, value)
      PROVE  lgStack = <<Truth(u)>> /\ u \in BOOLEAN
  <2>1. Runs(lg, value, 0, Len(lg), <<>>, lgStack)
    BY <1>3, <1>4
  <2> QED
    BY <1>2, <1>3, <1>6, <1>7, <2>1, TruthsRun
<1>8. ASSUME NEW u \in Truths(ex, value)
      PROVE  u = (out' = "T")
  <2>1. lgStack[1] = Truth(u) /\ u \in BOOLEAN
    BY <1>7, <1>8
  <2>2. CASE u = TRUE
    <3>1. Truth(u) = "T"
      BY <2>2 DEF Truth
    <3>2. out' = "T"
      BY <1>1, <2>1, <3>1 DEF Truth
    <3> QED
      BY <2>2, <3>2
  <2>3. CASE u = FALSE
    <3>1. Truth(u) = "F"
      BY <2>3 DEF Truth
    <3>2. out' = "F"
      BY <1>1, <2>1, <3>1 DEF Truth
    <3> QED
      BY <2>3, <3>2
  <2> QED
    BY <2>1, <2>2, <2>3
<1>9. Truths(ex, value) = {out' = "T"}
  BY <1>5, <1>8
<1>10. Len(lgStack) = 1
  BY <1>5, <1>7
<1>11. EvaluatesMeaning'
  BY <1>1, <1>9, <1>10 DEF EvaluatesMeaning
<1> QED
  BY <1>1, <1>11 DEF MeaningInv, SplitSoFar, TypesFit, Telling, Judged, Untold

\* What does not touch these members preserves what is said of them.
LEMMA MeaningKeeps ==
  ASSUME MeaningInv, UNCHANGED logicalVars
  PROVE  MeaningInv'
BY DEF logicalVars, MeaningInv, SplitSoFar, TypesFit, Telling, Judged, Untold, EvaluatesMeaning

\* A condition is accepted exactly if it has a reading.
LEMMA MeaningExact ==
  ASSUME LogicalInv, MeaningInv
  PROVE  ConditionExact
<1>1. ASSUME pc = "ready"
      PROVE  InGrammar(ex)
  <2>1. /\ ex \in Condition /\ lg \in Seq(Part) /\ Wholly(ex, lg)
        /\ \A m \in 1 .. Len(lg) : Typed(lg[m])
        /\ Passes(lg, Len(lg)) /\ Walk(lg) = <<"expr">>
    BY <1>1 DEF LogicalInv, LogicalSorts, Accepted, MeaningInv, SplitSoFar, TypesFit
  <2> QED
    BY <2>1, WholeHasTruth DEF InGrammar
<1>2. Judged
  BY DEF MeaningInv
<1> QED
  BY <1>1, <1>2 DEF ConditionExact, Judged

-----------------------------------------------------------------------------
(* Records erased and selected by keys. *)

\* What every step of a fold preserves holds of its result.
LEMMA FoldTyped ==
  ASSUME NEW T, NEW n \in Nat, NEW g, g[{}] \in T,
         \A t \in SUBSET (1 .. n) : t # {} /\ g[t \ {Max(t)}] \in T => g[t] \in T
  PROVE  g[1 .. n] \in T
<1> DEFINE Odd == {k \in Nat : k <= n /\ ~(g[1 .. k] \in T)}
<1>1. ASSUME Odd # {}
      PROVE  FALSE
  <2>1. PICK k \in Odd : \A j \in Odd : k <= j
    BY <1>1, LeastNumber
  <2>2. k # 0
    <3>1. 1 .. 0 = {}
      OBVIOUS
    <3> QED
      BY <2>1, <3>1
  <2>3. PICK j : j = k - 1
    OBVIOUS
  <2>4. j \in Nat /\ j <= n /\ j \notin Odd /\ k = j + 1
    BY <2>1, <2>2, <2>3
  <2>5. g[1 .. j] \in T
    BY <2>4
  <2>6. (1 .. k) # {} /\ (1 .. k) \in SUBSET (1 .. n) /\ k \in 1 .. k /\ (1 .. k) \in SUBSET (1 .. k)
    <3>1. k \in Nat /\ k <= n /\ k \in 1 .. k
      BY <2>1, <2>4
    <3>2. \A i \in 1 .. k : i \in 1 .. n
      BY <3>1
    <3> QED
      BY <3>1, <3>2
  <2>7. Max(1 .. k) = k
    <3>1. Max(1 .. k) \in 1 .. k /\ Max(1 .. k) >= k
      BY <2>1, <2>6, MaxIsIn
    <3> QED
      BY <2>1, <3>1
  <2>8. (1 .. k) \ {k} = 1 .. j
    BY <2>4
  <2> QED
    BY <2>1, <2>5, <2>6, <2>7, <2>8
<1>2. n <= n
  OBVIOUS
<1> QED
  BY <1>1, <1>2

\* The first k places.
LEMMA FirstPlaces ==
  ASSUME NEW n \in Nat, NEW k \in 1 .. n
  PROVE  /\ (1 .. k) \in SUBSET (1 .. n) /\ (1 .. k) # {} /\ Max(1 .. k) = k
         /\ (1 .. k) \ {k} = 1 .. k - 1 /\ k - 1 \in 0 .. n
<1>1. k \in Nat /\ k \in 1 .. k /\ k - 1 \in 0 .. n /\ \A i \in 1 .. k : i \in 1 .. n
  OBVIOUS
<1>2. (1 .. k) # {} /\ (1 .. k) \in SUBSET (1 .. k) /\ (1 .. k) \in SUBSET (1 .. n)
  BY <1>1
<1>3. Max(1 .. k) \in 1 .. k /\ Max(1 .. k) >= k
  BY <1>1, <1>2, MaxIsIn
<1>4. Max(1 .. k) = k
  BY <1>1, <1>3
<1>5. (1 .. k) \ {k} = 1 .. k - 1
  BY <1>1
<1> QED
  BY <1>1, <1>2, <1>4, <1>5

\* The place of a key is a place.
LEMMA AtIs ==
  ASSUME NEW S, NEW d \in Seq(S), NEW k, At(d, k) # {}
  PROVE  Min(At(d, k)) \in 1 .. Len(d)
<1>1. At(d, k) \in SUBSET (1 .. Len(d)) /\ Len(d) \in Nat
  BY DEF At
<1>2. At(d, k) \in SUBSET Nat
  BY <1>1
<1> QED
  BY <1>1, <1>2, MinIsIn

\* A sequence with an element erased.
LEMMA Removed ==
  ASSUME NEW S, NEW d \in Seq(S), NEW i \in 1 .. Len(d)
  PROVE  RemoveAt(d, i) \in Seq(S) /\ Len(RemoveAt(d, i)) = Len(d) - 1
<1>1. Len(d) \in Nat
  OBVIOUS
<1>2. PICK a : a = SubSeq(d, 1, i - 1)
  OBVIOUS
<1>3. PICK b : b = SubSeq(d, i + 1, Len(d))
  OBVIOUS
<1>4. a \in Seq(S) /\ Len(a) = i - 1
  BY <1>1, <1>2
<1>5. b \in Seq(S) /\ Len(b) = Len(d) - i
  BY <1>1, <1>3
<1>6. a \o b \in Seq(S) /\ Len(a \o b) = Len(a) + Len(b)
  BY <1>4, <1>5, ConcatProperties
<1>7. RemoveAt(d, i) = a \o b
  BY <1>2, <1>3 DEF RemoveAt
<1>8. Len(a \o b) = Len(d) - 1
  BY <1>1, <1>4, <1>5, <1>6
<1> QED
  BY <1>6, <1>7, <1>8

\* g is the recursion by which the library folds Erased over s.
ErasedBy(d, s, g) ==
  g = [t \in SUBSET (DOMAIN s) |->
         IF t = {} THEN d ELSE LET x == Max(t) IN Erased(g[t \ {x}], s[x])]

\* Erasing a key leaves a table.
LEMMA ErasedTyped ==
  ASSUME NEW S, NEW d \in Seq(S), NEW k
  PROVE  Erased(d, k) \in Seq(S)
BY AtIs, Removed DEF Erased

\* What is left when all of the keys are erased.
AllErased(d, keys) == FoldLeft(Erased, d, keys)

\* f[k] is what is left of d after k keys.
ErasesBy(S, d, keys, f) ==
  /\ f[0] = d /\ AllErased(d, keys) = f[Len(keys)]
  /\ \A k \in 0 .. Len(keys) : f[k] \in Seq(S)
  /\ \A k \in 1 .. Len(keys) : f[k] = Erased(f[k - 1], keys[k])

\* Erasing many keys goes step by step.
LEMMA ErasedSteps ==
  ASSUME NEW S, NEW d \in Seq(S), NEW X, NEW keys \in Seq(X)
  PROVE  \E f : ErasesBy(S, d, keys, f)
<1> DEFINE T == Seq(S)
           step == [u \in T |-> [x \in X |-> Erased(u, x)]]
<1>0. DOMAIN keys = 1 .. Len(keys) /\ Len(keys) \in Nat
  OBVIOUS
<1>1. step \in [T -> [X -> T]]
  BY ErasedTyped
<1> HIDE DEF step
<1>2. PICK g : Unfolds(g, Len(keys), T, d, step, keys)
  BY <1>1, FoldOfFunction
<1> HIDE DEF T
<1>3. /\ g \in [SUBSET (1 .. Len(keys)) -> T]
      /\ \A t \in SUBSET (1 .. Len(keys)) :
           g[t] = IF t = {} THEN d ELSE step[g[t \ {Max(t)}]][keys[Max(t)]]
  BY <1>2 DEF Unfolds
<1>4. ASSUME NEW t \in SUBSET (1 .. Len(keys))
      PROVE  g[t] = IF t = {} THEN d ELSE Erased(g[t \ {Max(t)}], keys[Max(t)])
  <2>1. CASE t = {}
    BY <1>3, <2>1
  <2>2. CASE t # {}
    <3>1. Max(t) \in 1 .. Len(keys)
      BY <1>0, <2>2, MaxIsIn
    <3>2. keys[Max(t)] \in X
      BY <3>1
    <3>3. g[t \ {Max(t)}] \in T
      BY <1>3
    <3>4. g[t] = step[g[t \ {Max(t)}]][keys[Max(t)]]
      BY <1>3, <2>2
    <3> QED
      BY <2>2, <3>2, <3>3, <3>4 DEF step
  <2> QED
    BY <2>1, <2>2
<1>5. g = [t \in SUBSET (DOMAIN keys) |->
             IF t = {} THEN d ELSE LET x == Max(t) IN Erased(g[t \ {x}], keys[x])]
  <2>1. g = [t \in SUBSET (1 .. Len(keys)) |-> g[t]]
    BY <1>3
  <2> QED
    BY <1>0, <1>4, <2>1
<1>6. PICK h : h = CHOOSE f : ErasedBy(d, keys, f)
  OBVIOUS
<1>7. ErasedBy(d, keys, h)
  BY <1>5, <1>6 DEF ErasedBy
<1>8. h = [t \in SUBSET (1 .. Len(keys)) |->
             IF t = {} THEN d ELSE LET x == Max(t) IN Erased(h[t \ {x}], keys[x])]
  BY <1>0, <1>7 DEF ErasedBy
<1>9. h[{}] \in T
  BY <1>8 DEF T
<1>10. ASSUME NEW t \in SUBSET (1 .. Len(keys)), t # {}, h[t \ {Max(t)}] \in T
       PROVE  h[t] \in T
  <2>1. h[t] = Erased(h[t \ {Max(t)}], keys[Max(t)])
    BY <1>8, <1>10
  <2> QED
    BY <1>10, <2>1, ErasedTyped DEF T
<1>11. ASSUME NEW k \in 0 .. Len(keys)
       PROVE  h[1 .. k] \in T
  <2>1. \A t \in SUBSET (1 .. k) : t \in SUBSET (1 .. Len(keys))
    <3>1. \A i \in 1 .. k : i \in 1 .. Len(keys)
      BY <1>0
    <3> QED
      BY <3>1
  <2>2. \A t \in SUBSET (1 .. k) : t # {} /\ h[t \ {Max(t)}] \in T => h[t] \in T
    BY <1>10, <2>1
  <2>3. k \in Nat
    BY <1>0
  <2> QED
    BY <1>9, <2>2, <2>3, FoldTyped
<1> DEFINE f == [k \in 0 .. Len(keys) |-> h[1 .. k]]
<1>12. ASSUME NEW k \in 1 .. Len(keys)
       PROVE  f[k] = Erased(f[k - 1], keys[k])
  <2>1. h[1 .. k] = Erased(h[(1 .. k) \ {k}], keys[k])
    <3>1. (1 .. k) \in SUBSET (1 .. Len(keys)) /\ (1 .. k) # {} /\ Max(1 .. k) = k
      BY <1>0, FirstPlaces
    <3> QED
      BY <1>8, <3>1
  <2>2. (1 .. k) \ {k} = 1 .. k - 1 /\ k - 1 \in 0 .. Len(keys) /\ k \in 0 .. Len(keys)
    BY <1>0, FirstPlaces
  <2> QED
    BY <2>1, <2>2
<1>13. f[0] = d
  <2>1. 1 .. 0 = {} /\ 0 \in 0 .. Len(keys)
    BY <1>0
  <2> QED
    BY <1>8, <2>1
<1>14. \A k \in 0 .. Len(keys) : f[k] \in T
  BY <1>11
<1>15. AllErased(d, keys) = f[Len(keys)]
  <2>1. AllErased(d, keys) = (CHOOSE e : ErasedBy(d, keys, e))[DOMAIN keys]
    BY DEF AllErased, FoldLeft, MapThenFoldSet, ErasedBy
  <2> QED
    BY <1>0, <1>6, <2>1
<1> HIDE DEF f
<1>16. ErasesBy(S, d, keys, f)
  BY <1>12, <1>13, <1>14, <1>15 DEF T, ErasesBy
<1> QED
  BY <1>16

\* It leaves a table.
LEMMA ErasedAll ==
  ASSUME NEW S, NEW d \in Seq(S), NEW X, NEW keys \in Seq(X)
  PROVE  AllErased(d, keys) \in Seq(S)
<1>1. PICK f : ErasesBy(S, d, keys, f)
  BY ErasedSteps
<1>2. Len(keys) \in 0 .. Len(keys)
  OBVIOUS
<1> QED
  BY <1>1, <1>2 DEF ErasesBy

\* g is the recursion by which the library folds Select over s.
SelectedBy(s, g) ==
  g = [t \in SUBSET (DOMAIN s) |->
         IF t = {} THEN <<>> ELSE LET x == Max(t) IN Select(g[t \ {x}], s[x])]

\* Selecting a key gives a record of the table.
LEMMA SelectTyped ==
  ASSUME NEW K, data \in Seq([key : K, row : Row]), NEW rows \in Seq(Row), NEW k
  PROVE  Select(rows, k) \in Seq(Row)
<1>1. CASE At(data, k) = {}
  BY <1>1 DEF Select
<1>2. CASE At(data, k) # {}
  <2>1. PICK i : i = Min(At(data, k))
    OBVIOUS
  <2>2. i \in 1 .. Len(data)
    BY <1>2, <2>1, AtIs
  <2>3. data[i] \in [key : K, row : Row]
    BY <2>2, ElementOfSeq
  <2>4. data[i].row \in Row
    BY <2>3
  <2>5. Select(rows, k) = Append(rows, data[i].row)
    BY <1>2, <2>1 DEF Select
  <2> QED
    BY <2>4, <2>5
<1> QED
  BY <1>1, <1>2

\* f[k] is what the first k keys select.
SelectsBy(keys, f) ==
  /\ f[0] = <<>> /\ Selected(keys) = f[Len(keys)]
  /\ \A k \in 0 .. Len(keys) : f[k] \in Seq(Row)
  /\ \A k \in 1 .. Len(keys) : f[k] = Select(f[k - 1], keys[k])

\* Selecting many keys goes step by step.
LEMMA SelectedSteps ==
  ASSUME NEW K, data \in Seq([key : K, row : Row]), NEW X, NEW keys \in Seq(X)
  PROVE  \E f : SelectsBy(keys, f)
<1> DEFINE T == Seq(Row)
           step == [u \in T |-> [x \in X |-> Select(u, x)]]
<1>0. DOMAIN keys = 1 .. Len(keys) /\ Len(keys) \in Nat /\ <<>> \in T
  OBVIOUS
<1>1. step \in [T -> [X -> T]]
  BY SelectTyped
<1> HIDE DEF step
<1>2. PICK g : Unfolds(g, Len(keys), T, <<>>, step, keys)
  BY <1>0, <1>1, FoldOfFunction
<1> HIDE DEF T
<1>3. /\ g \in [SUBSET (1 .. Len(keys)) -> T]
      /\ \A t \in SUBSET (1 .. Len(keys)) :
           g[t] = IF t = {} THEN <<>> ELSE step[g[t \ {Max(t)}]][keys[Max(t)]]
  BY <1>2 DEF Unfolds
<1>4. ASSUME NEW t \in SUBSET (1 .. Len(keys))
      PROVE  g[t] = IF t = {} THEN <<>> ELSE Select(g[t \ {Max(t)}], keys[Max(t)])
  <2>1. CASE t = {}
    BY <1>3, <2>1
  <2>2. CASE t # {}
    <3>1. Max(t) \in 1 .. Len(keys)
      BY <1>0, <2>2, MaxIsIn
    <3>2. keys[Max(t)] \in X
      BY <3>1
    <3>3. g[t \ {Max(t)}] \in T
      BY <1>3
    <3>4. g[t] = step[g[t \ {Max(t)}]][keys[Max(t)]]
      BY <1>3, <2>2
    <3> QED
      BY <2>2, <3>2, <3>3, <3>4 DEF step
  <2> QED
    BY <2>1, <2>2
<1>5. g = [t \in SUBSET (DOMAIN keys) |->
             IF t = {} THEN <<>> ELSE LET x == Max(t) IN Select(g[t \ {x}], keys[x])]
  <2>1. g = [t \in SUBSET (1 .. Len(keys)) |-> g[t]]
    BY <1>3
  <2> QED
    BY <1>0, <1>4, <2>1
<1>6. PICK h : h = CHOOSE f : SelectedBy(keys, f)
  OBVIOUS
<1>7. SelectedBy(keys, h)
  BY <1>5, <1>6 DEF SelectedBy
<1>8. h = [t \in SUBSET (1 .. Len(keys)) |->
             IF t = {} THEN <<>> ELSE LET x == Max(t) IN Select(h[t \ {x}], keys[x])]
  BY <1>0, <1>7 DEF SelectedBy
<1>9. h[{}] \in T
  BY <1>0, <1>8
<1>10. ASSUME NEW t \in SUBSET (1 .. Len(keys)), t # {}, h[t \ {Max(t)}] \in T
       PROVE  h[t] \in T
  <2>1. h[t] = Select(h[t \ {Max(t)}], keys[Max(t)])
    BY <1>8, <1>10
  <2> QED
    BY <1>10, <2>1, SelectTyped DEF T
<1>11. ASSUME NEW k \in 0 .. Len(keys)
       PROVE  h[1 .. k] \in T
  <2>1. \A t \in SUBSET (1 .. k) : t \in SUBSET (1 .. Len(keys))
    <3>1. \A i \in 1 .. k : i \in 1 .. Len(keys)
      BY <1>0
    <3> QED
      BY <3>1
  <2>2. \A t \in SUBSET (1 .. k) : t # {} /\ h[t \ {Max(t)}] \in T => h[t] \in T
    BY <1>10, <2>1
  <2>3. k \in Nat
    BY <1>0
  <2> QED
    BY <1>9, <2>2, <2>3, FoldTyped
<1> DEFINE f == [k \in 0 .. Len(keys) |-> h[1 .. k]]
<1>12. ASSUME NEW k \in 1 .. Len(keys)
       PROVE  f[k] = Select(f[k - 1], keys[k])
  <2>1. h[1 .. k] = Select(h[(1 .. k) \ {k}], keys[k])
    <3>1. (1 .. k) \in SUBSET (1 .. Len(keys)) /\ (1 .. k) # {} /\ Max(1 .. k) = k
      BY <1>0, FirstPlaces
    <3> QED
      BY <1>8, <3>1
  <2>2. (1 .. k) \ {k} = 1 .. k - 1 /\ k - 1 \in 0 .. Len(keys) /\ k \in 0 .. Len(keys)
    BY <1>0, FirstPlaces
  <2> QED
    BY <2>1, <2>2
<1>13. f[0] = <<>>
  <2>1. 1 .. 0 = {} /\ 0 \in 0 .. Len(keys)
    BY <1>0
  <2> QED
    BY <1>8, <2>1
<1>14. \A k \in 0 .. Len(keys) : f[k] \in T
  BY <1>11
<1>15. Selected(keys) = f[Len(keys)]
  <2>1. Selected(keys) = (CHOOSE e : SelectedBy(keys, e))[DOMAIN keys]
    BY DEF Selected, FoldLeft, MapThenFoldSet, SelectedBy
  <2> QED
    BY <1>0, <1>6, <2>1
<1> HIDE DEF f
<1>16. SelectsBy(keys, f)
  BY <1>12, <1>13, <1>14, <1>15 DEF T, SelectsBy
<1> QED
  BY <1>16

\* It gives records of the table.
LEMMA SelectedAll ==
  ASSUME NEW K, data \in Seq([key : K, row : Row]), NEW X, NEW keys \in Seq(X)
  PROVE  Selected(keys) \in Seq(Row)
<1>1. PICK f : SelectsBy(keys, f)
  BY SelectedSteps
<1>2. Len(keys) \in 0 .. Len(keys)
  OBVIOUS
<1> QED
  BY <1>1, <1>2 DEF SelectsBy

-----------------------------------------------------------------------------
(* Queries: each step of Query. *)

\* A record with a key that d has.
Entry(d) == [key : {e.key : e \in ToSet(d)}, row : Row]
Phases == {"idle", "where", "filter", "delete", "sort", "emit", "group", "undefined"}

\* The types of the members, and that a request under way is one that came.
QuerySorts ==
  /\ todo \in Seq(Message) /\ request \in Request
  /\ phase \in Phases /\ (phase # "idle" => todo # <<>>)
  /\ data \in Seq(Entry(before)) /\ found \in Seq(Row)

\* A filter writes behind where it reads: size < p.
Filtering ==
  phase = "filter" =>
    /\ size \in Nat /\ p \in Nat /\ size < p /\ p <= Len(found) + 1
    /\ pc = "evaluate" => p <= Len(found) /\ value \in Row

\* The iterator of DEL is in the table, or at its end.
Deleting ==
  phase = "delete" =>
    /\ p \in 1 .. Len(data) + 1
    /\ pc = "evaluate" => p <= Len(data)

\* There is one accumulator for each aggregate of the request.
PerAggregate(items) == items = [i \in DOMAIN request.aggs |-> items[i]]
\* Groups are made for the aggregates of this request only, whatever the last one
\* had.
Grouped ==
  /\ phase = "group" => \A k \in DOMAIN groups : PerAggregate(groups[k])
  /\ phase \in {"where", "filter"} /\ Op = "AGG" => groups = NoGroups
  /\ phase = "filter" => Op # "DEL"

\* What every step preserves.
QueryInv == LogicalInv /\ QuerySorts /\ Filtering /\ Deleting /\ Grouped

\* A table has its own keys.
LEMMA DataTyped ==
  ASSUME NEW K, data \in Seq([key : K, row : Row])
  PROVE  data \in Seq(Entry(data)) /\ Records(data) \in Seq(Row)
<1>1. \A i \in 1 .. Len(data) : data[i] \in [key : K, row : Row]
  BY ElementOfSeq
<1>2. \A i \in 1 .. Len(data) : data[i] \in Entry(data)
  BY <1>1 DEF Entry, ToSet
<1>3. \A i \in 1 .. Len(data) : data[i].row \in Row
  BY <1>1
<1>4. Len(data) \in Nat /\ DOMAIN data = 1 .. Len(data) /\ data = [i \in 1 .. Len(data) |-> data[i]]
  OBVIOUS
<1>5. data \in Seq(Entry(data))
  BY <1>2, <1>4, IsASeq
<1>6. Records(data) = [i \in 1 .. Len(data) |-> data[i].row]
  BY <1>4 DEF Records
<1> QED
  BY <1>3, <1>4, <1>5, <1>6, IsASeq

\* What a parser takes over before it refuses is of the type of the whole.
LEMMA UntilTyped ==
  ASSUME NEW S, NEW s \in Seq(S), NEW ids, NEW accepted
  PROVE  Until(s, ids, accepted) \in Seq(S)
<1>1. PICK T : T = {i \in DOMAIN s : ids[i] \notin accepted} \cup {Len(s) + 1}
  OBVIOUS
<1>2. T \in SUBSET (1 .. Len(s) + 1) /\ T # {} /\ Len(s) \in Nat
  BY <1>1
<1>3. T \in SUBSET Nat
  BY <1>2
<1>4. Min(T) \in 1 .. Len(s) + 1
  BY <1>2, <1>3, MinIsIn
<1>5. Until(s, ids, accepted) = SubSeq(s, 1, Min(T) - 1)
  BY <1>1 DEF Until
<1> QED
  BY <1>2, <1>4, <1>5

\* A request that came is a request.
LEMMA HeadTyped ==
  ASSUME QuerySorts, todo # <<>>
  PROVE  /\ Head(todo) \in Message /\ Head(todo).req \in Request
         /\ Op \in {"GET", "AGG", "DEL"} /\ Tail(todo) \in Seq(Message)
<1>1. todo \in Seq(Message)
  BY DEF QuerySorts
<1>2. Head(todo) \in Message /\ Tail(todo) \in Seq(Message)
  BY <1>1, HeadTailProperties
<1> QED
  BY <1>2 DEF Message, Op

\* A refused GET leaves request_ well typed.
LEMMA GetRefusedKeeps ==
  ASSUME QueryInv, GetRefused
  PROVE  QueryInv'
<1>1. /\ todo # <<>> /\ before' = data /\ phase' = "idle" /\ todo' = Tail(todo)
      /\ UNCHANGED <<data, found, p, size, groups, logicalVars>>
  BY DEF GetRefused, Receive, Reply
<1>2. PICK r : r = Head(todo).req
  OBVIOUS
<1>3. request' = [NoRequest EXCEPT !.aggs = request.aggs, !.group = request.group,
                      !.fields = Until(r.fields, r.fields, IdsOrAll)]
  BY <1>2 DEF GetRefused
<1>4. r \in Request /\ request \in Request /\ todo' \in Seq(Message)
  BY <1>1, <1>2, HeadTyped DEF QueryInv, QuerySorts
<1>5. request' \in Request
  <2>1. r.fields \in Seq(Int) /\ request.aggs \in Seq([aid : Int, fid : Int])
        /\ request.group \in Seq(Int)
    BY <1>4 DEF Request
  <2>2. PICK f : f = Until(r.fields, r.fields, IdsOrAll)
    OBVIOUS
  <2>3. f \in Seq(Int)
    BY <2>1, <2>2, UntilTyped
  <2>4. request' = [fields |-> f, keys |-> <<>>, where |-> <<>>, order |-> <<>>, offset |-> 0,
                    size |-> -1, aggs |-> request.aggs, group |-> request.group]
    BY <1>3, <2>2 DEF NoRequest
  <2>5. \A S : <<>> \in Seq(S)
    OBVIOUS
  <2> QED
    BY <2>1, <2>3, <2>4, <2>5, NoCondition DEF Request
<1>6. QuerySorts'
  <2>1. data \in Seq(Entry(data))
    BY DataTyped DEF QueryInv, QuerySorts, Entry
  <2> QED
    BY <1>1, <1>4, <1>5, <2>1 DEF QueryInv, QuerySorts, Phases
<1>7. Filtering' /\ Deleting' /\ Grouped'
  BY <1>1 DEF Filtering, Deleting, Grouped, PerAggregate
<1>8. LogicalInv'
  BY <1>1, LogicalKeeps DEF QueryInv
<1> QED
  BY <1>6, <1>7, <1>8 DEF QueryInv

\* A condition loaded for a request keeps what is said of conditions.
LEMMA BeginWhereKeeps ==
  ASSUME LogicalInv, NEW where \in Condition, NEW otherwise, BeginWhere(where, otherwise)
  PROVE  LogicalInv' /\ phase' \in {otherwise, "where"}
<1>1. CASE where = <<>>
  BY <1>1, LogicalKeeps DEF BeginWhere
<1>2. CASE where # <<>>
  BY <1>2, LoadKeeps DEF BeginWhere
<1> QED
  BY <1>1, <1>2

\* GET selects records of the table.
LEMMA GetParsedKeeps ==
  ASSUME QueryInv, GetParsed
  PROVE  QueryInv'
<1>1. /\ todo # <<>> /\ Op = "GET" /\ before' = data
      /\ UNCHANGED <<data, todo, p, size, groups, answer>>
  BY DEF GetParsed, Receive
<1>2. PICK r : r = Head(todo).req
  OBVIOUS
<1>3. request' = Parsed(r)
  BY <1>2 DEF GetParsed
<1>4. r \in Request /\ request \in Request
  BY <1>1, <1>2, HeadTyped DEF QueryInv, QuerySorts
<1>5. request' \in Request /\ request'.where = r.where /\ request'.keys = r.keys
  <2>1. PICK f : f = Requested(r.fields)
    OBVIOUS
  <2>2. EveryField \in Seq(Int)
    <3>1. NumFields \in Nat /\ \A i \in 1 .. NumFields : i - 1 \in Int
      BY ConditionAssumption
    <3> QED
      BY <3>1, IsASeq DEF EveryField
  <2>3. f \in Seq(Int)
    BY <1>4, <2>1, <2>2 DEF Requested, Request
  <2>4. request' = [fields |-> f, keys |-> r.keys, where |-> r.where, order |-> r.order,
                    offset |-> r.offset, size |-> r.size, aggs |-> request.aggs,
                    group |-> request.group]
    BY <1>3, <1>4, <2>1 DEF Parsed, Request
  <2> QED
    BY <1>4, <2>3, <2>4 DEF Request
<1>6. LogicalInv' /\ phase' \in {"sort", "where"}
  <2>1. BeginWhere(r.where, "sort")
    BY <1>5 DEF GetParsed, BeginWhere, LoadLogical
  <2>2. r.where \in Condition
    BY <1>4 DEF Request
  <2> QED
    BY <2>1, <2>2, BeginWhereKeeps DEF QueryInv
<1>7. data \in Seq(Entry(data)) /\ Records(data) \in Seq(Row)
  BY DataTyped DEF QueryInv, QuerySorts, Entry
<1>8. found' \in Seq(Row)
  <2>1. found' = IF r.keys = <<>> THEN Records(data) ELSE Selected(r.keys)
    BY <1>5 DEF GetParsed
  <2>2. r.keys \in Seq(STRING)
    BY <1>4 DEF Request
  <2>3. Selected(r.keys) \in Seq(Row)
    BY <1>7, <2>2, SelectedAll DEF Entry
  <2> QED
    BY <1>7, <2>1, <2>3
<1>9. QuerySorts'
  BY <1>1, <1>4, <1>5, <1>6, <1>7, <1>8 DEF QueryInv, QuerySorts, Phases
<1>10. Filtering' /\ Deleting'
  BY <1>6 DEF Filtering, Deleting
<1>11. Grouped'
  <2>1. phase' # "group" /\ phase' # "filter" /\ Op' # "AGG"
    BY <1>1, <1>6 DEF Op
  <2> QED
    BY <2>1 DEF Grouped, PerAggregate
<1> QED
  BY <1>6, <1>9, <1>10, <1>11 DEF QueryInv

\* A refused AGG leaves request_ well typed, groups being of no account then.
LEMMA AggRefusedKeeps ==
  ASSUME QueryInv, AggRefused
  PROVE  QueryInv'
<1>1. /\ todo # <<>> /\ before' = data /\ phase' = "idle" /\ todo' = Tail(todo)
      /\ UNCHANGED <<data, found, p, size, groups, logicalVars>>
  BY DEF AggRefused, Receive, Reply
<1>2. PICK r : r = Head(todo).req
  OBVIOUS
<1>3. PICK fit : fit = (r.aggs # <<>> /\ ToSet(Fids(r.aggs)) \subseteq Ids)
  OBVIOUS
<1>4. PICK a : a = Until(r.aggs, Fids(r.aggs), Ids)
  OBVIOUS
<1>5. PICK g : g = Until(r.group, r.group, Ids)
  OBVIOUS
<1>6. \E w \in {r.where, <<>>}, h \in {g, <<>>} :
        request' = [request EXCEPT !.aggs = a, !.where = w, !.group = h]
  BY <1>2, <1>4, <1>5 DEF AggRefused
<1>7. r \in Request /\ request \in Request /\ todo' \in Seq(Message)
  BY <1>1, <1>2, HeadTyped DEF QueryInv, QuerySorts
<1>8. request' \in Request
  <2>1. PICK w \in {r.where, <<>>}, h \in {g, <<>>} :
          request' = [request EXCEPT !.aggs = a, !.where = w, !.group = h]
    BY <1>6
  <2>2. r.aggs \in Seq([aid : Int, fid : Int]) /\ r.group \in Seq(Int) /\ r.where \in Condition
    BY <1>7 DEF Request
  <2>3. \A S : <<>> \in Seq(S)
    OBVIOUS
  <2>4. a \in Seq([aid : Int, fid : Int]) /\ h \in Seq(Int) /\ w \in Condition
    <3>1. a \in Seq([aid : Int, fid : Int])
      BY <1>4, <2>2, UntilTyped
    <3>2. g \in Seq(Int)
      BY <1>5, <2>2, UntilTyped
    <3> QED
      BY <2>1, <2>2, <2>3, <3>1, <3>2, NoCondition
  <2> QED
    BY <1>7, <2>1, <2>4 DEF Request
<1>9. QuerySorts'
  <2>1. data \in Seq(Entry(data))
    BY DataTyped DEF QueryInv, QuerySorts, Entry
  <2> QED
    BY <1>1, <1>7, <1>8, <2>1 DEF QueryInv, QuerySorts, Phases
<1>10. Filtering' /\ Deleting' /\ Grouped'
  BY <1>1 DEF Filtering, Deleting, Grouped, PerAggregate
<1>11. LogicalInv'
  BY <1>1, LogicalKeeps DEF QueryInv
<1> QED
  BY <1>9, <1>10, <1>11 DEF QueryInv

\* AGG begins with no groups.
LEMMA AggParsedKeeps ==
  ASSUME QueryInv, AggParsed
  PROVE  QueryInv'
<1>1. /\ todo # <<>> /\ Op = "AGG" /\ before' = data
      /\ found' = Records(data) /\ groups' = NoGroups
      /\ UNCHANGED <<data, todo, size, answer>>
  BY DEF AggParsed, Receive
<1>2. PICK r : r = Head(todo).req
  OBVIOUS
<1>3. request' = [request EXCEPT !.aggs = r.aggs, !.where = r.where, !.group = r.group]
  BY <1>2 DEF AggParsed
<1>4. r \in Request /\ request \in Request
  BY <1>1, <1>2, HeadTyped DEF QueryInv, QuerySorts
<1>5. request' \in Request /\ request'.where = r.where
  BY <1>3, <1>4 DEF Request
<1>6. LogicalInv' /\ phase' \in {"group", "where"}
  <2>1. BeginWhere(r.where, "group")
    BY <1>5 DEF AggParsed, BeginWhere, LoadLogical
  <2>2. r.where \in Condition
    BY <1>4 DEF Request
  <2> QED
    BY <2>1, <2>2, BeginWhereKeeps DEF QueryInv
<1>7. data \in Seq(Entry(data)) /\ Records(data) \in Seq(Row)
  BY DataTyped DEF QueryInv, QuerySorts, Entry
<1>8. QuerySorts'
  BY <1>1, <1>5, <1>6, <1>7 DEF QueryInv, QuerySorts, Phases
<1>9. Filtering' /\ Deleting'
  BY <1>6 DEF Filtering, Deleting
<1>10. Grouped'
  <2>1. DOMAIN groups' = {} /\ phase' # "filter"
    BY <1>1, <1>6 DEF NoGroups
  <2> QED
    BY <1>1, <2>1 DEF Grouped, PerAggregate
<1> QED
  BY <1>6, <1>8, <1>9, <1>10 DEF QueryInv

\* DEL by keys leaves records that were there before.
LEMMA DelKeysKeeps ==
  ASSUME QueryInv, DelKeys
  PROVE  QueryInv'
<1>1. /\ todo # <<>> /\ before' = data /\ phase' = "idle" /\ todo' = Tail(todo)
      /\ data' = AllErased(data, request'.keys)
      /\ UNCHANGED <<found, p, size, groups, logicalVars>>
  BY DEF DelKeys, Receive, Reply, AllErased
<1>2. PICK r : r = Head(todo).req
  OBVIOUS
<1>3. request' = [request EXCEPT !.keys = r.keys, !.where = r.where]
  BY <1>2 DEF DelKeys, ParsedDel
<1>4. r \in Request /\ request \in Request /\ todo' \in Seq(Message)
  BY <1>1, <1>2, HeadTyped DEF QueryInv, QuerySorts
<1>5. request' \in Request /\ request'.keys = r.keys /\ r.keys \in Seq(STRING)
  BY <1>3, <1>4 DEF Request
<1>6. data' \in Seq(Entry(data))
  <2>1. data \in Seq(Entry(data))
    BY DataTyped DEF QueryInv, QuerySorts, Entry
  <2> QED
    BY <1>1, <1>5, <2>1, ErasedAll
<1>7. QuerySorts'
  BY <1>1, <1>4, <1>5, <1>6 DEF QueryInv, QuerySorts, Phases
<1>8. Filtering' /\ Deleting' /\ Grouped'
  BY <1>1 DEF Filtering, Deleting, Grouped, PerAggregate
<1>9. LogicalInv'
  BY <1>1, LogicalKeeps DEF QueryInv
<1> QED
  BY <1>7, <1>8, <1>9 DEF QueryInv

\* DEL by a condition begins at the first record.
LEMMA DelWhereKeeps ==
  ASSUME QueryInv, DelWhere
  PROVE  QueryInv'
<1>1. /\ todo # <<>> /\ Op = "DEL" /\ before' = data
      /\ UNCHANGED <<data, todo, found, p, size, groups, answer>>
  BY DEF DelWhere, Receive
<1>2. PICK r : r = Head(todo).req
  OBVIOUS
<1>3. request' = [request EXCEPT !.keys = r.keys, !.where = r.where]
  BY <1>2 DEF DelWhere, ParsedDel
<1>4. r \in Request /\ request \in Request
  BY <1>1, <1>2, HeadTyped DEF QueryInv, QuerySorts
<1>5. request' \in Request /\ request'.where = r.where
  BY <1>3, <1>4 DEF Request
<1>6. r.where # <<>>
  BY <1>5 DEF DelWhere
<1>7. LogicalInv' /\ phase' = "where"
  <2>1. LoadLogical(r.where) /\ phase' = "where"
    BY <1>5, <1>6 DEF DelWhere, BeginWhere, LoadLogical
  <2>2. r.where \in Condition
    BY <1>4 DEF Request
  <2> QED
    BY <2>1, <2>2, LoadKeeps DEF QueryInv
<1>8. data \in Seq(Entry(data))
  BY DataTyped DEF QueryInv, QuerySorts, Entry
<1>9. QuerySorts'
  BY <1>1, <1>5, <1>7, <1>8 DEF QueryInv, QuerySorts, Phases
<1>10. Filtering' /\ Deleting'
  BY <1>7 DEF Filtering, Deleting
<1>11. Grouped'
  BY <1>1, <1>7 DEF Grouped, PerAggregate, Op
<1> QED
  BY <1>7, <1>9, <1>10, <1>11 DEF QueryInv

\* Each step of loading and checking preserves what is said of conditions.
LEMMA LoadStepKeeps ==
  ASSUME LogicalInv, LoadStep
  PROVE  LogicalInv'
BY SplitKeeps, KeepKeeps, EndSplitKeeps, CheckKeeps, CheckRefusesKeeps, EndCheckKeeps DEF LoadStep

\* So does each step of an evaluation.
LEMMA EvaluateStepKeeps ==
  ASSUME LogicalInv, EvaluateStep
  PROVE  LogicalInv' /\ pc = "evaluate" /\ UNCHANGED value
BY EvaluateKeeps, EvaluateOverrunsKeeps, EvaluateTrapsKeeps
DEF EvaluateStep, Evaluate, EvaluateOverruns, EvaluateTraps

\* While a condition is loaded nothing else changes.
LEMMA LoadWhereKeeps ==
  ASSUME QueryInv, LoadWhere
  PROVE  QueryInv'
<1>1. phase = "where" /\ LoadStep /\ UNCHANGED queryVars
  BY DEF LoadWhere
<1>2. LogicalInv'
  BY <1>1, LoadStepKeeps DEF QueryInv
<1>3. QuerySorts' /\ Filtering' /\ Deleting' /\ Grouped'
  BY <1>1 DEF queryVars, QueryInv, QuerySorts, Filtering, Deleting, Grouped, PerAggregate, Op
<1> QED
  BY <1>2, <1>3 DEF QueryInv

\* An answer that changes no more than the phase and the requests to come.
LEMMA ReplyKeeps ==
  ASSUME QueryInv, phase # "idle", NEW a, Reply(a),
         UNCHANGED <<data, request, found, before, logicalVars>>
  PROVE  QueryInv'
<1>1. phase' = "idle" /\ todo' = Tail(todo) /\ UNCHANGED <<data, request, found, before, logicalVars>>
  BY DEF Reply
<1>2. todo' \in Seq(Message)
  BY <1>1, HeadTyped DEF QueryInv, QuerySorts
<1>3. QuerySorts'
  BY <1>1, <1>2 DEF QueryInv, QuerySorts, Phases
<1>4. Filtering' /\ Deleting' /\ Grouped'
  BY <1>1 DEF Filtering, Deleting, Grouped, PerAggregate
<1>5. LogicalInv'
  BY <1>1, LogicalKeeps DEF QueryInv
<1> QED
  BY <1>3, <1>4, <1>5 DEF QueryInv

\* All answers are of that kind.
LEMMA AnswersKeep ==
  ASSUME QueryInv, WhereRefused \/ Deleted \/ Emit \/ PutGroups
  PROVE  QueryInv'
<1>1. CASE WhereRefused
  BY <1>1, ReplyKeeps DEF WhereRefused
<1>2. CASE Deleted
  BY <1>2, ReplyKeeps DEF Deleted
<1>3. CASE Emit
  BY <1>3, ReplyKeeps DEF Emit
<1>4. CASE PutGroups
  BY <1>4, ReplyKeeps DEF PutGroups
<1> QED
  BY <1>1, <1>2, <1>3, <1>4

\* The loop over the records begins at the first, with none kept.
LEMMA WhereAcceptedKeeps ==
  ASSUME QueryInv, WhereAccepted
  PROVE  QueryInv'
<1>1. /\ phase = "where" /\ pc = "ready"
      /\ phase' = (IF Op = "DEL" THEN "delete" ELSE "filter") /\ p' = 1 /\ size' = 0
      /\ UNCHANGED <<data, todo, request, found, groups, before, logicalVars>>
  BY DEF WhereAccepted
<1>2. pc' = "ready"
  BY <1>1 DEF logicalVars
<1>3. LogicalInv'
  BY <1>1, LogicalKeeps DEF QueryInv
<1>4. Len(found) \in Nat /\ Len(data) \in Nat
  BY DEF QueryInv, QuerySorts
<1>5. QuerySorts'
  BY <1>1 DEF QueryInv, QuerySorts, Phases
<1>6. Filtering' /\ Deleting'
  BY <1>1, <1>2, <1>4 DEF Filtering, Deleting
<1>7. Grouped'
  BY <1>1 DEF QueryInv, Grouped, PerAggregate, Op
<1> QED
  BY <1>3, <1>5, <1>6, <1>7 DEF QueryInv

\* While a condition is evaluated the cursor stays.
LEMMA EvaluateWhereKeeps ==
  ASSUME QueryInv, EvaluateWhere
  PROVE  QueryInv'
<1>1. phase \in {"filter", "delete"} /\ EvaluateStep /\ UNCHANGED queryVars
  BY DEF EvaluateWhere
<1>2. LogicalInv' /\ pc = "evaluate" /\ value' = value
  BY <1>1, EvaluateStepKeeps DEF QueryInv
<1>3. QuerySorts' /\ Grouped'
  BY <1>1 DEF queryVars, QueryInv, QuerySorts, Grouped, PerAggregate, Op
<1>4. Filtering' /\ Deleting'
  BY <1>1, <1>2 DEF queryVars, QueryInv, Filtering, Deleting
<1> QED
  BY <1>2, <1>3, <1>4 DEF QueryInv

\* The record evaluated is the one at the cursor.
LEMMA FilterBeginKeeps ==
  ASSUME QueryInv, FilterBegin
  PROVE  QueryInv'
<1>1. /\ phase = "filter" /\ p <= Len(found) /\ BeginEvaluate(found[p]) /\ value' = found[p]
      /\ UNCHANGED queryVars
  BY DEF FilterBegin, BeginEvaluate
<1>2. LogicalInv'
  BY <1>1, BeginEvaluateKeeps DEF QueryInv
<1>3. size \in Nat /\ p \in Nat /\ size < p /\ found \in Seq(Row)
  BY <1>1 DEF QueryInv, QuerySorts, Filtering
<1>4. found[p] \in Row
  <2>1. p \in 1 .. Len(found)
    BY <1>1, <1>3
  <2> QED
    BY <1>3, <2>1, ElementOfSeq
<1>5. QuerySorts' /\ Grouped'
  BY <1>1 DEF queryVars, QueryInv, QuerySorts, Grouped, PerAggregate, Op
<1>6. Filtering'
  <2>1. UNCHANGED <<phase, size, p, found>> /\ p <= Len(found) + 1
    BY <1>1, <1>3 DEF queryVars
  <2> QED
    BY <1>1, <1>3, <1>4, <2>1 DEF Filtering
<1>7. Deleting'
  BY <1>1 DEF queryVars, Deleting
<1> QED
  BY <1>2, <1>5, <1>6, <1>7 DEF QueryInv

\* A record is written where one was read already, and no further.
LEMMA FilterEndKeeps ==
  ASSUME QueryInv, FilterEnd
  PROVE  QueryInv'
<1>1. /\ phase = "filter" /\ EndEvaluate /\ pc = "evaluate" /\ pc' = "ready"
      /\ found' = (IF Result = "T" THEN [found EXCEPT ![size + 1] = value] ELSE found)
      /\ size' = (IF Result = "T" THEN size + 1 ELSE size)
      /\ p' = p + 1
      /\ UNCHANGED <<data, todo, phase, request, groups, before>>
  BY DEF FilterEnd, EndEvaluate
<1>2. /\ size \in Nat /\ p \in Nat /\ size < p /\ p <= Len(found) /\ value \in Row
      /\ found \in Seq(Row) /\ Len(found) \in Nat
  BY <1>1 DEF QueryInv, QuerySorts, Filtering
<1>3. LogicalInv'
  BY <1>1, EndEvaluateKeeps DEF QueryInv
<1>4. found' \in Seq(Row) /\ Len(found') = Len(found)
  <2>1. size + 1 \in 1 .. Len(found)
    BY <1>2
  <2>2. [found EXCEPT ![size + 1] = value] \in Seq(Row)
        /\ Len([found EXCEPT ![size + 1] = value]) = Len(found)
    BY <1>2, <2>1, ExceptSeq
  <2> QED
    BY <1>1, <1>2, <2>2
<1>5. QuerySorts'
  BY <1>1, <1>4 DEF QueryInv, QuerySorts
<1>6. Filtering'
  BY <1>1, <1>2, <1>4 DEF Filtering
<1>7. Deleting' /\ Grouped'
  BY <1>1 DEF QueryInv, Deleting, Grouped, PerAggregate, Op
<1> QED
  BY <1>3, <1>5, <1>6, <1>7 DEF QueryInv

\* The records kept are records.
LEMMA FilteredKeeps ==
  ASSUME QueryInv, Filtered
  PROVE  QueryInv'
<1>1. /\ phase = "filter" /\ found' = SubSeq(found, 1, size)
      /\ phase' = (IF Op = "GET" THEN "sort" ELSE "group") /\ p' = 1
      /\ UNCHANGED <<data, todo, request, size, groups, before, logicalVars>>
  BY DEF Filtered
<1>2. found' \in Seq(Row)
  BY <1>1 DEF QueryInv, QuerySorts, Filtering
<1>3. LogicalInv'
  BY <1>1, LogicalKeeps DEF QueryInv
<1>4. QuerySorts'
  BY <1>1, <1>2 DEF QueryInv, QuerySorts, Phases
<1>5. Filtering' /\ Deleting'
  BY <1>1 DEF Filtering, Deleting
<1>6. Grouped'
  <2>1. phase' # "where" /\ phase' # "filter"
    BY <1>1
  <2>2. Op \in {"GET", "AGG", "DEL"} /\ Op # "DEL"
    BY <1>1, HeadTyped DEF QueryInv, QuerySorts, Grouped, PerAggregate
  <2>3. phase' = "group" => Op = "AGG"
    BY <1>1, <2>2
  <2>4. phase' = "group" => DOMAIN groups' = {}
    BY <1>1, <2>3 DEF QueryInv, Grouped, PerAggregate, NoGroups
  <2> QED
    BY <2>1, <2>4 DEF Grouped, PerAggregate
<1> QED
  BY <1>3, <1>4, <1>5, <1>6 DEF QueryInv

\* The record evaluated is the one at the iterator.
LEMMA DeleteBeginKeeps ==
  ASSUME QueryInv, DeleteBegin
  PROVE  QueryInv'
<1>1. /\ phase = "delete" /\ p <= Len(data) /\ BeginEvaluate(data[p].row)
      /\ UNCHANGED queryVars
  BY DEF DeleteBegin
<1>2. LogicalInv'
  BY <1>1, BeginEvaluateKeeps DEF QueryInv
<1>3. QuerySorts' /\ Grouped' /\ Filtering'
  BY <1>1 DEF queryVars, QueryInv, QuerySorts, Grouped, PerAggregate, Op, Filtering
<1>4. Deleting'
  BY <1>1 DEF queryVars, QueryInv, Deleting
<1> QED
  BY <1>2, <1>3, <1>4 DEF QueryInv

\* Erasing brings the next record, or the end, to the iterator.
LEMMA DeleteEndKeeps ==
  ASSUME QueryInv, DeleteEnd
  PROVE  QueryInv'
<1>1. /\ phase = "delete" /\ EndEvaluate /\ pc = "evaluate" /\ pc' = "ready"
      /\ data' = (IF Result = "T" THEN RemoveAt(data, p) ELSE data)
      /\ p' = (IF Result = "T" THEN p ELSE p + 1)
      /\ UNCHANGED <<todo, phase, request, found, size, groups, before>>
  BY DEF DeleteEnd, EndEvaluate, Advanced
<1>2. p \in 1 .. Len(data) /\ data \in Seq(Entry(before)) /\ Len(data) \in Nat
  BY <1>1 DEF QueryInv, QuerySorts, Deleting
<1>3. LogicalInv'
  BY <1>1, EndEvaluateKeeps DEF QueryInv
<1>4. data' \in Seq(Entry(before)) /\ Len(data') = (IF Result = "T" THEN Len(data) - 1 ELSE Len(data))
  <2>1. RemoveAt(data, p) \in Seq(Entry(before)) /\ Len(RemoveAt(data, p)) = Len(data) - 1
    BY <1>2, Removed
  <2> QED
    BY <1>1, <1>2, <2>1
<1>5. QuerySorts'
  BY <1>1, <1>4 DEF QueryInv, QuerySorts
<1>6. Deleting'
  BY <1>1, <1>2, <1>4 DEF Deleting
<1>7. Filtering' /\ Grouped'
  BY <1>1 DEF QueryInv, Filtering, Grouped, PerAggregate, Op
<1> QED
  BY <1>3, <1>5, <1>6, <1>7 DEF QueryInv

\* Sorting makes no records.
LEMMA SortKeeps ==
  ASSUME QueryInv, Sort
  PROVE  QueryInv'
<1>1. /\ phase = "sort" /\ phase' = "emit"
      /\ UNCHANGED <<data, todo, request, p, size, groups, before, logicalVars>>
  BY DEF Sort
<1>2. found \in Seq(Row) /\ Len(found) \in Nat /\ DOMAIN found = 1 .. Len(found)
  BY DEF QueryInv, QuerySorts
<1>3. found' \in Seq(Row)
  <2>1. CASE found' = found
    BY <1>2, <2>1
  <2>2. CASE \E f \in Bijection(DOMAIN found, DOMAIN found) :
               found' = [i \in DOMAIN found |-> found[f[i]]]
    <3>1. PICK f \in Bijection(DOMAIN found, DOMAIN found) :
            found' = [i \in DOMAIN found |-> found[f[i]]]
      BY <2>2
    <3>2. f \in [DOMAIN found -> DOMAIN found]
      BY DEF Bijection, Injection
    <3>3. \A i \in 1 .. Len(found) : found[f[i]] \in Row
      BY <1>2, <3>2, ElementOfSeq
    <3> QED
      BY <1>2, <3>1, <3>3, IsASeq
  <2> QED
    BY <2>1, <2>2 DEF Sort
<1>4. LogicalInv'
  BY <1>1, LogicalKeeps DEF QueryInv
<1>5. QuerySorts'
  BY <1>1, <1>3 DEF QueryInv, QuerySorts, Phases
<1>6. Filtering' /\ Deleting' /\ Grouped'
  BY <1>1 DEF Filtering, Deleting, Grouped, PerAggregate
<1> QED
  BY <1>4, <1>5, <1>6 DEF QueryInv

\* A group that is made or added to has an accumulator for each aggregate.
LEMMA AccumulateKeeps ==
  ASSUME QueryInv, Accumulate
  PROVE  QueryInv'
<1>1. /\ phase = "group"
      /\ UNCHANGED <<data, todo, phase, request, found, size, before, logicalVars>>
  BY DEF Accumulate
<1>2. LogicalInv'
  BY <1>1, LogicalKeeps DEF QueryInv
<1>3. QuerySorts' /\ Filtering' /\ Deleting'
  BY <1>1 DEF QueryInv, QuerySorts, Filtering, Deleting
<1>4. \A k \in DOMAIN groups' : PerAggregate(groups'[k])
  <2>1. PICK key : key = GroupKey(request.group, found[p])
    OBVIOUS
  <2>2. PICK items : items = IF key \in DOMAIN groups THEN groups[key] ELSE Items
    OBVIOUS
  <2>3. DOMAIN items = DOMAIN request.aggs
    BY <1>1, <2>2 DEF QueryInv, Grouped, Items, PerAggregate
  <2>4. PICK added : added = [i \in DOMAIN items |->
                     Added(items[i], request.aggs[i], found[p][request.aggs[i].fid])]
    OBVIOUS
  <2>5. groups' = [k \in DOMAIN groups \cup {key} |-> IF k = key THEN added ELSE groups[k]]
    BY <2>1, <2>2, <2>4 DEF Accumulate
  <2>6. \A k \in DOMAIN groups : PerAggregate(groups[k])
    BY <1>1 DEF QueryInv, Grouped, PerAggregate
  <2>7. PerAggregate(added)
    <3>1. added = [i \in DOMAIN added |-> added[i]] /\ DOMAIN added = DOMAIN request.aggs
      BY <2>3, <2>4
    <3> QED
      BY <3>1 DEF PerAggregate
  <2> QED
    BY <2>5, <2>6, <2>7
<1>5. Grouped'
  BY <1>1, <1>4 DEF Grouped, PerAggregate
<1> QED
  BY <1>2, <1>3, <1>5 DEF QueryInv

\* A field past the last is the end of the model.
LEMMA ReadsBeyondKeeps ==
  ASSUME QueryInv, ReadsBeyond
  PROVE  QueryInv'
<1>1. /\ phase' = "undefined" /\ phase # "idle"
      /\ UNCHANGED <<data, todo, request, found, p, size, groups, before, logicalVars>>
  BY DEF ReadsBeyond
<1>2. LogicalInv'
  BY <1>1, LogicalKeeps DEF QueryInv
<1>3. QuerySorts'
  BY <1>1 DEF QueryInv, QuerySorts, Phases
<1>4. Filtering' /\ Deleting' /\ Grouped'
  BY <1>1 DEF Filtering, Deleting, Grouped, PerAggregate
<1> QED
  BY <1>2, <1>3, <1>4 DEF QueryInv

\* The server starts with empty members.
LEMMA InitHolds ==
  ASSUME Init
  PROVE  QueryInv
<1>1. \A S : <<>> \in Seq(S)
  OBVIOUS
<1>2. LogicalInv
  <2>1. 0 <= LgSize /\ Len(<<>>) = 0
    BY LogicalAssumption
  <2>2. LogicalInit
    BY DEF Init
  <2>3. LogicalSorts
    BY <1>1, <2>1, <2>2, NoCondition DEF LogicalInit, LogicalSorts
  <2>4. Bounds /\ Checking /\ Accepted /\ Evaluating
    BY <2>1, <2>2 DEF LogicalInit, Bounds, Checking, Accepted, Evaluating
  <2> QED
    BY <2>3, <2>4 DEF LogicalInv
<1>3. QuerySorts
  <2>1. PICK s \in Sessions : data = s.data /\ todo = s.requests
    BY DEF Init
  <2>2. s.data \in Seq([key : STRING, row : Row]) /\ s.requests \in Seq(Message)
    BY QueryAssumption
  <2>3. data \in Seq(Entry(before))
    BY <2>1, <2>2, DataTyped DEF Init
  <2>4. NoRequest \in Request
    BY <1>1, NoCondition DEF NoRequest, Request
  <2> QED
    BY <1>1, <2>1, <2>2, <2>3, <2>4 DEF Init, QuerySorts, Phases
<1>4. Filtering /\ Deleting /\ Grouped
  BY DEF Init, Filtering, Deleting, Grouped, PerAggregate
<1> QED
  BY <1>2, <1>3, <1>4 DEF QueryInv

\* Stuttering changes nothing.
LEMMA StutterKeeps ==
  ASSUME QueryInv, UNCHANGED vars
  PROVE  QueryInv'
<1>1. LogicalInv'
  BY LogicalKeeps DEF QueryInv, vars
<1>2. QuerySorts' /\ Filtering' /\ Deleting' /\ Grouped'
  BY DEF vars, queryVars, logicalVars, QueryInv, QuerySorts, Filtering, Deleting, Grouped,
         PerAggregate, Op
<1> QED
  BY <1>1, <1>2 DEF QueryInv

\* For any table, any requests one after another and conditions of any length: in
\* every state the members are as QueryInv says.
THEOREM QueryInductive == Spec => []QueryInv
<1>1. Init => QueryInv
  BY InitHolds
<1>2. QueryInv /\ [Next]_vars => QueryInv'
  <2> SUFFICES ASSUME QueryInv, [Next]_vars
               PROVE  QueryInv'
    OBVIOUS
  <2>1. CASE Next
    BY <2>1, GetRefusedKeeps, GetParsedKeeps, AggRefusedKeeps, AggParsedKeeps, DelKeysKeeps,
       DelWhereKeeps, LoadWhereKeeps, WhereAcceptedKeeps, EvaluateWhereKeeps, FilterBeginKeeps,
       FilterEndKeeps, FilteredKeeps, DeleteBeginKeeps, DeleteEndKeeps, SortKeeps,
       AccumulateKeeps, ReadsBeyondKeeps, AnswersKeep DEF Next
  <2>2. CASE UNCHANGED vars
    BY <2>2, StutterKeeps
  <2> QED
    BY <2>1, <2>2
<1> QED
  BY <1>1, <1>2, PTL DEF Spec

-----------------------------------------------------------------------------
(* What follows. *)

\* What the invariant says of an evaluation: its marks are those of the check, and
\* the stack is tight, hence as shallow as its brackets are few.
LEMMA FollowsIfInductive ==
  ASSUME LogicalInv
  PROVE  EvaluationFollowsCheck
<1> SUFFICES ASSUME pc = "evaluate"
             PROVE  /\ [i \in DOMAIN lgStack |-> Kind(lgStack[i])]
                         = FoldLeft(NodeChecked, <<>>, Before)
                    /\ Len(lgStack) <= 3 * Open(Before) + 2
  BY DEF EvaluationFollowsCheck
<1>1. /\ lg \in Seq(Part) /\ Len(lg) \in Nat /\ pos \in 1 .. Len(lg) + 1
      /\ lgStack \in Seq(Code) /\ Formed(Kinds(lgStack))
      /\ Kinds(lgStack) = Walk(SubSeq(lg, 1, pos - 1))
      /\ Lefts(Kinds(lgStack)) = Open(Before)
  BY EvaluationShape DEF Before
<1>2. Kinds(lgStack) \in Seq(Mark) /\ Len(Kinds(lgStack)) = Len(lgStack)
  BY <1>1, KindsShape
<1>3. Tight(Kinds(lgStack))
  <2>1. pos - 1 \in 0 .. Len(lg)
    BY <1>1
  <2>2. Passes(lg, Len(lg)) /\ Walk(lg) = <<"expr">>
    BY DEF LogicalInv, Accepted
  <2> QED
    BY <1>1, <2>1, <2>2, WalkTight
<1>4. Len(Kinds(lgStack)) <= 3 * Lefts(Kinds(lgStack)) + 2
  BY <1>1, <1>2, <1>3, TightIsShallow
<1>5. [i \in DOMAIN lgStack |-> Kind(lgStack[i])] = FoldLeft(NodeChecked, <<>>, Before)
  BY <1>1 DEF Kinds, Walk, Before
<1> QED
  BY <1>1, <1>2, <1>4, <1>5

\* In every state of an evaluation lg_stack_ has the shape that the stack of
\* check_logical had at the same node, and at most three characters for each bracket
\* that is open and two more; so 128 characters are enough for 42 levels.
THEOREM FollowsCheck == Spec => []EvaluationFollowsCheck
<1>1. QueryInv => EvaluationFollowsCheck
  BY FollowsIfInductive DEF QueryInv
<1> QED
  BY <1>1, QueryInductive, PTL

\* What the invariant says of types.
LEMMA TypesIfInductive ==
  ASSUME QueryInv
  PROVE  QueryTypeOK
<1>1. LogicalTypeOK
  BY DEF QueryInv, LogicalInv, LogicalSorts, Bounds, LogicalTypeOK, Mark, Code
<1>2. data \in Seq([key : {e.key : e \in ToSet(before)}, row : Row])
  BY DEF QueryInv, QuerySorts, Entry
<1>3. ASSUME NEW k \in DOMAIN groups, phase = "group"
      PROVE  Len(groups[k]) = Len(request.aggs)
  <2>1. groups[k] = [i \in DOMAIN request.aggs |-> groups[k][i]]
    BY <1>3 DEF QueryInv, Grouped, PerAggregate
  <2>2. Len(request.aggs) \in Nat /\ DOMAIN request.aggs = 1 .. Len(request.aggs)
    <3>1. request.aggs \in Seq([aid : Int, fid : Int])
      BY DEF QueryInv, QuerySorts, Request
    <3> QED
      BY <3>1
  <2>3. PICK n \in Nat : n = Len(request.aggs)
    BY <2>2
  <2>4. groups[k] = [i \in 1 .. n |-> groups[k][i]]
    BY <2>1, <2>2, <2>3
  <2>5. groups[k] \in Seq({groups[k][i] : i \in 1 .. n}) /\ Len(groups[k]) = n
    BY <2>4, IsASeq
  <2> QED
    BY <2>3, <2>5
<1> QED
  BY <1>1, <1>2, <1>3 DEF QueryInv, QuerySorts, Filtering, Deleting, Phases, QueryTypeOK

\* request_, read_data_, lg_ and lg_stack_ keep their types from one request to the
\* next and in each, refused ones included, and a filter never writes past what it
\* has read.
THEOREM QueryTypes == Spec => []QueryTypeOK
<1>1. QueryInv => QueryTypeOK
  BY TypesIfInductive
<1> QED
  BY <1>1, QueryInductive, PTL

-----------------------------------------------------------------------------
(* What a condition means, request after request. *)

\* The server starts without a condition.
LEMMA InitMeans ==
  ASSUME Init
  PROVE  MeaningInv
<1>1. LogicalInit
  BY DEF Init
<1> QED
  BY <1>1 DEF LogicalInit, MeaningInv, SplitSoFar, TypesFit, Telling, Judged, Untold, EvaluatesMeaning

\* A request begins with its condition, or with none.
LEMMA BeginWhereMeans ==
  ASSUME MeaningInv, NEW where \in Condition, NEW otherwise, BeginWhere(where, otherwise)
  PROVE  MeaningInv'
<1>1. CASE where = <<>>
  BY <1>1, MeaningKeeps DEF BeginWhere
<1>2. CASE where # <<>>
  BY <1>2, LoadMeans DEF BeginWhere
<1> QED
  BY <1>1, <1>2

\* The condition of a request that is parsed.
LEMMA ParsedMeans ==
  ASSUME QueryInv, MeaningInv, GetParsed \/ AggParsed \/ DelWhere
  PROVE  MeaningInv'
<1>1. todo # <<>>
  BY DEF GetParsed, AggParsed, DelWhere, Receive
<1>2. PICK r : r = Head(todo).req
  OBVIOUS
<1>3. r \in Request /\ request \in Request /\ r.where \in Condition
  BY <1>1, <1>2, HeadTyped DEF QueryInv, QuerySorts, Request
<1>4. request'.where = r.where /\ \E otherwise : BeginWhere(request'.where, otherwise)
  <2>1. CASE GetParsed
    BY <1>2, <1>3, <2>1 DEF GetParsed, Parsed, Request
  <2>2. CASE AggParsed
    BY <1>2, <1>3, <2>2 DEF AggParsed, Request
  <2>3. CASE DelWhere
    BY <1>2, <1>3, <2>3 DEF DelWhere, ParsedDel, Request
  <2> QED
    BY <2>1, <2>2, <2>3
<1>5. PICK otherwise : BeginWhere(request'.where, otherwise)
  BY <1>4
<1>6. BeginWhere(r.where, otherwise)
  BY <1>4, <1>5 DEF BeginWhere, LoadLogical
<1> QED
  BY <1>3, <1>6, BeginWhereMeans

\* Each step of loading and checking preserves what is said of the meaning.
LEMMA LoadStepMeans ==
  ASSUME LogicalInv, MeaningInv, LoadStep
  PROVE  MeaningInv'
BY SplitMeans, KeepMeans, EndSplitMeans, CheckMeans, CheckRefusesMeans, EndCheckMeans DEF LoadStep

\* So does each step of an evaluation.
LEMMA EvaluateStepMeans ==
  ASSUME LogicalInv, MeaningInv, EvaluateStep
  PROVE  MeaningInv'
BY EvaluateMeans, EvaluateOverrunsMeans, EvaluateTrapsMeans DEF EvaluateStep

\* Records are evaluated.
LEMMA BeginsMean ==
  ASSUME QueryInv, MeaningInv, FilterBegin \/ DeleteBegin
  PROVE  MeaningInv'
<1>1. CASE FilterBegin
  <2>1. phase = "filter" /\ p <= Len(found) /\ BeginEvaluate(found[p])
    BY <1>1 DEF FilterBegin
  <2>2. p \in 1 .. Len(found) /\ found \in Seq(Row)
    BY <2>1 DEF QueryInv, QuerySorts, Filtering
  <2>3. found[p] \in Row
    BY <2>2, ElementOfSeq
  <2> QED
    BY <2>1, <2>3, BeginEvaluateMeans DEF QueryInv
<1>2. CASE DeleteBegin
  <2>1. phase = "delete" /\ p <= Len(data) /\ BeginEvaluate(data[p].row)
    BY <1>2 DEF DeleteBegin
  <2>2. p \in 1 .. Len(data) /\ data \in Seq(Entry(before))
    BY <2>1 DEF QueryInv, QuerySorts, Deleting
  <2>3. data[p] \in Entry(before)
    BY <2>2, ElementOfSeq
  <2>4. data[p].row \in Row
    BY <2>3 DEF Entry
  <2> QED
    BY <2>1, <2>4, BeginEvaluateMeans DEF QueryInv
<1> QED
  BY <1>1, <1>2

\* Every step of the server preserves what is said of the meaning.
LEMMA NextMeans ==
  ASSUME QueryInv, MeaningInv, [Next]_vars
  PROVE  MeaningInv'
<1>1. CASE UNCHANGED vars
  BY <1>1, MeaningKeeps DEF vars
<1>2. CASE GetRefused \/ AggRefused \/ DelKeys \/ WhereRefused \/ WhereAccepted
  BY <1>2, MeaningKeeps DEF GetRefused, AggRefused, DelKeys, WhereRefused, WhereAccepted
<1>3. CASE Filtered \/ Deleted \/ Sort \/ Emit \/ Accumulate \/ PutGroups \/ ReadsBeyond
  BY <1>3, MeaningKeeps DEF Filtered, Deleted, Sort, Emit, Accumulate, PutGroups, ReadsBeyond
<1>4. CASE GetParsed \/ AggParsed \/ DelWhere
  BY <1>4, ParsedMeans
<1>5. CASE LoadWhere
  BY <1>5, LoadStepMeans DEF LoadWhere, QueryInv
<1>6. CASE EvaluateWhere
  BY <1>6, EvaluateStepMeans DEF EvaluateWhere, QueryInv
<1>7. CASE FilterBegin \/ DeleteBegin
  BY <1>7, BeginsMean
<1>8. CASE FilterEnd \/ DeleteEnd
  BY <1>8, EndEvaluateMeans DEF FilterEnd, DeleteEnd, QueryInv
<1> QED
  BY <1>1, <1>2, <1>3, <1>4, <1>5, <1>6, <1>7, <1>8 DEF Next

\* In every state the condition has been split, checked and evaluated as MeaningInv
\* says.
THEOREM MeaningInductive == Spec => [](QueryInv /\ MeaningInv)
<1>1. Init => MeaningInv
  BY InitMeans
<1>2. QueryInv /\ MeaningInv /\ [Next]_vars => MeaningInv'
  BY NextMeans
<1> QED
  BY <1>1, <1>2, QueryInductive, PTL DEF Spec

\* For any condition that load_expression can make of a text, of any length:
\* load_and_check_logical accepts it exactly if it is one of the grammar of logical.h,
\* comparisons, brackets, AND and OR, with formulas or strings that have types; and
\* one that is in the grammar comes to harm only where lg_stack_ is too short for it
\* or C++ leaves undefined what a comparison computes.
THEOREM ConditionIsExact == Spec => []ConditionExact
<1>1. QueryInv /\ MeaningInv => ConditionExact
  BY MeaningExact DEF QueryInv
<1> QED
  BY <1>1, MeaningInductive, PTL

\* For any condition accepted and any record: what put_stack leaves on lg_stack_ is
\* one truth, and it is the only thing that the grammar lets the condition mean for
\* that record, LIKE, strings, integers and doubles compared as their readings say.
THEOREM EvaluationMeans == Spec => []EvaluatesMeaning
<1>1. MeaningInv => EvaluatesMeaning
  BY DEF MeaningInv
<1> QED
  BY <1>1, MeaningInductive, PTL

-----------------------------------------------------------------------------
(* The elements of a sequence at some of its places. *)

\* r has the elements of s at the places I, in their order: its j-th is the one at
\* place h[j].
Picking(s, I, r, h) ==
  /\ \A j \in 1 .. Len(r) : h[j] \in I /\ r[j] = s[h[j]]
  /\ \A j \in 1 .. Len(r) : \A k \in 1 .. Len(r) : k < j => h[k] < h[j]
  /\ \A i \in I : \E j \in 1 .. Len(r) : h[j] = i

\* Places are numbers.
LEMMA SomePlace ==
  ASSUME NEW n, NEW I \in SUBSET (1 .. n), NEW x \in I
  PROVE  x \in Int
OBVIOUS

\* Two that pick the same places pick them at the same time.
LEMMA PicksAgree ==
  ASSUME NEW S, NEW s \in Seq(S), NEW I \in SUBSET (1 .. Len(s)), NEW r \in Seq(S), NEW t \in Seq(S),
         NEW h, NEW g, Picking(s, I, r, h), Picking(s, I, t, g)
  PROVE  \A j \in 1 .. Len(r) : j <= Len(t) => h[j] = g[j]
<1> DEFINE Odd == {j \in Nat : j \in 1 .. Len(r) /\ j <= Len(t) /\ h[j] # g[j]}
<1>1. SUFFICES ASSUME Odd # {}
               PROVE  FALSE
  OBVIOUS
<1>2. PICK j \in Odd : \A m \in Odd : j <= m
  BY <1>1, LeastNumber
<1>3. /\ j \in 1 .. Len(r) /\ j \in 1 .. Len(t) /\ h[j] # g[j]
      /\ \A m \in 1 .. Len(r) : m < j => h[m] = g[m]
  BY <1>2
<1>0. \A x \in I : x \in Int
  BY SomePlace
<1>4. \A m \in 1 .. Len(r) : h[m] \in I /\ h[m] \in Int
  BY <1>0 DEF Picking
<1>5. \A m \in 1 .. Len(t) : g[m] \in I /\ g[m] \in Int
  BY <1>0 DEF Picking
<1>6. CASE h[j] < g[j]
  <2>1. PICK m \in 1 .. Len(t) : g[m] = h[j]
    BY <1>3, <1>4 DEF Picking
  <2>2. ~(j < m) /\ m # j
    BY <1>3, <1>4, <1>5, <1>6, <2>1 DEF Picking
  <2>3. m < j /\ m \in 1 .. Len(r)
    BY <1>3, <2>2
  <2>4. h[m] = h[j] /\ h[m] < h[j]
    BY <1>3, <2>1, <2>3 DEF Picking
  <2> QED
    BY <1>3, <1>4, <2>4
<1>7. CASE g[j] < h[j]
  <2>1. PICK m \in 1 .. Len(r) : h[m] = g[j]
    BY <1>3, <1>5 DEF Picking
  <2>2. ~(j < m) /\ m # j
    BY <1>3, <1>4, <1>5, <1>7, <2>1 DEF Picking
  <2>3. m < j /\ m \in 1 .. Len(t)
    BY <1>3, <2>2
  <2>4. g[m] = g[j] /\ g[m] < g[j]
    BY <1>3, <2>1, <2>3 DEF Picking
  <2> QED
    BY <1>3, <1>5, <2>4
<1>8. h[j] \in Int /\ g[j] \in Int
  BY <1>3, <1>4, <1>5
<1> QED
  BY <1>3, <1>6, <1>7, <1>8

\* Neither is longer.
LEMMA PicksNoLonger ==
  ASSUME NEW S, NEW s \in Seq(S), NEW I \in SUBSET (1 .. Len(s)), NEW r \in Seq(S), NEW t \in Seq(S),
         NEW h, NEW g, Picking(s, I, r, h), Picking(s, I, t, g)
  PROVE  Len(r) <= Len(t)
<1>1. SUFFICES ASSUME Len(t) < Len(r)
               PROVE  FALSE
  OBVIOUS
<1>2. PICK n \in Nat : n = Len(t)
  OBVIOUS
<1>3. n + 1 \in 1 .. Len(r) /\ Len(r) \in Nat
  BY <1>1, <1>2
<1>4. h[n + 1] \in I
  BY <1>3 DEF Picking
<1>5. PICK m \in 1 .. Len(t) : g[m] = h[n + 1]
  BY <1>4 DEF Picking
<1>6. m \in 1 .. Len(r) /\ m <= Len(t) /\ m < n + 1
  BY <1>2, <1>3, <1>5
<1>7. h[m] = g[m]
  BY <1>6, PicksAgree
<1>8. h[m] < h[n + 1]
  BY <1>3, <1>6 DEF Picking
<1>9. h[n + 1] \in Int
  BY <1>4, SomePlace
<1> QED
  BY <1>5, <1>7, <1>8, <1>9

\* There is one sequence that has the elements at some places.
LEMMA PickedOnce ==
  ASSUME NEW S, NEW s \in Seq(S), NEW I \in SUBSET (1 .. Len(s)), NEW r \in Seq(S), NEW t \in Seq(S),
         NEW h, NEW g, Picking(s, I, r, h), Picking(s, I, t, g)
  PROVE  r = t
<1>1. Len(r) <= Len(t) /\ Len(t) <= Len(r) /\ Len(r) \in Nat /\ Len(t) \in Nat
  BY PicksNoLonger
<1>2. Len(r) = Len(t)
  BY <1>1
<1>3. ASSUME NEW j \in 1 .. Len(r)
      PROVE  r[j] = t[j]
  <2>1. j \in 1 .. Len(t) /\ j <= Len(t)
    BY <1>2
  <2>2. h[j] = g[j]
    BY <2>1, PicksAgree
  <2>3. r[j] = s[h[j]] /\ t[j] = s[g[j]]
    BY <2>1 DEF Picking
  <2> QED
    BY <2>2, <2>3
<1> QED
  BY <1>2, <1>3, SeqEqual

\* Nothing is picked at no place.
LEMMA NonePicked ==
  ASSUME NEW s, NEW h
  PROVE  Picking(s, {}, <<>>, h)
<1>1. 1 .. Len(<<>>) = {}
  OBVIOUS
<1> QED
  BY <1>1 DEF Picking

\* One place more, behind those that there are.
LEMMA OnePicked ==
  ASSUME NEW S, NEW s \in Seq(S), NEW I \in SUBSET (1 .. Len(s)), NEW r \in Seq(S), NEW h,
         Picking(s, I, r, h), NEW i \in 1 .. Len(s), \A x \in I : x < i
  PROVE  \E g : Picking(s, I \cup {i}, Append(r, s[i]), g)
<1>1. PICK n \in Nat : n = Len(r)
  OBVIOUS
<1>2. PICK t : t = Append(r, s[i])
  OBVIOUS
<1>3. Len(t) = n + 1 /\ t[n + 1] = s[i] /\ \A j \in 1 .. n : t[j] = r[j]
  <2>1. s[i] \in S
    BY ElementOfSeq
  <2>2. Len(Append(r, s[i])) = Len(r) + 1 /\ Append(r, s[i])[Len(r) + 1] = s[i]
        /\ \A j \in 1 .. Len(r) : Append(r, s[i])[j] = r[j]
    BY <2>1, AppendProperties
  <2> QED
    BY <1>1, <1>2, <2>2
<1> DEFINE g == [j \in 1 .. n + 1 |-> IF j = n + 1 THEN i ELSE h[j]]
<1>4. g[n + 1] = i /\ \A j \in 1 .. n : g[j] = h[j]
  BY <1>1
<1> HIDE DEF g
<1>5. /\ \A j \in 1 .. n : h[j] \in I /\ r[j] = s[h[j]]
      /\ \A j \in 1 .. n : \A k \in 1 .. n : k < j => h[k] < h[j]
      /\ \A x \in I : \E j \in 1 .. n : h[j] = x
  BY <1>1 DEF Picking
<1>6. \A j \in 1 .. n + 1 : g[j] \in I \cup {i} /\ t[j] = s[g[j]]
  <2>1. \A j \in 1 .. n + 1 : j = n + 1 \/ j \in 1 .. n
    BY <1>1
  <2> QED
    BY <1>3, <1>4, <1>5, <2>1
<1>7. ASSUME NEW j \in 1 .. n + 1, NEW k \in 1 .. n + 1, k < j
      PROVE  g[k] < g[j]
  <2>1. k \in 1 .. n
    BY <1>1, <1>7
  <2>2. CASE j = n + 1
    BY <1>4, <1>5, <2>1, <2>2
  <2>3. CASE j # n + 1
    <3>1. j \in 1 .. n
      BY <1>1, <2>3
    <3> QED
      BY <1>4, <1>5, <1>7, <2>1, <3>1
  <2> QED
    BY <2>2, <2>3
<1>8. ASSUME NEW x \in I \cup {i}
      PROVE  \E j \in 1 .. n + 1 : g[j] = x
  <2>1. CASE x = i
    <3>1. n + 1 \in 1 .. n + 1
      BY <1>1
    <3> QED
      BY <1>4, <2>1, <3>1
  <2>2. CASE x \in I
    <3>1. PICK j \in 1 .. n : h[j] = x
      BY <1>5, <2>2
    <3>2. j \in 1 .. n + 1
      BY <1>1
    <3> QED
      BY <1>4, <3>1, <3>2
  <2> QED
    BY <2>1, <2>2
<1>9. Picking(s, I \cup {i}, t, g)
  BY <1>3, <1>6, <1>7, <1>8 DEF Picking
<1> QED
  BY <1>2, <1>9

\* The first n places of I.
Till(I, n) == {i \in I : i <= n}

\* One place more to look at.
LEMMA TillMore ==
  ASSUME NEW N \in Nat, NEW I \in SUBSET (1 .. N), NEW n \in 0 .. N - 1
  PROVE  /\ Till(I, n) \in SUBSET (1 .. N) /\ \A x \in Till(I, n) : x < n + 1
         /\ n + 1 \in I => Till(I, n + 1) = Till(I, n) \cup {n + 1}
         /\ n + 1 \notin I => Till(I, n + 1) = Till(I, n)
<1>1. \A x \in I : x \in 1 .. N /\ x \in Int
  BY SomePlace
<1>2. n \in Int /\ \A x \in Int : (x <= n => x < n + 1) /\ (x <= n + 1 <=> x <= n \/ x = n + 1)
  OBVIOUS
<1>3. \A x : x \in Till(I, n) <=> x \in I /\ x <= n
  BY DEF Till
<1>4. \A x : x \in Till(I, n + 1) <=> x \in I /\ (x <= n \/ x = n + 1)
  BY <1>1, <1>2 DEF Till
<1>5. \A x \in Till(I, n) : x \in 1 .. N /\ x < n + 1
  BY <1>1, <1>2, <1>3
<1> QED
  BY <1>3, <1>4, <1>5

\* No place, and all of them.
LEMMA TillEnds ==
  ASSUME NEW N \in Nat, NEW I \in SUBSET (1 .. N)
  PROVE  Till(I, 0) = {} /\ Till(I, N) = I
<1>1. \A x \in I : x \in 1 .. N /\ x \in Int /\ x <= N /\ ~(x <= 0)
  BY SomePlace
<1> QED
  BY <1>1 DEF Till

\* The elements of s at the first n places of I are a sequence.
Some(S, s, I, n) == \E r \in Seq(S) : \E h : Picking(s, Till(I, n), r, h)

\* There is such a sequence for one place more, then.
LEMMA SomeMore ==
  ASSUME NEW S, NEW s \in Seq(S), NEW I \in SUBSET (1 .. Len(s)), NEW n \in 0 .. Len(s) - 1,
         NEW r \in Seq(S), NEW h, Picking(s, Till(I, n), r, h)
  PROVE  LET t == IF n + 1 \in I THEN Append(r, s[n + 1]) ELSE r IN
         t \in Seq(S) /\ \E g : Picking(s, Till(I, n + 1), t, g)
<1>1. Len(s) \in Nat /\ n + 1 \in 1 .. Len(s)
  OBVIOUS
<1>2. s[n + 1] \in S
  BY <1>1, ElementOfSeq
<1>3. CASE n + 1 \in I
  <2>1. \E g : Picking(s, Till(I, n) \cup {n + 1}, Append(r, s[n + 1]), g)
    BY <1>1, TillMore, OnePicked
  <2>2. Till(I, n + 1) = Till(I, n) \cup {n + 1}
    BY <1>1, <1>3, TillMore
  <2>3. Append(r, s[n + 1]) \in Seq(S)
    BY <1>2
  <2> QED
    BY <1>3, <2>1, <2>2, <2>3
<1>4. CASE n + 1 \notin I
  <2>1. Till(I, n + 1) = Till(I, n)
    BY <1>1, <1>4, TillMore
  <2> QED
    BY <1>4, <2>1
<1> QED
  BY <1>3, <1>4

\* Any places can be picked.
LEMMA SomeEver ==
  ASSUME NEW S, NEW s \in Seq(S), NEW I \in SUBSET (1 .. Len(s)), NEW n \in 0 .. Len(s)
  PROVE  Some(S, s, I, n)
<1> DEFINE Odd == {m \in Nat : m <= Len(s) /\ ~Some(S, s, I, m)}
<1>0. Len(s) \in Nat
  OBVIOUS
<1>1. ASSUME Odd # {}
      PROVE  FALSE
  <2>1. PICK m \in Odd : \A k \in Odd : m <= k
    BY <1>1, LeastNumber
  <2>2. CASE m = 0
    <3>0. Till(I, 0) = {}
      BY <1>0, TillEnds
    <3>1. Picking(s, Till(I, 0), <<>>, <<>>)
      BY <3>0, NonePicked
    <3>2. <<>> \in Seq(S)
      OBVIOUS
    <3>3. Some(S, s, I, 0)
      BY <3>1, <3>2 DEF Some
    <3> QED
      BY <2>1, <2>2, <3>3
  <2>3. CASE m # 0
    <3>1. PICK k : k = m - 1
      OBVIOUS
    <3>2. k \in 0 .. Len(s) - 1 /\ k + 1 = m /\ k \in Nat /\ k <= Len(s) /\ ~(m <= k)
      BY <1>0, <2>1, <2>3, <3>1
    <3>3. Some(S, s, I, k)
      BY <2>1, <3>2
    <3>4. PICK r \in Seq(S) : \E h : Picking(s, Till(I, k), r, h)
      BY <3>3 DEF Some
    <3>8. PICK h : Picking(s, Till(I, k), r, h)
      BY <3>4
    <3>5. PICK t : t = IF k + 1 \in I THEN Append(r, s[k + 1]) ELSE r
      OBVIOUS
    <3>6. t \in Seq(S) /\ \E g : Picking(s, Till(I, k + 1), t, g)
      BY <3>2, <3>4, <3>5, <3>8, SomeMore
    <3>7. Some(S, s, I, k + 1)
      BY <3>6 DEF Some
    <3> QED
      BY <2>1, <3>2, <3>7
  <2> QED
    BY <2>2, <2>3
<1> QED
  BY <1>0, <1>1

\* k is the recursion of Kept.
KeptBy(s, I, k) ==
  k = [n \in 0 .. Len(s) |->
         IF n = 0 THEN <<>> ELSE IF n \in I THEN Append(k[n - 1], s[n]) ELSE k[n - 1]]

\* It picks the places one after another.
LEMMA KeptBySome ==
  ASSUME NEW S, NEW s \in Seq(S), NEW I \in SUBSET (1 .. Len(s)), NEW k, KeptBy(s, I, k)
  PROVE  \A n \in 0 .. Len(s) : k[n] \in Seq(S) /\ \E h : Picking(s, Till(I, n), k[n], h)
<1> DEFINE Odd == {n \in Nat : n <= Len(s) /\ ~(k[n] \in Seq(S) /\ \E h : Picking(s, Till(I, n), k[n], h))}
<1>0. Len(s) \in Nat
  OBVIOUS
<1>1. \A n \in 0 .. Len(s) : k[n] =
         IF n = 0 THEN <<>> ELSE IF n \in I THEN Append(k[n - 1], s[n]) ELSE k[n - 1]
  <2>1. k = [n \in 0 .. Len(s) |->
         IF n = 0 THEN <<>> ELSE IF n \in I THEN Append(k[n - 1], s[n]) ELSE k[n - 1]]
    BY DEF KeptBy
  <2> QED
    BY <2>1
<1>2. SUFFICES ASSUME Odd # {}
               PROVE  FALSE
  BY <1>0
<1>3. PICK m \in Odd : \A x \in Odd : m <= x
  BY <1>2, LeastNumber
<1>4. CASE m = 0
  <2>1. k[0] = <<>>
    BY <1>0, <1>1
  <2>4. Till(I, 0) = {}
    BY <1>0, TillEnds
  <2>2. Picking(s, Till(I, 0), k[0], <<>>)
    BY <2>1, <2>4, NonePicked
  <2>3. k[0] \in Seq(S)
    BY <2>1
  <2> QED
    BY <1>3, <1>4, <2>2, <2>3
<1>5. CASE m # 0
  <2>1. PICK n : n = m - 1
    OBVIOUS
  <2>2. n \in 0 .. Len(s) - 1 /\ n + 1 = m /\ n \in Nat /\ n <= Len(s) /\ ~(m <= n)
    BY <1>0, <1>3, <1>5, <2>1
  <2>3. k[n] \in Seq(S) /\ \E h : Picking(s, Till(I, n), k[n], h)
    BY <1>3, <2>2
  <2>4. k[n + 1] = IF n + 1 \in I THEN Append(k[n], s[n + 1]) ELSE k[n]
    <3>1. n + 1 \in 0 .. Len(s) /\ n + 1 # 0 /\ (n + 1) - 1 = n
      BY <1>0, <2>2
    <3> QED
      BY <1>1, <3>1
  <2>5. k[n + 1] \in Seq(S) /\ \E g : Picking(s, Till(I, n + 1), k[n + 1], g)
    BY <2>2, <2>3, <2>4, SomeMore
  <2> QED
    BY <1>3, <2>2, <2>5
<1> QED
  BY <1>4, <1>5

\* There is such a recursion.
LEMMA KeptExists ==
  ASSUME NEW S, NEW s \in Seq(S), NEW I \in SUBSET (1 .. Len(s))
  PROVE  \E k : KeptBy(s, I, k)
<1>0. Len(s) \in Nat
  OBVIOUS
<1> DEFINE Is(n, r) == r \in Seq(S) /\ \E h : Picking(s, Till(I, n), r, h)
           k == [n \in 0 .. Len(s) |-> CHOOSE r : Is(n, r)]
<1>1. ASSUME NEW n \in 0 .. Len(s)
      PROVE  Is(n, k[n])
  <2>1. \E r : Is(n, r)
    BY SomeEver DEF Some
  <2> HIDE DEF Is
  <2>2. Is(n, CHOOSE r : Is(n, r))
    BY <2>1
  <2> QED
    BY <2>2
<1>2. k = [n \in 0 .. Len(s) |-> k[n]]
  <2> HIDE DEF Is
  <2> QED
    OBVIOUS
<1> HIDE DEF k
<1>3. ASSUME NEW n \in 0 .. Len(s)
      PROVE  k[n] = IF n = 0 THEN <<>> ELSE IF n \in I THEN Append(k[n - 1], s[n]) ELSE k[n - 1]
  <2>0. k[n] \in Seq(S)
    BY <1>1
  <2>1. PICK g : Picking(s, Till(I, n), k[n], g)
    BY <1>1
  <2>2. Till(I, n) \in SUBSET (1 .. Len(s))
    BY DEF Till
  <2>3. CASE n = 0
    <3>0. Till(I, n) = {}
      BY <1>0, <2>3, TillEnds
    <3>1. Picking(s, Till(I, n), <<>>, <<>>)
      BY <3>0, NonePicked
    <3>2. <<>> \in Seq(S)
      OBVIOUS
    <3>3. k[n] = <<>>
      BY <2>0, <2>1, <2>2, <3>1, <3>2, PickedOnce
    <3> QED
      BY <2>3, <3>3
  <2>4. CASE n # 0
    <3>1. PICK m : m = n - 1
      OBVIOUS
    <3>2. m \in 0 .. Len(s) - 1 /\ m + 1 = n /\ m \in 0 .. Len(s)
      BY <1>0, <2>4, <3>1
    <3>3. k[m] \in Seq(S)
      BY <1>1, <3>2
    <3>4. PICK h : Picking(s, Till(I, m), k[m], h)
      BY <1>1, <3>2
    <3>5. PICK t : t = IF m + 1 \in I THEN Append(k[m], s[m + 1]) ELSE k[m]
      OBVIOUS
    <3>6. t \in Seq(S) /\ \E f : Picking(s, Till(I, m + 1), t, f)
      BY <3>2, <3>3, <3>4, <3>5, SomeMore
    <3>7. k[n] = t
      BY <2>0, <2>1, <2>2, <3>2, <3>6, PickedOnce
    <3> QED
      BY <2>4, <3>1, <3>2, <3>5, <3>7
  <2> QED
    BY <2>3, <2>4
<1>4. KeptBy(s, I, k)
  BY <1>2, <1>3 DEF KeptBy
<1> QED
  BY <1>4

\* What Kept keeps.
LEMMA KeptPicks ==
  ASSUME NEW S, NEW s \in Seq(S), NEW I \in SUBSET (1 .. Len(s))
  PROVE  Kept(s, I) \in Seq(S) /\ \E h : Picking(s, I, Kept(s, I), h)
<1>1. PICK k : k = CHOOSE f : KeptBy(s, I, f)
  OBVIOUS
<1>2. KeptBy(s, I, k)
  BY <1>1, KeptExists
<1>3. Kept(s, I) = k[Len(s)]
  BY <1>1 DEF Kept, KeptBy
<1>4. Len(s) \in 0 .. Len(s) /\ Len(s) \in Nat
  OBVIOUS
<1>5. k[Len(s)] \in Seq(S) /\ \E h : Picking(s, Till(I, Len(s)), k[Len(s)], h)
  BY <1>2, <1>4, KeptBySome
<1>6. Till(I, Len(s)) = I
  BY <1>4, TillEnds
<1> QED
  BY <1>3, <1>5, <1>6

\* And what picks those places is what it keeps.
LEMMA KeptIs ==
  ASSUME NEW S, NEW s \in Seq(S), NEW I \in SUBSET (1 .. Len(s)), NEW r \in Seq(S), NEW h,
         Picking(s, I, r, h)
  PROVE  Kept(s, I) = r
<1>1. PICK t : t = Kept(s, I)
  OBVIOUS
<1>2. t \in Seq(S) /\ \E g : Picking(s, I, t, g)
  BY <1>1, KeptPicks
<1> QED
  BY <1>1, <1>2, PickedOnce

\* As many elements as places.
LEMMA PickedMany ==
  ASSUME NEW S, NEW s \in Seq(S), NEW I \in SUBSET (1 .. Len(s)), NEW r \in Seq(S), NEW h,
         Picking(s, I, r, h)
  PROVE  IsFiniteSet(I) /\ Cardinality(I) = Len(r)
<1>1. PICK n \in Nat : n = Len(r)
  OBVIOUS
<1> DEFINE f == [j \in 1 .. n |-> h[j]]
<1>2. \A j \in 1 .. n : f[j] = h[j] /\ h[j] \in I /\ h[j] \in Int
  BY <1>1, SomePlace DEF Picking
<1>3. f \in [1 .. n -> I]
  BY <1>2
<1> HIDE DEF f
<1>4. ASSUME NEW j \in 1 .. n, NEW k \in 1 .. n, f[j] = f[k]
      PROVE  j = k
  <2>1. ~(h[j] < h[k]) /\ ~(h[k] < h[j])
    BY <1>2, <1>4
  <2>2. ~(j < k) /\ ~(k < j)
    BY <1>1, <2>1 DEF Picking
  <2> QED
    BY <2>2
<1>5. \A i \in I : \E j \in 1 .. n : f[j] = i
  BY <1>1, <1>2 DEF Picking
<1>6. f \in Bijection(1 .. n, I)
  BY <1>3, <1>4, <1>5 DEF Bijection, Injection, Surjection, IsInjective
<1>7. ExistsBijection(1 .. n, I)
  BY <1>6 DEF ExistsBijection
<1>8. IsFiniteSet(1 .. n) /\ Cardinality(1 .. n) = n
  <2>1. Cardinality(1 .. n) = IF 1 > n THEN 0 ELSE n - 1 + 1
    BY FS_Interval
  <2>2. IsFiniteSet(1 .. n)
    BY FS_Interval
  <2> QED
    BY <2>1, <2>2
<1> QED
  BY <1>1, <1>7, <1>8, FS_Bijection

-----------------------------------------------------------------------------
(* Records erased one after another are those that are not picked. *)

\* A sequence without its i-th element, element by element.
LEMMA RemovedAt ==
  ASSUME NEW S, NEW d \in Seq(S), NEW i \in 1 .. Len(d)
  PROVE  /\ RemoveAt(d, i) \in Seq(S) /\ Len(RemoveAt(d, i)) = Len(d) - 1
         /\ \A j \in 1 .. Len(d) - 1 : RemoveAt(d, i)[j] = IF j < i THEN d[j] ELSE d[j + 1]
<1>1. PICK n \in Nat : n = Len(d)
  OBVIOUS
<1>2. PICK a : a = SubSeq(d, 1, i - 1)
  OBVIOUS
<1>3. PICK b : b = SubSeq(d, i + 1, Len(d))
  OBVIOUS
<1>4. i \in Nat /\ 1 <= i /\ i <= n
  BY <1>1
<1>5. a \in Seq(S) /\ Len(a) = i - 1 /\ \A j \in 1 .. i - 1 : a[j] = d[j]
  BY <1>1, <1>2, <1>4
<1>6. b \in Seq(S) /\ Len(b) = n - i /\ \A j \in 1 .. n - i : b[j] = d[i + j]
  <2>1. i + 1 >= 1 /\ n <= Len(d) /\ n - (i + 1) + 1 = n - i
    BY <1>1, <1>4
  <2>2. \A j \in 1 .. n - i : b[j] = d[(i + 1) + j - 1]
    BY <1>1, <1>3, <1>4
  <2>3. \A j \in 1 .. n - i : (i + 1) + j - 1 = i + j
    BY <1>4
  <2>4. b \in Seq(S) /\ Len(b) = n - i
    BY <1>1, <1>3, <1>4
  <2> QED
    BY <2>2, <2>3, <2>4
<1>7. RemoveAt(d, i) = a \o b
  BY <1>2, <1>3 DEF RemoveAt
<1>8. a \o b \in Seq(S) /\ Len(a \o b) = n - 1
  <2>1. a \o b \in Seq(S) /\ Len(a \o b) = Len(a) + Len(b)
    BY <1>5, <1>6, ConcatProperties
  <2> QED
    BY <1>4, <1>5, <1>6, <2>1
<1>9. ASSUME NEW j \in 1 .. n - 1
      PROVE  (a \o b)[j] = IF j < i THEN d[j] ELSE d[j + 1]
  <2>1. CASE j < i
    <3>1. j \in 1 .. Len(a)
      BY <1>4, <1>5, <2>1
    <3>2. (a \o b)[j] = a[j]
      BY <1>5, <1>6, <3>1
    <3> QED
      BY <1>4, <1>5, <2>1, <3>1, <3>2
  <2>2. CASE ~(j < i)
    <3>1. PICK k : k = j - (i - 1)
      OBVIOUS
    <3>2. k \in 1 .. n - i /\ j = Len(a) + k /\ i + k = j + 1
      BY <1>4, <1>5, <2>2, <3>1
    <3>3. (a \o b)[j] = b[k]
      BY <1>5, <1>6, <3>2
    <3> QED
      BY <1>6, <2>2, <3>2, <3>3
  <2> QED
    BY <2>1, <2>2
<1> QED
  BY <1>1, <1>7, <1>8, <1>9

\* One place fewer: what is left without the i-th element.
LEMMA PickedLess ==
  ASSUME NEW S, NEW s \in Seq(S), NEW I \in SUBSET (1 .. Len(s)), NEW r \in Seq(S), NEW h,
         Picking(s, I, r, h), NEW i \in 1 .. Len(r)
  PROVE  \E g : Picking(s, I \ {h[i]}, RemoveAt(r, i), g)
<1>1. PICK n \in Nat : n = Len(r)
  OBVIOUS
<1>2. PICK t : t = RemoveAt(r, i)
  OBVIOUS
<1>3. /\ t \in Seq(S) /\ Len(t) = n - 1 /\ i \in 1 .. n
      /\ \A j \in 1 .. n - 1 : t[j] = IF j < i THEN r[j] ELSE r[j + 1]
  BY <1>1, <1>2, RemovedAt
<1>4. /\ \A j \in 1 .. n : h[j] \in I /\ h[j] \in Int /\ r[j] = s[h[j]]
      /\ \A j \in 1 .. n : \A k \in 1 .. n : k < j => h[k] < h[j]
      /\ \A x \in I : \E j \in 1 .. n : h[j] = x
  BY <1>1, SomePlace DEF Picking
<1> DEFINE at == [j \in 1 .. n - 1 |-> IF j < i THEN j ELSE j + 1]
           g == [j \in 1 .. n - 1 |-> h[at[j]]]
<1>5. ASSUME NEW j \in 1 .. n - 1
      PROVE  /\ at[j] = (IF j < i THEN j ELSE j + 1) /\ at[j] \in 1 .. n /\ at[j] # i
             /\ g[j] = h[at[j]]
  BY <1>3
<1>6. \A j \in 1 .. n - 1 : \A k \in 1 .. n - 1 : k < j => at[k] < at[j]
  BY <1>3
<1>7. ASSUME NEW m \in 1 .. n, m # i
      PROVE  \E j \in 1 .. n - 1 : at[j] = m
  <2>1. CASE m < i
    <3>1. m \in 1 .. n - 1
      BY <1>3, <2>1
    <3> QED
      BY <1>5, <2>1, <3>1
  <2>2. CASE m > i
    <3>1. PICK j : j = m - 1
      OBVIOUS
    <3>2. j \in 1 .. n - 1 /\ ~(j < i) /\ j + 1 = m
      BY <1>3, <2>2, <3>1
    <3>3. at[j] = m
      BY <1>5, <3>2
    <3> QED
      BY <3>2, <3>3
  <2> QED
    BY <1>3, <1>7, <2>1, <2>2
<1> HIDE DEF at, g
<1>8. \A m \in 1 .. n : m # i => h[m] # h[i]
  <2>1. \A m \in 1 .. n : m # i => m < i \/ i < m
    BY <1>3
  <2> QED
    BY <1>3, <1>4, <2>1
<1>9. ASSUME NEW j \in 1 .. n - 1
      PROVE  g[j] \in I \ {h[i]} /\ t[j] = s[g[j]]
  <2>1. PICK m \in 1 .. n : m = at[j] /\ m # i
    BY <1>5
  <2>2. g[j] = h[m] /\ t[j] = r[m]
    BY <1>3, <1>5, <2>1
  <2>3. h[m] \in I /\ h[m] # h[i] /\ r[m] = s[h[m]]
    BY <1>4, <1>8, <2>1
  <2> QED
    BY <2>2, <2>3
<1>10. ASSUME NEW j \in 1 .. n - 1, NEW k \in 1 .. n - 1, k < j
       PROVE  g[k] < g[j]
  <2>1. at[k] < at[j] /\ at[k] \in 1 .. n /\ at[j] \in 1 .. n
    BY <1>5, <1>6, <1>10
  <2>2. h[at[k]] < h[at[j]]
    BY <1>4, <2>1
  <2> QED
    BY <1>5, <2>2
<1>11. ASSUME NEW x \in I \ {h[i]}
       PROVE  \E j \in 1 .. n - 1 : g[j] = x
  <2>1. PICK m \in 1 .. n : h[m] = x
    BY <1>4
  <2>2. PICK j \in 1 .. n - 1 : at[j] = m
    BY <1>7, <1>11, <2>1
  <2> QED
    BY <1>5, <2>1, <2>2
<1>12. Picking(s, I \ {h[i]}, t, g)
  BY <1>3, <1>9, <1>10, <1>11 DEF Picking
<1> QED
  BY <1>2, <1>12

\* A table picks all of its own records.
LEMMA AllPicked ==
  ASSUME NEW S, NEW s \in Seq(S)
  PROVE  \E h : Picking(s, 1 .. Len(s), s, h)
<1> DEFINE h == [i \in 1 .. Len(s) |-> i]
<1>1. \A i \in 1 .. Len(s) : h[i] = i
  OBVIOUS
<1> HIDE DEF h
<1>2. Picking(s, 1 .. Len(s), s, h)
  BY <1>1 DEF Picking
<1> QED
  BY <1>2

\* A key is at one place.
LEMMA OnePlace ==
  ASSUME NEW S, NEW s \in Seq(S), KeysDiffer(s), NEW i \in 1 .. Len(s), NEW j \in 1 .. Len(s),
         s[i].key = s[j].key
  PROVE  i = j
<1>1. DOMAIN s = 1 .. Len(s)
  OBVIOUS
<1> QED
  BY <1>1 DEF KeysDiffer

\* Keys that differ still differ among the records that are left.
LEMMA KeysStayDifferent ==
  ASSUME NEW S, NEW s \in Seq(S), KeysDiffer(s), NEW I \in SUBSET (1 .. Len(s)), NEW r \in Seq(S),
         NEW h, Picking(s, I, r, h)
  PROVE  KeysDiffer(r)
<1>1. ASSUME NEW i \in 1 .. Len(r), NEW j \in 1 .. Len(r), r[i].key = r[j].key
      PROVE  i = j
  <2>1. h[i] \in I /\ h[j] \in I /\ r[i] = s[h[i]] /\ r[j] = s[h[j]]
    BY DEF Picking
  <2>2. h[i] = h[j]
    <3>1. h[i] \in 1 .. Len(s) /\ h[j] \in 1 .. Len(s)
      BY <2>1
    <3>2. s[h[i]].key = s[h[j]].key
      BY <1>1, <2>1
    <3> QED
      BY <3>1, <3>2, OnePlace
  <2>3. h[i] \in Int /\ h[j] \in Int
    BY <2>1, SomePlace
  <2>4. ~(i < j) /\ ~(j < i)
    BY <2>2, <2>3 DEF Picking
  <2> QED
    BY <2>4
<1> QED
  BY <1>1 DEF KeysDiffer

\* The places of records with other keys.
Others(s, I, k) == {i \in I : s[i].key # k}

\* A key erased leaves the records with other keys.
LEMMA ErasedPicks ==
  ASSUME NEW S, NEW s \in Seq(S), KeysDiffer(s), NEW I \in SUBSET (1 .. Len(s)), NEW r \in Seq(S),
         NEW h, Picking(s, I, r, h), NEW k
  PROVE  \E g : Picking(s, Others(s, I, k), Erased(r, k), g)
<1>1. /\ \A j \in 1 .. Len(r) : h[j] \in I /\ r[j] = s[h[j]]
      /\ \A x \in I : \E j \in 1 .. Len(r) : h[j] = x
  BY DEF Picking
<1>2. CASE At(r, k) = {}
  <2>1. \A j \in 1 .. Len(r) : r[j].key # k
    BY <1>2 DEF At
  <2>2. Others(s, I, k) = I
    <3>1. ASSUME NEW x \in I
          PROVE  s[x].key # k
      <4>1. PICK j \in 1 .. Len(r) : h[j] = x
        BY <1>1
      <4> QED
        BY <1>1, <2>1, <4>1
    <3> QED
      BY <3>1 DEF Others
  <2>3. Erased(r, k) = r
    BY <1>2 DEF Erased
  <2> QED
    BY <2>2, <2>3
<1>3. CASE At(r, k) # {}
  <2>1. PICK m : m = Min(At(r, k))
    OBVIOUS
  <2>2. m \in 1 .. Len(r) /\ r[m].key = k
    <3>1. At(r, k) \in SUBSET Nat
      BY DEF At
    <3>2. m \in At(r, k)
      BY <1>3, <2>1, <3>1, MinIsIn
    <3> QED
      BY <3>2 DEF At
  <2>3. h[m] \in I /\ s[h[m]].key = k
    BY <1>1, <2>2
  <2>4. \A i \in I : s[i].key = k => i = h[m]
    <3>1. h[m] \in 1 .. Len(s) /\ \A i \in I : i \in 1 .. Len(s)
      BY <2>3
    <3> QED
      BY <2>3, <3>1, OnePlace
  <2>5. Others(s, I, k) = I \ {h[m]}
    BY <2>3, <2>4 DEF Others
  <2>6. Erased(r, k) = RemoveAt(r, m)
    BY <1>3, <2>1 DEF Erased
  <2>7. \E g : Picking(s, I \ {h[m]}, RemoveAt(r, m), g)
    BY <2>2, PickedLess
  <2> QED
    BY <2>5, <2>6, <2>7
<1> QED
  BY <1>2, <1>3

-----------------------------------------------------------------------------
(* The request under way. *)

\* No key occurs twice, now and when the request came.
Tables ==
  /\ before \in Seq(Entry(before)) /\ KeysDiffer(before) /\ KeysDiffer(data)
  /\ phase \notin {"idle", "delete"} => data = before

\* The request is the one asked for, and each loop is one of its kind.
Asked ==
  /\ phase # "idle" => asked = Head(todo)
  /\ phase = "delete" => Op = "DEL"
  /\ phase = "filter" => Op \in {"GET", "AGG"}
  /\ phase \in {"sort", "emit"} => Op = "GET"
  /\ phase = "group" => Op = "AGG"
  /\ phase \in {"where", "delete"} /\ Op = "DEL" => asked.req.keys = <<>>

\* The condition that is loaded is the one asked for; a loop behind it has one
\* that is in the grammar, or none.
Conditioned ==
  /\ phase \in {"where", "filter", "delete"} => asked.req.where # <<>> /\ ex = asked.req.where
  /\ phase \in {"filter", "delete"} => pc \in {"ready", "evaluate", "undefined"}
  /\ phase \in {"filter", "delete", "sort", "emit", "group"} => WhereFits(asked.req.where)

\* The record evaluated is the one at the cursor.
AtCursor ==
  /\ phase = "filter" /\ pc = "evaluate" => p <= Len(found) /\ value = found[p]
  /\ phase = "delete" /\ pc = "evaluate" => p <= Len(data) /\ value = data[p].row

\* What the members hold of the request.
Held ==
  /\ phase \in {"where", "filter", "sort", "emit"} /\ Op = "GET" =>
       /\ request.fields = Requested(asked.req.fields)
       /\ asked.req.fields # <<>> /\ ToSet(asked.req.fields) \subseteq IdsOrAll
       /\ request.order = asked.req.order /\ request.offset = asked.req.offset
       /\ request.size = asked.req.size
  /\ phase \in {"where", "filter", "group"} /\ Op = "AGG" =>
       request.aggs = asked.req.aggs /\ request.group = asked.req.group

\* What every step preserves of the request under way.
Current == Tables /\ Asked /\ Conditioned /\ AtCursor /\ Held

\* The server starts with no request.
LEMMA InitCurrent ==
  ASSUME Init
  PROVE  Current
<1>1. PICK s \in Sessions : data = s.data
  BY DEF Init
<1>2. s.data \in Seq([key : STRING, row : Row]) /\ KeysDiffer(s.data)
  BY QueryAssumption
<1>3. before \in Seq(Entry(before)) /\ KeysDiffer(before) /\ KeysDiffer(data)
  BY <1>1, <1>2, DataTyped DEF Init
<1> QED
  BY <1>3 DEF Init, Current, Tables, Asked, Conditioned, AtCursor, Held

\* Nothing of this is about steps that change none of its members.
LEMMA StutterCurrent ==
  ASSUME Current,
         UNCHANGED <<data, todo, phase, request, found, p, asked, before, ex, pc, value>>
  PROVE  Current'
BY DEF Current, Tables, Asked, Conditioned, AtCursor, Held, KeysDiffer, Entry, ToSet, Op, WhereFits,
       Requested

\* The table that a request meets.
LEMMA TableMet ==
  ASSUME QueryInv, Current, before' = data
  PROVE  before' \in Seq(Entry(before')) /\ KeysDiffer(before') /\ Len(data) \in Nat
         /\ data \in Seq(Entry(data))
<1>1. data \in Seq(Entry(data))
  BY DataTyped DEF QueryInv, QuerySorts, Entry
<1>2. KeysDiffer(data)
  BY DEF Current, Tables
<1> QED
  BY <1>1, <1>2

\* A request refused or answered leaves the table that it met.
LEMMA IdleCurrent ==
  ASSUME phase' = "idle", before' \in Seq(Entry(before')), KeysDiffer(before'), KeysDiffer(data')
  PROVE  Current'
BY DEF Current, Tables, Asked, Conditioned, AtCursor, Held

\* The places of records with keys that are not asked for.
Unnamed(s, keys) == {i \in 1 .. Len(s) : s[i].key \notin ToSet(keys)}

\* What the keys asked for leave is the records with other keys.
LEMMA KeysErased ==
  ASSUME NEW S, NEW s \in Seq(S), KeysDiffer(s), NEW X, NEW keys \in Seq(X)
  PROVE  /\ AllErased(s, keys) \in Seq(S)
         /\ \E h : Picking(s, Unnamed(s, keys), AllErased(s, keys), h)
<1> DEFINE Rest(n) == {i \in 1 .. Len(s) : \A m \in 1 .. n : s[i].key # keys[m]}
           Is(n, r) == r \in Seq(S) /\ \E h : Picking(s, Rest(n), r, h)
<1>0. PICK N \in Nat : N = Len(keys)
  OBVIOUS
<1>a. PICK f : ErasesBy(S, s, keys, f)
  BY ErasedSteps
<1>1. /\ f[0] = s /\ AllErased(s, keys) = f[N]
      /\ \A k \in 0 .. N : f[k] \in Seq(S)
      /\ \A k \in 1 .. N : f[k] = Erased(f[k - 1], keys[k])
  BY <1>0, <1>a DEF ErasesBy
<1>2. ASSUME NEW n
      PROVE  Rest(n) \in SUBSET (1 .. Len(s))
  OBVIOUS
<1>3. Rest(0) = 1 .. Len(s)
  <2>1. 1 .. 0 = {}
    OBVIOUS
  <2> QED
    BY <2>1
<1>4. ASSUME NEW n \in 0 .. N - 1
      PROVE  Rest(n + 1) = Others(s, Rest(n), keys[n + 1])
  <2>1. \A m : m \in 1 .. n + 1 <=> m \in 1 .. n \/ m = n + 1
    BY <1>0
  <2> QED
    BY <2>1 DEF Others
<1> HIDE DEF Rest
<1>5. Is(0, f[0])
  BY <1>1, <1>3, AllPicked
<1>6. ASSUME NEW n \in 0 .. N - 1, Is(n, f[n])
      PROVE  Is(n + 1, f[n + 1])
  <2>1. f[n] \in Seq(S) /\ Rest(n) \in SUBSET (1 .. Len(s))
    BY <1>2, <1>6
  <2>2. PICK h : Picking(s, Rest(n), f[n], h)
    BY <1>6
  <2>a. PICK I, r, k : I \in SUBSET (1 .. Len(s)) /\ r \in Seq(S) /\ I = Rest(n) /\ r = f[n] /\ k = keys[n + 1]
    BY <2>1
  <2>b. \E g : Picking(s, Others(s, I, k), Erased(r, k), g)
    BY <2>2, <2>a, ErasedPicks
  <2>3. \E g : Picking(s, Others(s, Rest(n), keys[n + 1]), Erased(f[n], keys[n + 1]), g)
    BY <2>a, <2>b
  <2>4. n + 1 \in 1 .. N /\ (n + 1) - 1 = n /\ n + 1 \in 0 .. N
    BY <1>0
  <2>5. f[n + 1] = Erased(f[n], keys[n + 1]) /\ f[n + 1] \in Seq(S)
    BY <1>1, <2>4
  <2> QED
    BY <1>4, <2>3, <2>5
<1> HIDE DEF Is
<1> DEFINE T == {n \in 0 .. N : Is(n, f[n])}
<1>7. 0 \in T
  BY <1>0, <1>5
<1>8. ASSUME NEW n \in 0 .. N - 1, n \in T
      PROVE  n + 1 \in T
  <2>1. n + 1 \in 0 .. N
    BY <1>0
  <2> QED
    BY <1>6, <1>8, <2>1
<1> HIDE DEF T
<1>9. \A n \in 0 .. N : n \in T
  BY <1>0, <1>7, <1>8, Climb
<1>10. N \in T
  BY <1>0, <1>9
<1>11. Is(N, f[N])
  BY <1>10 DEF T
<1>12. Rest(N) = Unnamed(s, keys)
  <2>1. DOMAIN keys = 1 .. N
    BY <1>0
  <2> QED
    BY <2>1 DEF Rest, Unnamed, ToSet
<1> QED
  BY <1>1, <1>11, <1>12 DEF Is

\* A table without one of its records.
LEMMA OneErased ==
  ASSUME NEW S, NEW s \in Seq(S), KeysDiffer(s), NEW i \in 1 .. Len(s)
  PROVE  KeysDiffer(RemoveAt(s, i))
<1>1. PICK h : Picking(s, 1 .. Len(s), s, h)
  BY AllPicked
<1>2. (1 .. Len(s)) \in SUBSET (1 .. Len(s))
  OBVIOUS
<1>3. PICK I : I = (1 .. Len(s)) \ {h[i]}
  OBVIOUS
<1>4. I \in SUBSET (1 .. Len(s)) /\ \E g : Picking(s, I, RemoveAt(s, i), g)
  BY <1>1, <1>2, <1>3, PickedLess
<1>5. RemoveAt(s, i) \in Seq(S)
  BY Removed
<1> QED
  BY <1>4, <1>5, KeysStayDifferent

-----------------------------------------------------------------------------
(* Each step keeps what is said of the request under way. *)

\* What is said of a request once its condition is loaded, or it has none.
LEMMA BeginCurrent ==
  ASSUME NEW where, NEW otherwise, BeginWhere(where, otherwise)
  PROVE  /\ where = <<>> => phase' = otherwise
         /\ where # <<>> => phase' = "where" /\ ex' = where
         /\ phase' = "where" \/ phase' = otherwise
BY DEF BeginWhere, LoadLogical

\* A request refused, or a deletion by keys.
LEMMA RefusedCurrent ==
  ASSUME QueryInv, Current, GetRefused \/ AggRefused \/ DelKeys
  PROVE  Current'
<1>1. before' = data /\ phase' = "idle" /\ todo # <<>>
  BY DEF GetRefused, AggRefused, DelKeys, Receive, Reply
<1>2. before' \in Seq(Entry(before')) /\ KeysDiffer(before') /\ data \in Seq(Entry(data))
  BY <1>1, TableMet
<1>3. KeysDiffer(data')
  <2>1. CASE GetRefused \/ AggRefused
    <3>1. data' = data
      BY <2>1 DEF GetRefused, AggRefused
    <3> QED
      BY <1>1, <1>2, <3>1
  <2>2. CASE DelKeys
    <3>1. PICK r : r = Head(todo).req
      OBVIOUS
    <3>2. request' = [request EXCEPT !.keys = r.keys, !.where = r.where]
      BY <2>2, <3>1 DEF DelKeys, ParsedDel
    <3>3. r \in Request /\ request \in Request
      BY <1>1, <3>1, HeadTyped DEF QueryInv, QuerySorts
    <3>4. request'.keys = r.keys /\ r.keys \in Seq(STRING)
      BY <3>2, <3>3 DEF Request
    <3>5. data' = AllErased(data, r.keys)
      BY <2>2, <3>4 DEF DelKeys, AllErased
    <3>6. KeysDiffer(data)
      BY <1>1, <1>2
    <3>7. data' \in Seq(Entry(data))
          /\ \E h : Picking(data, Unnamed(data, r.keys), data', h)
      BY <1>2, <3>4, <3>5, <3>6, KeysErased
    <3>8. Unnamed(data, r.keys) \in SUBSET (1 .. Len(data))
      BY DEF Unnamed
    <3> QED
      BY <1>2, <3>6, <3>7, <3>8, KeysStayDifferent
  <2> QED
    BY <2>1, <2>2
<1> QED
  BY <1>1, <1>2, <1>3, IdleCurrent

\* A request answered.
LEMMA AnsweredCurrent ==
  ASSUME Current, WhereRefused \/ Deleted \/ Emit \/ PutGroups
  PROVE  Current'
<1>1. phase' = "idle" /\ before' = before /\ data' = data
  BY DEF WhereRefused, Deleted, Emit, PutGroups, Reply
<1>2. before' \in Seq(Entry(before')) /\ KeysDiffer(before') /\ KeysDiffer(data')
  BY <1>1 DEF Current, Tables
<1> QED
  BY <1>1, <1>2, IdleCurrent

\* What a parser of GET holds.
LEMMA GetHeld ==
  ASSUME QueryInv, GetParsed, NEW r, r = Head(todo).req
  PROVE  /\ request'.fields = Requested(r.fields) /\ request'.order = r.order
         /\ request'.offset = r.offset /\ request'.size = r.size /\ request'.where = r.where
         /\ request'.keys = r.keys
         /\ r.fields # <<>> /\ ToSet(r.fields) \subseteq IdsOrAll /\ r \in Request
<1>1. todo # <<>> /\ request' = Parsed(r) /\ r.fields # <<>> /\ ToSet(r.fields) \subseteq IdsOrAll
  BY DEF GetParsed, Receive
<1>2. r \in Request
  BY <1>1, HeadTyped DEF QueryInv
<1>3. PICK f : f = Requested(r.fields)
  OBVIOUS
<1>4. request' = [fields |-> f, keys |-> r.keys, where |-> r.where, order |-> r.order,
                    offset |-> r.offset, size |-> r.size, aggs |-> request.aggs,
                    group |-> request.group]
  BY <1>1, <1>2, <1>3 DEF Parsed, Request
<1> QED
  BY <1>1, <1>2, <1>3, <1>4

\* GET, AGG or DEL taken up.
LEMMA ParsedCurrent ==
  ASSUME QueryInv, Current, GetParsed \/ AggParsed \/ DelWhere
  PROVE  Current'
<1>1. /\ before' = data /\ data' = data /\ todo' = todo /\ todo # <<>> /\ asked' = Head(todo)
  BY DEF GetParsed, AggParsed, DelWhere, Receive
<1>2. before' \in Seq(Entry(before')) /\ KeysDiffer(before')
  BY <1>1, TableMet
<1>3. Tables'
  BY <1>1, <1>2 DEF Tables
<1>4. PICK r : r = Head(todo).req
  OBVIOUS
<1>5. r \in Request /\ request \in Request /\ asked'.req = r /\ Op' = Op
  BY <1>1, <1>4, HeadTyped DEF QueryInv, QuerySorts, Op
<1>6. CASE GetParsed
  <2>1. Op = "GET" /\ BeginWhere(request'.where, "sort")
    BY <1>6 DEF GetParsed, Receive
  <2>2. request'.where = r.where
    BY <1>4, <1>6, GetHeld
  <2>3. /\ r.where = <<>> => phase' = "sort"
        /\ r.where # <<>> => phase' = "where" /\ ex' = r.where
        /\ phase' = "where" \/ phase' = "sort"
    BY <2>1, <2>2, BeginCurrent
  <2>4. Held'
    <3>1. /\ request'.fields = Requested(r.fields) /\ request'.order = r.order
          /\ request'.offset = r.offset /\ request'.size = r.size
          /\ r.fields # <<>> /\ ToSet(r.fields) \subseteq IdsOrAll
      BY <1>4, <1>6, GetHeld
    <3> QED
      BY <1>5, <2>1, <3>1 DEF Held, Requested, EveryField, ToSet
  <2>5. Conditioned'
    BY <1>5, <2>3 DEF Conditioned, WhereFits
  <2>6. Asked' /\ AtCursor'
    BY <1>1, <1>5, <2>1, <2>3 DEF Asked, AtCursor
  <2> QED
    BY <1>3, <2>4, <2>5, <2>6 DEF Current
<1>7. CASE AggParsed
  <2>1. Op = "AGG" /\ BeginWhere(request'.where, "group")
        /\ request' = [request EXCEPT !.aggs = r.aggs, !.where = r.where, !.group = r.group]
    BY <1>4, <1>7 DEF AggParsed, Receive
  <2>2. request'.where = r.where /\ request'.aggs = r.aggs /\ request'.group = r.group
    BY <1>5, <2>1 DEF Request
  <2>3. /\ r.where = <<>> => phase' = "group"
        /\ r.where # <<>> => phase' = "where" /\ ex' = r.where
        /\ phase' = "where" \/ phase' = "group"
    BY <2>1, <2>2, BeginCurrent
  <2>4. Held'
    BY <1>5, <2>1, <2>2 DEF Held
  <2>5. Conditioned'
    BY <1>5, <2>3 DEF Conditioned, WhereFits
  <2>6. Asked' /\ AtCursor'
    BY <1>1, <1>5, <2>1, <2>3 DEF Asked, AtCursor
  <2> QED
    BY <1>3, <2>4, <2>5, <2>6 DEF Current
<1>8. CASE DelWhere
  <2>1. Op = "DEL" /\ BeginWhere(request'.where, "delete") /\ request'.keys = <<>>
        /\ request'.where # <<>>
        /\ request' = [request EXCEPT !.keys = r.keys, !.where = r.where]
    BY <1>4, <1>8 DEF DelWhere, Receive, ParsedDel
  <2>2. request'.where = r.where /\ request'.keys = r.keys
    BY <1>5, <2>1 DEF Request
  <2>3. r.where # <<>> /\ phase' = "where" /\ ex' = r.where
    BY <2>1, <2>2, BeginCurrent
  <2>4. Held' /\ Conditioned' /\ Asked' /\ AtCursor'
    BY <1>1, <1>5, <2>1, <2>2, <2>3 DEF Held, Conditioned, Asked, AtCursor
  <2> QED
    BY <1>3, <2>4 DEF Current
<1> QED
  BY <1>6, <1>7, <1>8

\* The condition loaded and evaluated.
LEMMA WhereCurrent ==
  ASSUME QueryInv, MeaningInv, Current,
         LoadWhere \/ WhereAccepted \/ EvaluateWhere \/ FilterBegin \/ DeleteBegin
  PROVE  Current'
<1>0. /\ phase # "idle" => todo # <<>>
      /\ phase # "idle" => Op \in {"GET", "AGG", "DEL"}
  BY HeadTyped DEF QueryInv, QuerySorts
<1>1. CASE LoadWhere
  <2>1. /\ phase = "where" /\ ex' = ex
        /\ UNCHANGED <<data, todo, phase, request, found, p, asked, before>>
    BY <1>1 DEF LoadWhere, queryVars, LoadStep, Split, Keep, EndSplit, Check, CheckRefuses, EndCheck
  <2> QED
    BY <2>1 DEF Current, Tables, Asked, Conditioned, AtCursor, Held, KeysDiffer, Entry, ToSet, Op,
                WhereFits, Requested
<1>2. CASE WhereAccepted
  <2>1. /\ phase = "where" /\ pc = "ready" /\ phase' = (IF Op = "DEL" THEN "delete" ELSE "filter")
        /\ UNCHANGED <<data, todo, request, found, asked, before, ex, pc, value>>
    BY <1>2 DEF WhereAccepted, logicalVars
  <2>2. InGrammar(ex)
    <3>1. ConditionExact
      BY MeaningExact DEF QueryInv
    <3> QED
      BY <2>1, <3>1 DEF ConditionExact
  <2>3. Tables' /\ Held'
    BY <2>1 DEF Current, Tables, Held, KeysDiffer, Entry, ToSet, Op, Requested
  <2>4. Conditioned' /\ AtCursor'
    BY <2>1, <2>2 DEF Current, Conditioned, AtCursor, WhereFits
  <2>5. Asked'
    BY <1>0, <2>1 DEF Current, Asked, Op
  <2> QED
    BY <2>3, <2>4, <2>5 DEF Current
<1>3. CASE EvaluateWhere
  <2>1. /\ phase \in {"filter", "delete"} /\ pc = "evaluate" /\ value' = value /\ ex' = ex
        /\ pc' \in {"evaluate", "undefined"}
        /\ UNCHANGED <<data, todo, phase, request, found, p, asked, before>>
    BY <1>3 DEF EvaluateWhere, queryVars, EvaluateStep, Evaluate, EvaluateOverruns, EvaluateTraps
  <2> QED
    BY <2>1 DEF Current, Tables, Asked, Conditioned, AtCursor, Held, KeysDiffer, Entry, ToSet, Op,
                WhereFits, Requested
<1>4. CASE FilterBegin
  <2>1. /\ phase = "filter" /\ p <= Len(found) /\ value' = found[p] /\ ex' = ex /\ pc' = "evaluate"
        /\ UNCHANGED <<data, todo, phase, request, found, p, asked, before>>
    BY <1>4 DEF FilterBegin, BeginEvaluate, queryVars
  <2> QED
    BY <2>1 DEF Current, Tables, Asked, Conditioned, AtCursor, Held, KeysDiffer, Entry, ToSet, Op,
                WhereFits, Requested
<1>5. CASE DeleteBegin
  <2>1. /\ phase = "delete" /\ p <= Len(data) /\ value' = data[p].row /\ ex' = ex /\ pc' = "evaluate"
        /\ UNCHANGED <<data, todo, phase, request, found, p, asked, before>>
    BY <1>5 DEF DeleteBegin, BeginEvaluate, queryVars
  <2> QED
    BY <2>1 DEF Current, Tables, Asked, Conditioned, AtCursor, Held, KeysDiffer, Entry, ToSet, Op,
                WhereFits, Requested
<1> QED
  BY <1>1, <1>2, <1>3, <1>4, <1>5

\* The loops over the records.
LEMMA LoopsCurrent ==
  ASSUME QueryInv, Current,
         FilterEnd \/ Filtered \/ DeleteEnd \/ Sort \/ Accumulate \/ ReadsBeyond
  PROVE  Current'
<1>1. CASE FilterEnd
  <2>1. /\ phase = "filter" /\ ex' = ex /\ pc' = "ready"
        /\ UNCHANGED <<data, todo, phase, request, asked, before>>
    BY <1>1 DEF FilterEnd, EndEvaluate
  <2> QED
    BY <2>1 DEF Current, Tables, Asked, Conditioned, AtCursor, Held, KeysDiffer, Entry, ToSet, Op,
                WhereFits, Requested
<1>2. CASE Filtered
  <2>1. /\ phase = "filter" /\ phase' = (IF Op = "GET" THEN "sort" ELSE "group")
        /\ UNCHANGED <<data, todo, request, asked, before>>
    BY <1>2 DEF Filtered
  <2> QED
    BY <2>1 DEF Current, Tables, Asked, Conditioned, AtCursor, Held, KeysDiffer, Entry, ToSet, Op,
                WhereFits, Requested
<1>3. CASE DeleteEnd
  <2>1. /\ phase = "delete" /\ ex' = ex /\ pc' = "ready"
        /\ data' = (IF Result = "T" THEN RemoveAt(data, p) ELSE data)
        /\ UNCHANGED <<todo, phase, request, found, asked, before>>
    BY <1>3 DEF DeleteEnd, EndEvaluate
  <2>2. p \in 1 .. Len(data) /\ data \in Seq(Entry(before)) /\ KeysDiffer(data)
    BY <1>3, <2>1 DEF DeleteEnd, EndEvaluate, QueryInv, QuerySorts, Deleting, Current, Tables
  <2>3. KeysDiffer(RemoveAt(data, p))
    BY <2>2, OneErased
  <2>4. KeysDiffer(data')
    BY <2>1, <2>2, <2>3
  <2> QED
    BY <2>1, <2>4 DEF Current, Tables, Asked, Conditioned, AtCursor, Held, KeysDiffer, Entry, ToSet,
                Op, WhereFits, Requested
<1>4. CASE Sort \/ Accumulate
  <2>1. /\ phase \in {"sort", "group"} /\ phase' = (IF phase = "sort" THEN "emit" ELSE "group")
        /\ UNCHANGED <<data, todo, request, asked, before>>
    BY <1>4 DEF Sort, Accumulate
  <2> QED
    BY <2>1 DEF Current, Tables, Asked, Conditioned, AtCursor, Held, KeysDiffer, Entry, ToSet, Op,
                WhereFits, Requested
<1>5. CASE ReadsBeyond
  <2>1. /\ phase \in {"emit", "group"} /\ phase' = "undefined"
        /\ UNCHANGED <<data, todo, request, asked, before>>
    BY <1>5 DEF ReadsBeyond
  <2> QED
    BY <2>1 DEF Current, Tables, Asked, Conditioned, AtCursor, Held, KeysDiffer, Entry, ToSet, Op,
                WhereFits, Requested
<1> QED
  BY <1>1, <1>2, <1>3, <1>4, <1>5

\* Every step of the server does.
LEMMA NextCurrent ==
  ASSUME QueryInv, MeaningInv, Current, [Next]_vars
  PROVE  Current'
<1>1. CASE UNCHANGED vars
  BY <1>1, StutterCurrent DEF vars, queryVars, logicalVars
<1> QED
  BY <1>1, RefusedCurrent, AnsweredCurrent, ParsedCurrent, WhereCurrent, LoopsCurrent DEF Next

-----------------------------------------------------------------------------
(* DEL. *)

\* The loop has erased none but records that are picked, and passed none of them.
Culled ==
  phase = "delete" =>
    \E I, h :
      /\ I \in SUBSET (1 .. Len(before))
      /\ Picking(before, I, data, h)
      /\ \A i \in 1 .. Len(before) : i \notin I => Picks(asked.req.where, before[i].row)
      /\ \A j \in 1 .. p - 1 : ~Picks(asked.req.where, data[j].row)

\* A record is picked exactly if the result for it is true.
LEMMA ResultPicks ==
  ASSUME LogicalInv, MeaningInv, EndEvaluate, ex # <<>>
  PROVE  Result = "T" <=> Picks(ex, value)
<1>1. /\ pc' = "ready" /\ out' = Result /\ ex' = ex /\ value' = value
  BY DEF EndEvaluate
<1>2. MeaningInv'
  BY EndEvaluateMeans
<1>3. Result # "none"
  BY DEF Result, Truth
<1>4. Truths(ex', value') = {out' = "T"}
  BY <1>1, <1>2, <1>3 DEF MeaningInv, EvaluatesMeaning
<1>5. Truths(ex, value) = {Result = "T"}
  BY <1>1, <1>4
<1>6. TRUE \in Truths(ex, value) <=> Result = "T"
  BY <1>5
<1> QED
  BY <1>6 DEF Picks

\* What is not picked is what is kept, and the rest is counted.
LEMMA RestCounted ==
  ASSUME NEW S, NEW s \in Seq(S), NEW named \in SUBSET (1 .. Len(s)), NEW r \in Seq(S), NEW h,
         NEW I, I = (1 .. Len(s)) \ named, Picking(s, I, r, h)
  PROVE  r = Kept(s, DOMAIN s \ named) /\ Cardinality(named) = Len(s) - Len(r)
<1>0. PICK n \in Nat : n = Len(s)
  OBVIOUS
<1>2. I \in SUBSET (1 .. Len(s)) /\ DOMAIN s \ named = I
  OBVIOUS
<1>3. Kept(s, I) = r
  BY <1>2, KeptIs
<1>4. IsFiniteSet(I) /\ Cardinality(I) = Len(r)
  BY <1>2, PickedMany
<1>5. IsFiniteSet(1 .. n) /\ Cardinality(1 .. n) = n
  <2>1. Cardinality(1 .. n) = IF 1 > n THEN 0 ELSE n - 1 + 1
    BY FS_Interval
  <2>2. IsFiniteSet(1 .. n)
    BY FS_Interval
  <2> QED
    BY <2>1, <2>2
<1>6. IsFiniteSet(named)
  BY <1>0, <1>5, FS_Subset
<1>7. Cardinality((1 .. n) \ named) = Cardinality(1 .. n) - Cardinality((1 .. n) \cap named)
  BY <1>5, FS_Difference
<1>8. (1 .. n) \cap named = named /\ (1 .. n) \ named = I
  BY <1>0
<1>9. Cardinality(named) \in Nat /\ Len(r) \in Nat
  BY <1>6, FS_CardinalityType
<1>10. Len(r) = n - Cardinality(named)
  BY <1>4, <1>5, <1>7, <1>8
<1>11. Cardinality(named) = Len(s) - Len(r)
  BY <1>0, <1>9, <1>10
<1> QED
  BY <1>2, <1>3, <1>11

\* The loop begins with all records.
LEMMA AcceptedCulls ==
  ASSUME QueryInv, Current, WhereAccepted
  PROVE  Culled'
<1>1. phase = "where" /\ p' = 1 /\ UNCHANGED <<data, before, asked>>
  BY DEF WhereAccepted
<1>2. data = before /\ before \in Seq(Entry(before))
  BY <1>1 DEF Current, Tables
<1>3. PICK h : Picking(before, 1 .. Len(before), before, h)
  BY <1>2, AllPicked
<1>4. (1 .. Len(before)) \in SUBSET (1 .. Len(before))
  OBVIOUS
<1>5. 1 .. p' - 1 = {}
  BY <1>1
<1>6. \E I, g :
      /\ I \in SUBSET (1 .. Len(before))
      /\ Picking(before, I, before, g)
      /\ \A i \in 1 .. Len(before) : i \notin I => Picks(asked.req.where, before[i].row)
      /\ \A j \in 1 .. p' - 1 : ~Picks(asked.req.where, before[j].row)
  BY <1>3, <1>4, <1>5
<1> QED
  BY <1>1, <1>2, <1>6 DEF Culled

\* One record more is erased or passed.
LEMMA EndCulls ==
  ASSUME QueryInv, MeaningInv, Current, Culled, DeleteEnd
  PROVE  Culled'
<1>1. /\ phase = "delete" /\ EndEvaluate /\ pc = "evaluate" /\ UNCHANGED <<before, asked>>
      /\ data' = (IF Result = "T" THEN RemoveAt(data, p) ELSE data)
      /\ p' = (IF Result = "T" THEN p ELSE p + 1)
  BY DEF DeleteEnd, EndEvaluate, Advanced
<1>2. /\ p \in 1 .. Len(data) /\ Len(data) \in Nat /\ data \in Seq(Entry(before))
      /\ before \in Seq(Entry(before))
  BY <1>1 DEF QueryInv, QuerySorts, Deleting, Current, Tables
<1>3. asked.req.where # <<>> /\ ex = asked.req.where /\ value = data[p].row
  BY <1>1 DEF Current, Conditioned, AtCursor
<1>4. Result = "T" <=> Picks(asked.req.where, data[p].row)
  BY <1>1, <1>3, ResultPicks DEF QueryInv
<1>5. PICK I, h :
      /\ I \in SUBSET (1 .. Len(before))
      /\ Picking(before, I, data, h)
      /\ \A i \in 1 .. Len(before) : i \notin I => Picks(asked.req.where, before[i].row)
      /\ \A j \in 1 .. p - 1 : ~Picks(asked.req.where, data[j].row)
  BY <1>1 DEF Culled
<1>6. CASE Result = "T"
  <2>1. p' = p /\ data' = RemoveAt(data, p)
    BY <1>1, <1>6
  <2>2. PICK J : J = I \ {h[p]}
    OBVIOUS
  <2>3. J \in SUBSET (1 .. Len(before)) /\ h[p] \in 1 .. Len(before) /\ data[p] = before[h[p]]
    BY <1>2, <1>5, <2>2 DEF Picking
  <2>4. PICK g : Picking(before, J, RemoveAt(data, p), g)
    BY <1>2, <1>5, <2>2, PickedLess
  <2>5. Picks(asked.req.where, before[h[p]].row)
    BY <1>4, <1>6, <2>3
  <2>6. \A i \in 1 .. Len(before) : i \notin J => Picks(asked.req.where, before[i].row)
    BY <1>5, <2>2, <2>5
  <2>7. ASSUME NEW j \in 1 .. p - 1
        PROVE  ~Picks(asked.req.where, RemoveAt(data, p)[j].row)
    <3>1. j \in 1 .. Len(data) - 1 /\ j < p
      BY <1>2
    <3>2. RemoveAt(data, p)[j] = data[j]
      BY <1>2, <3>1, RemovedAt
    <3> QED
      BY <1>5, <3>2
  <2> QED
    BY <1>1, <2>1, <2>3, <2>4, <2>6, <2>7 DEF Culled
<1>7. CASE Result # "T"
  <2>1. p' = p + 1 /\ data' = data
    BY <1>1, <1>7
  <2>2. \A j \in 1 .. (p + 1) - 1 : j \in 1 .. p - 1 \/ j = p
    BY <1>2
  <2>3. \A j \in 1 .. (p + 1) - 1 : ~Picks(asked.req.where, data[j].row)
    BY <1>4, <1>5, <1>7, <2>2
  <2> QED
    BY <1>1, <1>5, <2>1, <2>3 DEF Culled
<1> QED
  BY <1>6, <1>7

\* Every step keeps what is said of the loop.
LEMMA NextCulls ==
  ASSUME QueryInv, MeaningInv, Current, Culled, [Next]_vars
  PROVE  Culled'
<1>1. CASE UNCHANGED vars \/ EvaluateWhere \/ DeleteBegin
  <2>1. UNCHANGED <<phase, before, data, asked, p>>
    BY <1>1 DEF vars, queryVars, EvaluateWhere, DeleteBegin
  <2> QED
    BY <2>1 DEF Culled
<1>2. CASE GetRefused \/ GetParsed \/ AggRefused \/ AggParsed \/ DelKeys \/ DelWhere
  <2>1. phase' # "delete"
    BY <1>2 DEF GetRefused, GetParsed, AggRefused, AggParsed, DelKeys, DelWhere, Reply, BeginWhere
  <2> QED
    BY <2>1 DEF Culled
<1>3. CASE LoadWhere \/ WhereRefused \/ FilterBegin \/ FilterEnd \/ Filtered \/ Deleted
  <2>1. phase' # "delete"
    BY <1>3 DEF LoadWhere, queryVars, WhereRefused, FilterBegin, FilterEnd, Filtered, Deleted, Reply
  <2> QED
    BY <2>1 DEF Culled
<1>4. CASE Sort \/ Emit \/ Accumulate \/ PutGroups \/ ReadsBeyond
  <2>1. phase' # "delete"
    BY <1>4 DEF Sort, Emit, Accumulate, PutGroups, ReadsBeyond, Reply
  <2> QED
    BY <2>1 DEF Culled
<1> QED
  BY <1>1, <1>2, <1>3, <1>4, AcceptedCulls, EndCulls DEF Next

\* A DEL by keys, or of nothing.
LEMMA DelKeysExact ==
  ASSUME QueryInv, Current, DelKeys
  PROVE  DelExact'
<1>1. /\ todo # <<>> /\ before' = data /\ asked' = Head(todo)
      /\ answer' = [kind |-> "count", count |-> Len(data) - Len(data')]
  BY DEF DelKeys, Receive, Reply
<1>2. PICK r : r = Head(todo).req
  OBVIOUS
<1>3. request' = [request EXCEPT !.keys = r.keys, !.where = r.where]
  BY <1>2 DEF DelKeys, ParsedDel
<1>4. r \in Request /\ request \in Request
  BY <1>1, <1>2, HeadTyped DEF QueryInv, QuerySorts
<1>5. request'.keys = r.keys /\ request'.where = r.where /\ r.keys \in Seq(STRING)
  BY <1>3, <1>4 DEF Request
<1>6. data' = AllErased(data, r.keys) /\ (r.keys # <<>> \/ r.where = <<>>)
  BY <1>5 DEF DelKeys, AllErased
<1>7. data \in Seq(Entry(data)) /\ KeysDiffer(data)
  BY <1>1, TableMet DEF Current, Tables
<1>8. /\ data' \in Seq(Entry(data))
      /\ \E h : Picking(data, Unnamed(data, r.keys), data', h)
  BY <1>5, <1>6, <1>7, KeysErased
<1>9. PICK named : named = {i \in DOMAIN data : data[i].key \in ToSet(r.keys)}
  OBVIOUS
<1>10. named \in SUBSET (1 .. Len(data)) /\ Unnamed(data, r.keys) = (1 .. Len(data)) \ named
  <2>1. DOMAIN data = 1 .. Len(data)
    BY <1>7
  <2> QED
    BY <1>9, <2>1 DEF Unnamed
<1>11. data' = Kept(data, DOMAIN data \ named) /\ Cardinality(named) = Len(data) - Len(data')
  BY <1>7, <1>8, <1>10, RestCounted
<1>12. r.keys = <<>> => named = {} /\ r.where = <<>>
  <2>1. r.keys = <<>> => ToSet(r.keys) = {}
    BY DEF ToSet
  <2> QED
    BY <1>6, <1>9, <2>1
<1>13. named = IF r.keys # <<>> THEN {i \in DOMAIN data : data[i].key \in ToSet(r.keys)}
                 ELSE IF r.where # <<>> THEN Picked(r.where, data) ELSE {}
  BY <1>9, <1>12
<1> QED
  BY <1>1, <1>2, <1>11, <1>13 DEF DelExact, Picked

\* A DEL by a condition.
LEMMA DeletedExact ==
  ASSUME QueryInv, Current, Culled, Deleted
  PROVE  DelExact'
<1>1. /\ phase = "delete" /\ p > Len(data) /\ UNCHANGED <<data, before, asked>>
      /\ answer' = [kind |-> "count", count |-> Len(before) - Len(data)]
  BY DEF Deleted, Reply
<1>2. /\ p = Len(data) + 1 /\ Len(data) \in Nat /\ data \in Seq(Entry(before))
      /\ before \in Seq(Entry(before))
  BY <1>1 DEF QueryInv, QuerySorts, Deleting, Current, Tables
<1>3. asked.req.where # <<>> /\ asked.req.keys = <<>>
  BY <1>1 DEF Current, Conditioned, Asked
<1>4. PICK I, h :
      /\ I \in SUBSET (1 .. Len(before))
      /\ Picking(before, I, data, h)
      /\ \A i \in 1 .. Len(before) : i \notin I => Picks(asked.req.where, before[i].row)
      /\ \A j \in 1 .. p - 1 : ~Picks(asked.req.where, data[j].row)
  BY <1>1 DEF Culled
<1>5. PICK named : named = Picked(asked.req.where, before)
  OBVIOUS
<1>6. named \in SUBSET (1 .. Len(before))
  BY <1>2, <1>5 DEF Picked
<1>7. ASSUME NEW i \in 1 .. Len(before)
      PROVE  i \in I <=> i \notin named
  <2>1. i \in named <=> Picks(asked.req.where, before[i].row)
    BY <1>2, <1>5 DEF Picked
  <2>2. ASSUME i \in I
        PROVE  ~Picks(asked.req.where, before[i].row)
    <3>1. PICK j \in 1 .. Len(data) : h[j] = i
      BY <1>4, <2>2 DEF Picking
    <3>2. data[j] = before[i] /\ j \in 1 .. p - 1
      BY <1>2, <1>4, <3>1 DEF Picking
    <3> QED
      BY <1>4, <3>2
  <2> QED
    BY <1>4, <2>1, <2>2
<1>8. I = (1 .. Len(before)) \ named
  <2>1. \A i \in I : i \in 1 .. Len(before)
    BY <1>4
  <2> QED
    BY <1>7, <2>1
<1>9. data = Kept(before, DOMAIN before \ named) /\ Cardinality(named) = Len(before) - Len(data)
  BY <1>2, <1>4, <1>6, <1>8, RestCounted
<1> QED
  BY <1>1, <1>3, <1>5, <1>9 DEF DelExact, Picked

\* Every answer of DEL is exact.
LEMMA NextDeletesExactly ==
  ASSUME QueryInv, Current, Culled, DelExact, [Next]_vars
  PROVE  DelExact'
<1>1. CASE UNCHANGED vars
  BY <1>1 DEF vars, queryVars, DelExact, Picked, Kept
<1>2. CASE GetRefused \/ AggRefused \/ WhereRefused \/ Emit \/ PutGroups
  <2>1. answer'.kind # "count"
    BY <1>2 DEF GetRefused, AggRefused, WhereRefused, Emit, PutGroups, Reply, Failure
  <2> QED
    BY <2>1 DEF DelExact
<1>3. CASE GetParsed \/ AggParsed \/ DelWhere
  <2>1. phase' # "idle"
    BY <1>3 DEF GetParsed, AggParsed, DelWhere, BeginWhere
  <2> QED
    BY <2>1 DEF DelExact
<1>4. CASE LoadWhere \/ WhereAccepted \/ EvaluateWhere \/ FilterBegin \/ FilterEnd \/ Filtered
  <2>1. phase' # "idle"
    BY <1>4 DEF LoadWhere, WhereAccepted, EvaluateWhere, FilterBegin, FilterEnd, Filtered, queryVars
  <2> QED
    BY <2>1 DEF DelExact
<1>5. CASE DeleteBegin \/ DeleteEnd \/ Sort \/ Accumulate \/ ReadsBeyond
  <2>1. phase' # "idle"
    BY <1>5 DEF DeleteBegin, DeleteEnd, Sort, Accumulate, ReadsBeyond, queryVars
  <2> QED
    BY <2>1 DEF DelExact
<1> QED
  BY <1>1, <1>2, <1>3, <1>4, <1>5, DelKeysExact, DeletedExact DEF Next

\* In every state the request under way is as Current says, and the loop of DEL has
\* erased what Culled says.
THEOREM CurrentInductive == Spec => [](QueryInv /\ MeaningInv /\ Current /\ Culled)
<1>1. Init => Current /\ Culled
  BY InitCurrent DEF Init, Culled
<1>2. QueryInv /\ MeaningInv /\ Current /\ Culled /\ [Next]_vars => Current' /\ Culled'
  BY NextCurrent, NextCulls
<1> QED
  BY <1>1, <1>2, MeaningInductive, PTL DEF Spec

\* For any table and any requests before it: a DEL erases exactly the records with
\* the keys that it names, or else those for which its condition is true, in the
\* order in which the others stay, and answers with their number; no record is
\* skipped when the one before it is erased.
THEOREM DeletesExactly == Spec => []DelExact
<1>1. Init => DelExact
  BY DEF Init, DelExact
<1>2. QueryInv /\ Current /\ Culled /\ DelExact /\ [Next]_vars => DelExact'
  BY NextDeletesExactly
<1> QED
  BY <1>1, <1>2, CurrentInductive, PTL DEF Spec

-----------------------------------------------------------------------------
(* The records that a GET names by their keys. *)

\* The keys that a table has, by their places; the record of a key, and those of many.
There(d, keys) == {i \in 1 .. Len(keys) : At(d, keys[i]) # {}}
RowOf(d, k) == d[Min(At(d, k))].row
RowsOf(d, t) == [i \in 1 .. Len(t) |-> RowOf(d, t[i])]

\* The record of a key is one of the table.
LEMMA RowOfIs ==
  ASSUME NEW K, NEW d \in Seq([key : K, row : Row]), NEW k, At(d, k) # {}
  PROVE  /\ Min(At(d, k)) \in 1 .. Len(d) /\ d[Min(At(d, k))].key = k
         /\ RowOf(d, k) \in Row
<1>1. At(d, k) \in SUBSET Nat /\ DOMAIN d = 1 .. Len(d)
  BY DEF At
<1>2. Min(At(d, k)) \in At(d, k)
  BY <1>1, MinIsIn
<1>3. PICK m : m = Min(At(d, k))
  OBVIOUS
<1>4. m \in 1 .. Len(d) /\ d[m].key = k
  BY <1>1, <1>2, <1>3 DEF At
<1>5. d[m] \in [key : K, row : Row]
  BY <1>4, ElementOfSeq
<1> QED
  BY <1>3, <1>4, <1>5 DEF RowOf

\* One key more is one record more.
LEMMA RowsMore ==
  ASSUME NEW K, NEW d \in Seq([key : K, row : Row]), NEW t \in Seq(STRING), NEW k \in STRING,
         \A i \in 1 .. Len(t) : At(d, t[i]) # {}, At(d, k) # {}
  PROVE  RowsOf(d, Append(t, k)) = Append(RowsOf(d, t), RowOf(d, k))
<1>1. PICK n \in Nat : n = Len(t)
  OBVIOUS
<1>2. \A i \in 1 .. n : RowOf(d, t[i]) \in Row
  BY <1>1, RowOfIs
<1>3. PICK r : r = RowsOf(d, t)
  OBVIOUS
<1>4. r = [i \in 1 .. n |-> RowOf(d, t[i])]
  BY <1>1, <1>3 DEF RowsOf
<1>5. r \in Seq(Row) /\ Len(r) = n /\ \A i \in 1 .. n : r[i] = RowOf(d, t[i])
  BY <1>1, <1>2, <1>4, IsASeq
<1>6. PICK x \in Row : x = RowOf(d, k)
  BY RowOfIs
<1>7. PICK a : a = Append(r, x)
  OBVIOUS
<1>8. /\ a \in Seq(Row) /\ Len(a) = n + 1 /\ a[n + 1] = x /\ \A i \in 1 .. n : a[i] = r[i]
  BY <1>1, <1>5, <1>6, <1>7
<1>9. PICK u : u = Append(t, k)
  OBVIOUS
<1>10. Len(u) = n + 1 /\ u[n + 1] = k /\ \A i \in 1 .. n : u[i] = t[i]
  BY <1>1, <1>9
<1>11. \A i \in 1 .. n + 1 : a[i] = RowOf(d, u[i])
  <2>1. ASSUME NEW i \in 1 .. n + 1
        PROVE  a[i] = RowOf(d, u[i])
    <3>1. CASE i = n + 1
      BY <1>6, <1>8, <1>10, <3>1
    <3>2. CASE i # n + 1
      <4>1. i \in 1 .. n
        BY <1>1, <3>2
      <4> QED
        BY <1>5, <1>8, <1>10, <4>1
    <3> QED
      BY <3>1, <3>2
  <2> QED
    BY <2>1
<1>12. a = [i \in 1 .. n + 1 |-> a[i]]
  BY <1>1, <1>8
<1>13. a = [i \in 1 .. n + 1 |-> RowOf(d, u[i])]
  BY <1>11, <1>12
<1> QED
  BY <1>3, <1>6, <1>7, <1>9, <1>10, <1>13 DEF RowsOf

\* r has the records of those of the first n keys that there are.
Gathered(keys, r, n) ==
  \E t \in Seq(STRING) : /\ \E h : Picking(keys, Till(There(data, keys), n), t, h)
                         /\ r = RowsOf(data, t)

\* What is picked of the keys that there are is there.
LEMMA PickedThere ==
  ASSUME NEW keys \in Seq(STRING), NEW I \in SUBSET There(data, keys), NEW t \in Seq(STRING), NEW h,
         Picking(keys, I, t, h)
  PROVE  \A i \in 1 .. Len(t) : At(data, t[i]) # {}
<1>1. ASSUME NEW i \in 1 .. Len(t)
      PROVE  At(data, t[i]) # {}
  <2>1. h[i] \in I /\ t[i] = keys[h[i]]
    BY <1>1 DEF Picking
  <2>2. h[i] \in There(data, keys)
    BY <2>1
  <2> QED
    BY <2>1, <2>2 DEF There
<1> QED
  BY <1>1

\* The next key brings its record, if there is one.
LEMMA GatheredMore ==
  ASSUME NEW K, data \in Seq([key : K, row : Row]), NEW keys \in Seq(STRING),
         NEW n \in 0 .. Len(keys) - 1, NEW r, Gathered(keys, r, n)
  PROVE  Gathered(keys, Select(r, keys[n + 1]), n + 1)
<1>0. PICK N \in Nat : N = Len(keys)
  OBVIOUS
<1>1. PICK I : I = There(data, keys)
  OBVIOUS
<1>2. I \in SUBSET (1 .. Len(keys))
  BY <1>1 DEF There
<1>3. PICK t \in Seq(STRING) : (\E h : Picking(keys, Till(I, n), t, h)) /\ r = RowsOf(data, t)
  BY <1>1 DEF Gathered
<1>4. PICK h : Picking(keys, Till(I, n), t, h)
  BY <1>3
<1>5. PICK u : u = IF n + 1 \in I THEN Append(t, keys[n + 1]) ELSE t
  OBVIOUS
<1>6. u \in Seq(STRING) /\ \E g : Picking(keys, Till(I, n + 1), u, g)
  BY <1>2, <1>4, <1>5, SomeMore
<1>7. n + 1 \in 1 .. Len(keys)
  BY <1>0
<1>8. PICK k \in STRING : k = keys[n + 1]
  BY <1>7, ElementOfSeq
<1>9. Till(I, n) \in SUBSET There(data, keys)
  BY <1>1 DEF Till
<1>10. Select(r, k) = RowsOf(data, u)
  <2>1. CASE n + 1 \in I
    <3>1. At(data, k) # {}
      BY <1>1, <1>8, <2>1 DEF There
    <3>2. \A i \in 1 .. Len(t) : At(data, t[i]) # {}
      BY <1>4, <1>9, PickedThere
    <3>3. RowsOf(data, Append(t, k)) = Append(RowsOf(data, t), RowOf(data, k))
      BY <3>1, <3>2, RowsMore
    <3>4. Select(r, k) = Append(r, RowOf(data, k))
      BY <3>1 DEF Select, RowOf
    <3> QED
      BY <1>3, <1>5, <1>8, <2>1, <3>3, <3>4
  <2>2. CASE n + 1 \notin I
    <3>1. At(data, k) = {}
      BY <1>1, <1>7, <1>8, <2>2 DEF There
    <3> QED
      BY <1>3, <1>5, <2>2, <3>1 DEF Select
  <2> QED
    BY <2>1, <2>2
<1> QED
  BY <1>1, <1>6, <1>8, <1>10 DEF Gathered

\* All of the keys bring the records of those that there are.
LEMMA GatheredAll ==
  ASSUME NEW K, data \in Seq([key : K, row : Row]), NEW keys \in Seq(STRING)
  PROVE  Gathered(keys, Selected(keys), Len(keys))
<1>0. PICK N \in Nat : N = Len(keys)
  OBVIOUS
<1>1. PICK f : SelectsBy(keys, f)
  BY SelectedSteps
<1>2. There(data, keys) \in SUBSET (1 .. N)
  BY <1>0 DEF There
<1> DEFINE T == {n \in 0 .. N : Gathered(keys, f[n], n)}
<1>3. 0 \in T
  <2>1. Till(There(data, keys), 0) = {}
    BY <1>2, TillEnds
  <2>2. Picking(keys, Till(There(data, keys), 0), <<>>, <<>>)
    BY <2>1, NonePicked
  <2>3. RowsOf(data, <<>>) = <<>> /\ <<>> \in Seq(STRING)
    BY DEF RowsOf
  <2>4. f[0] = <<>>
    BY <1>1 DEF SelectsBy
  <2>5. Gathered(keys, f[0], 0)
    BY <2>2, <2>3, <2>4 DEF Gathered
  <2> QED
    BY <1>0, <2>5
<1>4. ASSUME NEW n \in 0 .. N - 1, n \in T
      PROVE  n + 1 \in T
  <2>1. n + 1 \in 1 .. N /\ (n + 1) - 1 = n /\ n + 1 \in 0 .. N
    BY <1>0
  <2>2. f[n + 1] = Select(f[n], keys[n + 1])
    BY <1>0, <1>1, <2>1 DEF SelectsBy
  <2>3. Gathered(keys, f[n], n)
    BY <1>4
  <2>4. Gathered(keys, Select(f[n], keys[n + 1]), n + 1)
    BY <1>0, <2>3, GatheredMore
  <2> QED
    BY <2>1, <2>2, <2>4
<1>5. N \in T
  <2> HIDE DEF T
  <2>1. \A n \in 0 .. N : n \in T
    BY <1>3, <1>4, Climb
  <2> QED
    BY <1>0, <2>1
<1> QED
  BY <1>0, <1>1, <1>5 DEF SelectsBy

\* The records that ByKeys finds.
Looked(d, t) == [i \in DOMAIN t |-> d[CHOOSE j \in DOMAIN d : d[j].key = t[i]]]

\* What GET selects by keys is what the reference says, and of the table.
LEMMA SelectedIs ==
  ASSUME NEW K, data \in Seq([key : K, row : Row]), KeysDiffer(data), NEW keys \in Seq(STRING)
  PROVE  /\ Selected(keys) = Records(ByKeys(keys, data))
         /\ ByKeys(keys, data) \in Seq({data[i] : i \in 1 .. Len(data)})
<1>1. PICK t \in Seq(STRING) :
        (\E h : Picking(keys, Till(There(data, keys), Len(keys)), t, h)) /\ Selected(keys) = RowsOf(data, t)
  BY GatheredAll DEF Gathered
<1>2. PICK h : Picking(keys, Till(There(data, keys), Len(keys)), t, h)
  BY <1>1
<1>3. PICK I : I = There(data, keys)
  OBVIOUS
<1>4. I \in SUBSET (1 .. Len(keys)) /\ Len(keys) \in Nat
  BY <1>3 DEF There
<1>5. Till(I, Len(keys)) = I
  BY <1>4, TillEnds
<1>6. Picking(keys, I, t, h)
  BY <1>2, <1>3, <1>5
<1>7. Kept(keys, I) = t
  BY <1>4, <1>6, KeptIs
<1>8. Kept(keys, {i \in DOMAIN keys : At(data, keys[i]) # {}}) = t
  <2>1. {i \in DOMAIN keys : At(data, keys[i]) # {}} = I
    BY <1>3 DEF There
  <2> QED
    BY <1>7, <2>1
<1> DEFINE Place(k) == CHOOSE j \in DOMAIN data : data[j].key = k
<1>9. ByKeys(keys, data) = [i \in DOMAIN t |-> data[Place(t[i])]]
  <2>1. ByKeys(keys, data) = Looked(data, Kept(keys, {i \in DOMAIN keys : At(data, keys[i]) # {}}))
    BY DEF ByKeys, Looked
  <2>2. ByKeys(keys, data) = Looked(data, t)
    BY <1>8, <2>1
  <2> QED
    BY <2>2 DEF Looked
<1>10. DOMAIN t = 1 .. Len(t) /\ Len(t) \in Nat /\ DOMAIN data = 1 .. Len(data)
  OBVIOUS
<1>11. \A i \in 1 .. Len(t) : At(data, t[i]) # {}
  BY <1>3, <1>6, PickedThere
<1>12. ASSUME NEW i \in 1 .. Len(t)
       PROVE  Place(t[i]) = Min(At(data, t[i])) /\ Place(t[i]) \in 1 .. Len(data)
  <2>1. PICK m : m = Min(At(data, t[i]))
    OBVIOUS
  <2>2. m \in 1 .. Len(data) /\ data[m].key = t[i]
    BY <1>11, <1>12, <2>1, RowOfIs
  <2>3. \E j \in DOMAIN data : data[j].key = t[i]
    BY <1>10, <2>2
  <2>4. Place(t[i]) \in DOMAIN data /\ data[Place(t[i])].key = t[i]
    BY <2>3
  <2> HIDE DEF Place
  <2>5. Place(t[i]) = m
    BY <1>10, <2>2, <2>4, OnePlace
  <2> QED
    BY <2>1, <2>2, <2>5
<1> HIDE DEF Place
<1>13. PICK b : b = ByKeys(keys, data)
  OBVIOUS
<1>14. b = [i \in 1 .. Len(t) |-> data[Place(t[i])]]
  BY <1>9, <1>10, <1>13
<1>15. PICK D : D = {data[j] : j \in 1 .. Len(data)}
  OBVIOUS
<1>16. b \in Seq(D)
  <2>1. \A i \in 1 .. Len(t) : data[Place(t[i])] \in D
    BY <1>12, <1>15
  <2> QED
    BY <1>10, <1>14, <2>1, IsASeq
<1>17. DOMAIN b = 1 .. Len(t) /\ \A i \in 1 .. Len(t) : b[i].row = RowOf(data, t[i])
  BY <1>12, <1>14 DEF RowOf
<1>18. Records(b) = [i \in 1 .. Len(t) |-> RowOf(data, t[i])]
  BY <1>17 DEF Records
<1> QED
  BY <1>1, <1>13, <1>15, <1>16, <1>18 DEF RowsOf

-----------------------------------------------------------------------------
(* What the filter keeps. *)

\* The records that a request looks at, what is read of them, and which it asks for.
SourceOf(m, d) == IF m.op = "GET" /\ m.req.keys # <<>> THEN ByKeys(m.req.keys, d) ELSE d
RowsOfSource == Records(SourceOf(asked, before))
Wish == Picked(asked.req.where, SourceOf(asked, before))

\* They are records of the table.
LEMMA SourceIs ==
  ASSUME QueryInv, Current, NEW m \in Message, NEW s, s = SourceOf(m, data),
         NEW w, w = Records(s), NEW I, I = Picked(m.req.where, s)
  PROVE  /\ w \in Seq(Row) /\ Len(w) \in Nat /\ I \in SUBSET (1 .. Len(w))
         /\ \A i \in 1 .. Len(w) : \E j \in 1 .. Len(data) : w[i] = data[j].row
         /\ \A i \in 1 .. Len(w) : i \in I <=> Picks(m.req.where, w[i])
<1>1. /\ data \in Seq(Entry(before)) /\ KeysDiffer(data)
      /\ data \in Seq([key : {e.key : e \in ToSet(before)}, row : Row])
  BY DEF QueryInv, QuerySorts, Current, Tables, Entry
<1>2. PICK D : D = {data[i] : i \in 1 .. Len(data)}
  OBVIOUS
<1>3. PICK n \in Nat : n = Len(data)
  BY <1>1
<1>4. s \in Seq(D)
  <2>1. CASE m.op = "GET" /\ m.req.keys # <<>>
    <3>1. m.req.keys \in Seq(STRING)
      BY DEF Message, Request
    <3>2. ByKeys(m.req.keys, data) \in Seq({data[i] : i \in 1 .. Len(data)})
      BY <1>1, <3>1, SelectedIs
    <3> QED
      BY <1>2, <2>1, <3>2 DEF SourceOf
  <2>2. CASE ~(m.op = "GET" /\ m.req.keys # <<>>)
    <3>1. s = data
      BY <2>2 DEF SourceOf
    <3>2. data = [i \in 1 .. n |-> data[i]]
      BY <1>1, <1>3
    <3>3. \A i \in 1 .. n : data[i] \in D
      BY <1>2, <1>3
    <3>4. data \in Seq(D)
      BY <3>2, <3>3, IsASeq
    <3> QED
      BY <3>1, <3>4
  <2> QED
    BY <2>1, <2>2
<1>5. PICK k \in Nat : k = Len(s)
  BY <1>4
<1>6. DOMAIN s = 1 .. k
  BY <1>4, <1>5
<1>7. w = [i \in 1 .. k |-> s[i].row]
  BY <1>6 DEF Records
<1>8. ASSUME NEW i \in 1 .. k
      PROVE  w[i] \in Row /\ w[i] = s[i].row /\ \E j \in 1 .. Len(data) : w[i] = data[j].row
  <2>1. s[i] \in D
    BY <1>4, <1>5, ElementOfSeq
  <2>2. PICK j \in 1 .. Len(data) : s[i] = data[j]
    BY <1>2, <2>1
  <2>3. data[j] \in [key : {e.key : e \in ToSet(before)}, row : Row]
    BY <1>1, ElementOfSeq
  <2> QED
    BY <1>7, <2>2, <2>3
<1>9. w \in Seq(Row) /\ Len(w) = k
  <2>1. \A i \in 1 .. k : s[i].row \in Row
    BY <1>8
  <2>2. w \in Seq(Row)
    BY <1>5, <1>7, <2>1, IsASeq
  <2> QED
    BY <1>5, <1>7, <2>2
<1>10. I = {i \in 1 .. k : Picks(m.req.where, s[i].row)}
  BY <1>6 DEF Picked
<1>11. I \in SUBSET (1 .. k) /\ \A i \in 1 .. k : i \in I <=> Picks(m.req.where, s[i].row)
  BY <1>10
<1>12. \A i \in 1 .. k : i \in I <=> Picks(m.req.where, w[i])
  BY <1>8, <1>11
<1> QED
  BY <1>5, <1>8, <1>9, <1>11, <1>12

\* A filter that is at p has kept the records asked for of the first p - 1, and not
\* yet written where it has still to read.
Sieved(w, I, h) ==
  /\ Len(found) = Len(w) /\ \A i \in p .. Len(w) : found[i] = w[i]
  /\ Picking(w, Till(I, p - 1), SubSeq(found, 1, size), h)

\* The records kept, in an order that the request allows.
Arranged(w) ==
  \E f \in Bijection(DOMAIN w, DOMAIN w) :
    /\ found = [i \in DOMAIN w |-> w[f[i]]]
    /\ \A i, j \in DOMAIN w :
         i < j => ~Precedes(Counted(asked.req.order, before), found[j], found[i])

\* What read_data_ holds in each phase.
Sifted ==
  /\ phase = "where" /\ Op # "DEL" => found = RowsOfSource
  /\ phase = "filter" => \E h : Sieved(RowsOfSource, Wish, h)
  /\ phase \in {"sort", "group"} => found = Kept(RowsOfSource, Wish)
  /\ phase = "emit" => Arranged(Kept(RowsOfSource, Wish))

\* The records looked at while a request is under way.
LEMMA SourceNow ==
  ASSUME QueryInv, Current, phase \notin {"idle", "delete"},
         NEW w, w = RowsOfSource, NEW I, I = Wish
  PROVE  /\ w \in Seq(Row) /\ Len(w) \in Nat /\ I \in SUBSET (1 .. Len(w))
         /\ \A i \in 1 .. Len(w) : \E j \in 1 .. Len(before) : w[i] = before[j].row
         /\ \A i \in 1 .. Len(w) : i \in I <=> Picks(asked.req.where, w[i])
<1>1. data = before /\ asked = Head(todo) /\ todo # <<>>
  BY DEF Current, Tables, Asked, QueryInv, QuerySorts
<1>2. asked \in Message
  BY <1>1, HeadTyped DEF QueryInv
<1>3. PICK s : s = SourceOf(asked, data)
  OBVIOUS
<1>4. w = Records(s) /\ I = Picked(asked.req.where, s)
  BY <1>1, <1>3 DEF RowsOfSource, Wish
<1> QED
  BY <1>1, <1>2, <1>3, <1>4, SourceIs

\* Without a condition all records are kept.
LEMMA AllKept ==
  ASSUME NEW w \in Seq(Row), NEW I, I = 1 .. Len(w)
  PROVE  Kept(w, I) = w
<1>1. PICK h : Picking(w, 1 .. Len(w), w, h)
  BY AllPicked
<1>2. I \in SUBSET (1 .. Len(w))
  OBVIOUS
<1> QED
  BY <1>1, <1>2, KeptIs

\* A request that is parsed begins with the records that it looks at.
LEMMA ParsedSifted ==
  ASSUME QueryInv, Current, GetParsed \/ AggParsed
  PROVE  Sifted'
<1>0. PICK m : m = Head(todo)
  OBVIOUS
<1>1. /\ asked' = m /\ before' = data /\ todo # <<>> /\ todo' = todo
      /\ m.op = IF GetParsed THEN "GET" ELSE "AGG"
  BY <1>0 DEF GetParsed, AggParsed, Receive, Op
<1>2. m \in Message
  BY <1>0, <1>1, HeadTyped DEF QueryInv
<1>3. m.req \in Request /\ request \in Request /\ m.req.keys \in Seq(STRING)
  BY <1>2 DEF QueryInv, QuerySorts, Message, Request
<1>4. /\ data \in Seq([key : {e.key : e \in ToSet(before)}, row : Row]) /\ KeysDiffer(data)
  BY DEF QueryInv, QuerySorts, Current, Tables, Entry
<1>5. PICK s : s = SourceOf(m, data)
  OBVIOUS
<1>6. PICK w : w = Records(s)
  OBVIOUS
<1>7. PICK I : I = Picked(m.req.where, s)
  OBVIOUS
<1>8. w = RowsOfSource' /\ I = Wish'
  BY <1>1, <1>5, <1>6, <1>7 DEF RowsOfSource, Wish
<1>9. /\ w \in Seq(Row) /\ Len(w) \in Nat /\ I \in SUBSET (1 .. Len(w))
      /\ \A i \in 1 .. Len(w) : i \in I <=> Picks(m.req.where, w[i])
  BY <1>2, <1>5, <1>6, <1>7, SourceIs
<1>10. found' = w /\ (phase' = "where" \/ (phase' \in {"sort", "group"} /\ m.req.where = <<>>))
  <2>1. CASE GetParsed
    <3>1. request' = Parsed(m.req)
      BY <1>0, <2>1 DEF GetParsed
    <3>2. request'.keys = m.req.keys /\ request'.where = m.req.where
      BY <1>3, <3>1 DEF Parsed, Request
    <3>3. Selected(m.req.keys) = Records(ByKeys(m.req.keys, data))
      BY <1>3, <1>4, SelectedIs
    <3>4. found' = IF m.req.keys = <<>> THEN Records(data) ELSE Selected(m.req.keys)
      BY <2>1, <3>2 DEF GetParsed
    <3>5. BeginWhere(m.req.where, "sort")
      BY <2>1, <3>2 DEF GetParsed
    <3>6. m.op = "GET"
      BY <1>1, <2>1
    <3>7. found' = w
      BY <1>5, <1>6, <3>3, <3>4, <3>6 DEF SourceOf
    <3> QED
      BY <3>5, <3>7, BeginCurrent
  <2>2. CASE AggParsed /\ ~GetParsed
    <3>1. request' = [request EXCEPT !.aggs = m.req.aggs, !.where = m.req.where, !.group = m.req.group]
      BY <1>0, <2>2 DEF AggParsed
    <3>2. request'.where = m.req.where
      BY <1>3, <3>1 DEF Request
    <3>3. BeginWhere(m.req.where, "group") /\ found' = Records(data)
      BY <2>2, <3>2 DEF AggParsed
    <3>4. s = data
      BY <1>1, <1>5, <2>2 DEF SourceOf
    <3> QED
      BY <1>6, <3>3, <3>4, BeginCurrent
  <2> QED
    BY <2>1, <2>2
<1>11. CASE phase' = "where"
  BY <1>8, <1>10, <1>11 DEF Sifted
<1>12. CASE phase' \in {"sort", "group"} /\ m.req.where = <<>>
  <2>1. \A i \in 1 .. Len(w) : i \in I
    BY <1>9, <1>12 DEF Picks
  <2>2. \A i \in I : i \in 1 .. Len(w)
    BY <1>9
  <2>3. I = 1 .. Len(w)
    BY <2>1, <2>2
  <2>4. Kept(w, I) = w
    BY <1>9, <2>3, AllKept
  <2>5. found' = Kept(RowsOfSource, Wish)'
    BY <1>8, <1>10, <2>4
  <2> QED
    BY <1>12, <2>5 DEF Sifted
<1> QED
  BY <1>10, <1>11, <1>12

-----------------------------------------------------------------------------
(* The loop of the filter. *)

\* Nothing of this is about steps that change none of its members.
LEMMA StutterSifted ==
  ASSUME Sifted, UNCHANGED <<todo, phase, found, p, size, asked, before>>
  PROVE  Sifted'
<1>1. RowsOfSource' = RowsOfSource /\ Wish' = Wish
  BY DEF RowsOfSource, Wish
<1>2. Kept(RowsOfSource, Wish)' = Kept(RowsOfSource, Wish)
  BY <1>1
<1>3. \A w : Arranged(w) => Arranged(w)'
  BY DEF Arranged
<1>4. \A w, I, h : Sieved(w, I, h) => Sieved(w, I, h)'
  BY DEF Sieved
<1>5. Op' = Op
  BY DEF Op
<1>6. PICK w : w = RowsOfSource
  OBVIOUS
<1>7. PICK I : I = Wish
  OBVIOUS
<1>8. PICK k : k = Kept(w, I)
  OBVIOUS
<1>9. (\E h : Sieved(w, I, h)) => (\E h : Sieved(w, I, h)')
  BY <1>4
<1>10. Arranged(k) => Arranged(k)'
  BY <1>3
<1> QED
  BY <1>1, <1>5, <1>6, <1>7, <1>8, <1>9, <1>10 DEF Sifted

\* A filter begins with nothing kept.
LEMMA AcceptedSifts ==
  ASSUME QueryInv, Current, Sifted, WhereAccepted
  PROVE  Sifted'
<1>1. /\ phase = "where" /\ phase' = IF Op = "DEL" THEN "delete" ELSE "filter"
      /\ p' = 1 /\ size' = 0 /\ found' = found
  BY DEF WhereAccepted
<1>2. RowsOfSource' = RowsOfSource /\ Wish' = Wish
  BY DEF WhereAccepted, RowsOfSource, Wish
<1>3. CASE Op = "DEL"
  BY <1>1, <1>3 DEF Sifted
<1>4. CASE Op # "DEL"
  <2>1. PICK w : w = RowsOfSource
    OBVIOUS
  <2>2. PICK I : I = Wish
    OBVIOUS
  <2>3. found = w
    BY <1>1, <1>4, <2>1 DEF Sifted
  <2>4. w \in Seq(Row) /\ Len(w) \in Nat /\ I \in SUBSET (1 .. Len(w))
    BY <1>1, <2>1, <2>2, SourceNow
  <2>5. p' - 1 = 0
    BY <1>1
  <2>6. Till(I, p' - 1) = {}
    BY <2>4, <2>5, TillEnds
  <2>7. SubSeq(found', 1, size') = <<>>
    BY <1>1, <2>3, <2>4
  <2>8. PICK h : h = <<>>
    OBVIOUS
  <2>9. Picking(w, Till(I, p' - 1), SubSeq(found', 1, size'), h)
    BY <2>6, <2>7, NonePicked
  <2>10. Sieved(w, I, h)'
    BY <1>1, <2>3, <2>9 DEF Sieved
  <2> QED
    BY <1>1, <1>2, <1>4, <2>1, <2>2, <2>10 DEF Sifted
<1> QED
  BY <1>3, <1>4

\* Writing behind what was kept appends to it.
LEMMA WrittenBehind ==
  ASSUME NEW S, NEW s \in Seq(S), NEW n \in Nat, n < Len(s), NEW x \in S, NEW t, t = [s EXCEPT ![n + 1] = x]
  PROVE  /\ Len(t) = Len(s) /\ SubSeq(t, 1, n + 1) = Append(SubSeq(s, 1, n), x)
         /\ \A i \in n + 2 .. Len(s) : t[i] = s[i]
<1>0. PICK N \in Nat : N = Len(s)
  OBVIOUS
<1>1. n + 1 \in 1 .. Len(s) /\ n + 1 \in 1 .. N /\ n \in 0 .. N
  BY <1>0
<1>2. t \in Seq(S) /\ Len(t) = N /\ \A i \in 1 .. N : t[i] = IF i = n + 1 THEN x ELSE s[i]
  BY <1>0, <1>1, ExceptSeq
<1>3. PICK a : a = SubSeq(s, 1, n)
  OBVIOUS
<1>4. a \in Seq(S) /\ Len(a) = n /\ \A i \in 1 .. n : a[i] = s[i]
  BY <1>0, <1>1, <1>3
<1>5. PICK b : b = Append(a, x)
  OBVIOUS
<1>6. b \in Seq(S) /\ Len(b) = n + 1 /\ b[n + 1] = x /\ \A i \in 1 .. n : b[i] = a[i]
  BY <1>4, <1>5
<1>7. PICK c : c = SubSeq(t, 1, n + 1)
  OBVIOUS
<1>8. c \in Seq(S) /\ Len(c) = n + 1 /\ \A i \in 1 .. n + 1 : c[i] = t[i]
  BY <1>1, <1>2, <1>7
<1>9. ASSUME NEW i \in 1 .. n + 1
      PROVE  c[i] = b[i]
  <2>1. i \in 1 .. N /\ c[i] = t[i]
    BY <1>1, <1>8
  <2>2. CASE i = n + 1
    BY <1>2, <1>6, <2>1, <2>2
  <2>3. CASE i # n + 1
    <3>1. i \in 1 .. n
      BY <2>3
    <3> QED
      BY <1>2, <1>4, <1>6, <2>1, <2>3, <3>1
  <2> QED
    BY <2>2, <2>3
<1>10. c = b
  BY <1>6, <1>8, <1>9, SeqEqual
<1>11. \A i \in n + 2 .. N : t[i] = s[i]
  BY <1>1, <1>2
<1> QED
  BY <1>0, <1>2, <1>3, <1>5, <1>7, <1>10, <1>11

\* The record read is kept exactly if it is asked for.
LEMMA FilterEndSifts ==
  ASSUME QueryInv, MeaningInv, Current, Sifted, FilterEnd
  PROVE  Sifted'
<1>1. /\ phase = "filter" /\ phase' = "filter" /\ pc = "evaluate" /\ EndEvaluate /\ p' = p + 1
      /\ found' = IF Result = "T" THEN [found EXCEPT ![size + 1] = value] ELSE found
      /\ size' = IF Result = "T" THEN size + 1 ELSE size
  BY DEF FilterEnd, EndEvaluate
<1>2. /\ size \in Nat /\ p \in Nat /\ size < p /\ p <= Len(found) /\ value \in Row
      /\ found \in Seq(Row) /\ LogicalInv
  BY <1>1 DEF QueryInv, QuerySorts, Filtering
<1>3. /\ asked.req.where # <<>> /\ ex = asked.req.where /\ value = found[p]
  BY <1>1 DEF Current, Conditioned, AtCursor
<1>4. Result = "T" <=> Picks(asked.req.where, value)
  BY <1>1, <1>2, <1>3, ResultPicks
<1>5. PICK w : w = RowsOfSource
  OBVIOUS
<1>6. PICK I : I = Wish
  OBVIOUS
<1>7. /\ w \in Seq(Row) /\ Len(w) \in Nat /\ I \in SUBSET (1 .. Len(w))
      /\ \A i \in 1 .. Len(w) : i \in I <=> Picks(asked.req.where, w[i])
  BY <1>1, <1>5, <1>6, SourceNow
<1>8. PICK h : Sieved(w, I, h)
  BY <1>1, <1>5, <1>6 DEF Sifted
<1>9. PICK n : n = p - 1
  OBVIOUS
<1>10. Len(found) = Len(w) /\ n \in 0 .. Len(w) - 1 /\ n + 1 = p /\ p \in 1 .. Len(w) /\ size <= n
  BY <1>2, <1>7, <1>8, <1>9 DEF Sieved
<1>11. Picking(w, Till(I, n), SubSeq(found, 1, size), h) /\ \A i \in p .. Len(w) : found[i] = w[i]
  BY <1>8, <1>9 DEF Sieved
<1>12. PICK r : r = SubSeq(found, 1, size)
  OBVIOUS
<1>13. r \in Seq(Row)
  BY <1>2, <1>12
<1>14. w[p] = value
  BY <1>3, <1>7, <1>10, <1>11
<1>15. n + 1 \in I <=> Result = "T"
  BY <1>4, <1>7, <1>10, <1>14
<1>16. PICK t : t = IF n + 1 \in I THEN Append(r, w[n + 1]) ELSE r
  OBVIOUS
<1>17. \E g : Picking(w, Till(I, n + 1), t, g)
  BY <1>7, <1>10, <1>11, <1>12, <1>13, <1>16, SomeMore
<1>18. /\ Len(found') = Len(w) /\ t = SubSeq(found', 1, size')
       /\ \A i \in p + 1 .. Len(w) : found'[i] = w[i]
  <2>1. CASE Result = "T"
    <3>1. found' = [found EXCEPT ![size + 1] = value] /\ size' = size + 1
      BY <1>1, <2>1
    <3>2. size < Len(found)
      BY <1>2
    <3>3. /\ Len(found') = Len(found) /\ SubSeq(found', 1, size + 1) = Append(SubSeq(found, 1, size), value)
          /\ \A i \in size + 2 .. Len(found) : found'[i] = found[i]
      BY <1>2, <3>1, <3>2, WrittenBehind
    <3>4. t = Append(r, value)
      BY <1>10, <1>14, <1>15, <1>16, <2>1
    <3>5. \A i \in p + 1 .. Len(w) : i \in size + 2 .. Len(found) /\ i \in p .. Len(w)
      BY <1>2, <1>7, <1>10
    <3> QED
      BY <1>10, <1>11, <1>12, <3>1, <3>3, <3>4, <3>5
  <2>2. CASE Result # "T"
    <3>1. found' = found /\ size' = size /\ t = r
      BY <1>1, <1>15, <1>16, <2>2
    <3>2. \A i \in p + 1 .. Len(w) : i \in p .. Len(w)
      BY <1>2, <1>7
    <3> QED
      BY <1>10, <1>11, <1>12, <3>1, <3>2
  <2> QED
    BY <2>1, <2>2
<1>19. p' - 1 = n + 1 /\ p' = p + 1
  BY <1>1, <1>2, <1>9
<1>20. \E g : Sieved(w, I, g)'
  BY <1>17, <1>18, <1>19 DEF Sieved
<1>21. RowsOfSource' = w /\ Wish' = I
  BY <1>5, <1>6 DEF FilterEnd, RowsOfSource, Wish
<1> QED
  BY <1>1, <1>20, <1>21 DEF Sifted

\* At the end of the filter exactly the records asked for are kept.
LEMMA FilteredSifts ==
  ASSUME QueryInv, Current, Sifted, Filtered
  PROVE  Sifted'
<1>1. /\ phase = "filter" /\ pc = "ready" /\ p > Len(found) /\ found' = SubSeq(found, 1, size)
      /\ phase' \in {"sort", "group"}
  BY DEF Filtered
<1>2. p \in Nat /\ p <= Len(found) + 1 /\ found \in Seq(Row) /\ size \in Nat /\ size <= Len(found)
  <2>1. size \in Nat /\ p \in Nat /\ size < p /\ p <= Len(found) + 1 /\ found \in Seq(Row)
    BY <1>1 DEF QueryInv, QuerySorts, Filtering
  <2>2. PICK n \in Nat : n = Len(found)
    BY <2>1
  <2> QED
    BY <2>1, <2>2
<1>3. PICK w : w = RowsOfSource
  OBVIOUS
<1>4. PICK I : I = Wish
  OBVIOUS
<1>5. w \in Seq(Row) /\ Len(w) \in Nat /\ I \in SUBSET (1 .. Len(w))
  BY <1>1, <1>3, <1>4, SourceNow
<1>6. PICK h : Sieved(w, I, h)
  BY <1>1, <1>3, <1>4 DEF Sifted
<1>7. p - 1 = Len(w)
  BY <1>1, <1>2, <1>5, <1>6 DEF Sieved
<1>8. Till(I, p - 1) = I
  BY <1>5, <1>7, TillEnds
<1>9. Picking(w, I, found', h) /\ found' \in Seq(Row)
  BY <1>1, <1>2, <1>6, <1>8 DEF Sieved
<1>10. PICK r \in Seq(Row) : r = found'
  BY <1>9
<1>11. Kept(w, I) = r
  BY <1>5, <1>9, <1>10, KeptIs
<1>12. RowsOfSource' = w /\ Wish' = I
  BY <1>3, <1>4 DEF Filtered, RowsOfSource, Wish
<1>13. found' = Kept(RowsOfSource, Wish)'
  BY <1>10, <1>11, <1>12
<1> QED
  BY <1>1, <1>13 DEF Sifted

-----------------------------------------------------------------------------
(* The sort. *)

\* Signs.
LEMMA SignsTurn ==
  ASSUME NEW x \in Int, NEW y \in Int
  PROVE  /\ Sign(x - y) < 0 <=> x < y
         /\ Sign(x - y) > 0 <=> y < x
BY DEF Sign

\* Where two strings differ first.
Differ(s, t) == {i \in 1 .. Min({Len(s), Len(t)}) : s[i] # t[i]}

\* The order of two strings turns with them.
LEMMA StringsTurn ==
  ASSUME NEW s \in Seq(Nat), NEW t \in Seq(Nat), OrderOfStrings(t, s) < 0
  PROVE  OrderOfStrings(s, t) > 0
<1>1. PICK D : D = Differ(s, t)
  OBVIOUS
<1>2. D = Differ(t, s)
  <2>1. {Len(s), Len(t)} = {Len(t), Len(s)}
    OBVIOUS
  <2>2. PICK n : n = Min({Len(s), Len(t)})
    OBVIOUS
  <2>3. D = {i \in 1 .. n : s[i] # t[i]}
    BY <1>1, <2>2 DEF Differ
  <2>4. Differ(t, s) = {i \in 1 .. n : t[i] # s[i]}
    BY <2>1, <2>2 DEF Differ
  <2> QED
    BY <2>3, <2>4
<1>3. Len(s) \in Nat /\ Len(t) \in Nat
  OBVIOUS
<1>4. CASE D = {}
  <2>1. OrderOfStrings(t, s) = Sign(Len(t) - Len(s))
    BY <1>2, <1>4 DEF OrderOfStrings, Differ
  <2>2. OrderOfStrings(s, t) = Sign(Len(s) - Len(t))
    BY <1>1, <1>4 DEF OrderOfStrings, Differ
  <2>3. PICK m \in Nat : m = Len(s)
    BY <1>3
  <2>4. PICK n \in Nat : n = Len(t)
    BY <1>3
  <2> QED
    BY <2>1, <2>2, <2>3, <2>4 DEF Sign
<1>5. CASE D # {}
  <2>1. PICK m : m = Min({Len(s), Len(t)})
    OBVIOUS
  <2>2. D = {i \in 1 .. m : s[i] # t[i]}
    BY <1>1, <2>1 DEF Differ
  <2>3. {Len(s), Len(t)} \in SUBSET Nat /\ {Len(s), Len(t)} # {}
    BY <1>3
  <2>4. m \in Nat /\ m <= Len(s) /\ m <= Len(t)
    BY <1>3, <2>1, <2>3, MinIsIn
  <2>5. \A i \in D : i \in 1 .. Len(s) /\ i \in 1 .. Len(t) /\ i \in Nat
    BY <1>3, <2>2, <2>4
  <2>6. PICK j : j = Min(D)
    OBVIOUS
  <2>7. j \in D
    <3>1. D \in SUBSET Nat
      BY <2>5
    <3> QED
      BY <1>5, <2>6, <3>1, MinIsIn
  <2>8. s[j] \in Nat /\ t[j] \in Nat
    BY <2>5, <2>7, ElementOfSeq
  <2>9. OrderOfStrings(t, s) = Sign(t[j] - s[j])
    <3>1. OrderOfStrings(t, s) = Sign(t[Min(Differ(t, s))] - s[Min(Differ(t, s))])
      BY <1>2, <1>5 DEF OrderOfStrings, Differ
    <3> QED
      BY <1>2, <2>6, <3>1
  <2>10. OrderOfStrings(s, t) = Sign(s[j] - t[j])
    <3>1. OrderOfStrings(s, t) = Sign(s[Min(Differ(s, t))] - t[Min(Differ(s, t))])
      BY <1>1, <1>5 DEF OrderOfStrings, Differ
    <3> QED
      BY <1>1, <2>6, <3>1
  <2> QED
    BY <2>8, <2>9, <2>10 DEF Sign
<1> QED
  BY <1>4, <1>5

\* A byte keeps numbers of a byte.
LEMMA ByteKept ==
  ASSUME NEW n \in -128 .. 127
  PROVE  LowestByte(n) = n
<1>1. PICK k \in 0 .. 255 : k = n + 128
  OBVIOUS
<1>2. k % 256 = k
  BY <1>1
<1> QED
  BY <1>1, <1>2 DEF LowestByte

\* Where the client's order of a field counts, opt_get compares by it.
LEMMA FieldCompares ==
  ASSUME NEW f \in Field, NEW a \in Row, NEW b \in Row, FieldType[f] # "kint1",
         FieldType[f] = "kint8" => a[f] \in -128 .. 127 /\ b[f] \in -128 .. 127
  PROVE  /\ LessIn(f, a[f], b[f]) => OrderInField(f, a, b) < 0
         /\ LessIn(f, b[f], a[f]) => OrderInField(f, a, b) > 0
<1>1. a[f] \in Int /\ b[f] \in Int
  BY DEF Row
<1>2. CASE FieldType[f] = "kchar"
  <2>1. f \in CharField
    BY <1>2 DEF CharField
  <2>2. a[f] \in DOMAIN Texts /\ b[f] \in DOMAIN Texts
    BY <2>1 DEF Row
  <2>3. Texts[a[f]] \in Seq(Nat) /\ Texts[b[f]] \in Seq(Nat)
    <3>1. Texts \in Seq(Seq(Nat))
      BY ConditionAssumption
    <3>2. a[f] \in 1 .. Len(Texts) /\ b[f] \in 1 .. Len(Texts)
      BY <2>2, <3>1
    <3> QED
      BY <3>1, <3>2, ElementOfSeq
  <2>4. OrderInField(f, a, b) = OrderOfStrings(Texts[a[f]], Texts[b[f]])
    BY <1>2 DEF OrderInField
  <2>5. LessIn(f, a[f], b[f]) <=> OrderOfStrings(Texts[a[f]], Texts[b[f]]) < 0
    BY <2>1 DEF LessIn
  <2>6. LessIn(f, b[f], a[f]) <=> OrderOfStrings(Texts[b[f]], Texts[a[f]]) < 0
    BY <2>1 DEF LessIn
  <2> QED
    BY <2>3, <2>4, <2>5, <2>6, StringsTurn
<1>3. CASE FieldType[f] # "kchar"
  <2>1. f \notin CharField
    BY <1>3 DEF CharField
  <2>2. (LessIn(f, a[f], b[f]) <=> a[f] < b[f]) /\ (LessIn(f, b[f], a[f]) <=> b[f] < a[f])
    BY <2>1 DEF LessIn
  <2>3. OrderInField(f, a, b) = Sign(a[f] - b[f])
    <3>1. CASE FieldType[f] = "kint8"
      <4>1. LowestByte(a[f]) = a[f] /\ LowestByte(b[f]) = b[f]
        BY <3>1, ByteKept
      <4>2. OrderInField(f, a, b) = Sign(LowestByte(a[f]) - LowestByte(b[f]))
        BY <3>1 DEF OrderInField
      <4> QED
        BY <4>1, <4>2
    <3>2. CASE FieldType[f] # "kint8"
      BY <1>3, <3>2 DEF OrderInField
    <3> QED
      BY <3>1, <3>2
  <2> QED
    BY <1>1, <2>2, <2>3, SignsTurn
<1> QED
  BY <1>2, <1>3

\* The first field of a request's order is the one that compare looks at, if it counts.
LEMMA FirstDecides ==
  ASSUME NEW order \in Seq([id : Field, type : Int]), request.order = order, order # <<>>,
         NEW o, o = order[1], FieldType[o.id] # "kint1", NEW a, NEW b
  PROVE  Compare(a, b) <=> Goes(o, a, b)
<1>1. PICK D : D = {i \in DOMAIN request.order : FieldType[request.order[i].id] # "kint1"}
  OBVIOUS
<1>2. DOMAIN request.order = 1 .. Len(order) /\ Len(order) \in Nat /\ 1 \in 1 .. Len(order)
  OBVIOUS
<1>3. 1 \in D /\ D \in SUBSET Nat /\ \A i \in D : i >= 1
  BY <1>1, <1>2
<1>4. PICK m : m = Min(D)
  OBVIOUS
<1>5. m \in D /\ m <= 1 /\ m >= 1 /\ m \in Nat
  BY <1>3, <1>4, MinIsIn
<1>6. m = 1
  BY <1>5
<1>7. Compare(a, b) <=> Goes(request.order[Min(D)], a, b)
  BY <1>1, <1>3 DEF Compare
<1> QED
  BY <1>4, <1>6, <1>7

\* What comes first for the client comes first for compare.
LEMMA PrecedesCompares ==
  ASSUME NEW order \in Seq([id : Field, type : Int]), request.order = order,
         NEW d, NEW a \in Row, NEW b \in Row,
         \E i \in DOMAIN d : a = d[i].row, \E i \in DOMAIN d : b = d[i].row,
         Precedes(Counted(order, d), a, b)
  PROVE  Compare(a, b)
<1>1. PICK c : c = Counted(order, d)
  OBVIOUS
<1>2. PICK k \in DOMAIN c :
        LET f == c[k].id
            x == IF c[k].type = 1 THEN a ELSE b
            y == IF c[k].type = 1 THEN b ELSE a
        IN LessIn(f, x[f], y[f])
  BY <1>1 DEF Precedes
<1>3. order # <<>> /\ Counts(order[1], d) /\ c = <<order[1]>>
  <2>1. c # <<>>
    BY <1>2
  <2> QED
    BY <1>1, <2>1 DEF Counted
<1>4. PICK o : o = order[1]
  OBVIOUS
<1>5. k = 1 /\ c[k] = o
  BY <1>2, <1>3, <1>4
<1>6. o \in [id : Field, type : Int]
  <2>1. 1 \in 1 .. Len(order)
    BY <1>3
  <2> QED
    BY <1>4, <2>1, ElementOfSeq
<1>7. PICK f \in Field : f = o.id
  BY <1>6
<1>8. FieldType[f] # "kint1"
  BY <1>3, <1>4, <1>7 DEF Counts
<1>9. FieldType[f] = "kint8" => a[f] \in -128 .. 127 /\ b[f] \in -128 .. 127
  BY <1>3, <1>4, <1>7 DEF Counts
<1>10. /\ LessIn(f, a[f], b[f]) => OrderInField(f, a, b) < 0
       /\ LessIn(f, b[f], a[f]) => OrderInField(f, a, b) > 0
  BY <1>8, <1>9, FieldCompares
<1>11. IF o.type = 1 THEN LessIn(f, a[f], b[f]) ELSE LessIn(f, b[f], a[f])
  BY <1>2, <1>5, <1>7
<1>12. Goes(o, a, b)
  BY <1>7, <1>10, <1>11 DEF Goes
<1> QED
  BY <1>3, <1>4, <1>7, <1>8, <1>12, FirstDecides

\* The sort leaves the records kept, in an order that the request allows.
LEMMA SortSifts ==
  ASSUME QueryInv, Current, Sifted, Sort
  PROVE  Sifted'
<1>1. phase = "sort" /\ phase' = "emit" /\ UNCHANGED <<data, request, asked, before>>
  BY DEF Sort
<1>2. PICK w : w = Kept(RowsOfSource, Wish)
  OBVIOUS
<1>3. PICK v : v = RowsOfSource
  OBVIOUS
<1>4. PICK I : I = Wish
  OBVIOUS
<1>5. /\ v \in Seq(Row) /\ Len(v) \in Nat /\ I \in SUBSET (1 .. Len(v))
      /\ \A i \in 1 .. Len(v) : \E j \in 1 .. Len(before) : v[i] = before[j].row
  BY <1>1, <1>3, <1>4, SourceNow
<1>6. w \in Seq(Row) /\ \E h : Picking(v, I, w, h)
  BY <1>2, <1>3, <1>4, <1>5, KeptPicks
<1>7. PICK n \in Nat : n = Len(w)
  BY <1>6
<1>8. DOMAIN w = 1 .. n /\ found = w
  BY <1>1, <1>2, <1>6, <1>7 DEF Sifted
<1>9. before \in Seq(Entry(before)) /\ DOMAIN before = 1 .. Len(before)
  BY DEF Current, Tables
<1>10. ASSUME NEW i \in 1 .. n
       PROVE  w[i] \in Row /\ \E j \in DOMAIN before : w[i] = before[j].row
  <2>1. PICK h : Picking(v, I, w, h)
    BY <1>6
  <2>2. h[i] \in I /\ w[i] = v[h[i]]
    BY <1>7, <2>1 DEF Picking
  <2>3. h[i] \in 1 .. Len(v)
    BY <1>5, <2>2
  <2> QED
    BY <1>5, <1>6, <1>7, <1>9, <2>2, <2>3, ElementOfSeq
<1>11. PICK order : order = asked.req.order
  OBVIOUS
<1>12. request.order = order /\ order \in Seq([id : Field, type : Int])
  <2>1. Op = "GET"
    BY <1>1 DEF Current, Asked
  <2>2. request.order = order
    BY <1>1, <1>11, <2>1 DEF Current, Held
  <2> QED
    BY <2>2 DEF QueryInv, QuerySorts, Request
<1>13. PICK c : c = Counted(order, before)
  OBVIOUS
<1>14. \E f \in Bijection(DOMAIN w, DOMAIN w) :
         /\ found' = [i \in DOMAIN w |-> w[f[i]]]
         /\ \A i, j \in DOMAIN w : i < j => ~Precedes(c, found'[j], found'[i])
  <2>1. CASE order = <<>>
    <3>1. found' = w
      BY <1>8, <1>12, <2>1 DEF Sort
    <3>2. c = <<>>
      BY <1>13, <2>1 DEF Counted
    <3>3. \A a, b : ~Precedes(c, a, b)
      BY <3>2 DEF Precedes
    <3>4. PICK f : f = [i \in 1 .. n |-> i]
      OBVIOUS
    <3>5. f \in [1 .. n -> 1 .. n] /\ \A i \in 1 .. n : f[i] = i
      BY <3>4
    <3>6. f \in Bijection(1 .. n, 1 .. n)
      BY <3>5 DEF Bijection, Injection, Surjection, IsInjective
    <3>7. w = [i \in 1 .. n |-> w[f[i]]]
      <4>1. w = [i \in 1 .. n |-> w[i]]
        BY <1>6, <1>8
      <4> QED
        BY <3>5, <4>1
    <3> QED
      BY <1>8, <3>1, <3>3, <3>6, <3>7
  <2>2. CASE order # <<>>
    <3>1. PICK f \in Bijection(1 .. n, 1 .. n) :
            /\ found' = [i \in 1 .. n |-> w[f[i]]]
            /\ \A i, j \in 1 .. n : i < j => ~Compare(found'[j], found'[i])
      BY <1>8, <1>12, <2>2 DEF Sort
    <3>2. f \in [1 .. n -> 1 .. n]
      BY <3>1 DEF Bijection, Injection, IsInjective
    <3>3. ASSUME NEW i \in 1 .. n, NEW j \in 1 .. n, i < j
          PROVE  ~Precedes(c, found'[j], found'[i])
      <4>1. found'[i] = w[f[i]] /\ found'[j] = w[f[j]] /\ f[i] \in 1 .. n /\ f[j] \in 1 .. n
        BY <3>1, <3>2
      <4>2. PICK a : a = found'[j]
        OBVIOUS
      <4>3. PICK b : b = found'[i]
        OBVIOUS
      <4>4. /\ a \in Row /\ b \in Row /\ \E m \in DOMAIN before : a = before[m].row
            /\ \E m \in DOMAIN before : b = before[m].row
        BY <1>10, <4>1, <4>2, <4>3
      <4>5. ~Compare(a, b)
        BY <3>1, <3>3, <4>2, <4>3
      <4>6. Precedes(c, a, b) => Compare(a, b)
        BY <1>12, <1>13, <4>4, PrecedesCompares
      <4> QED
        BY <4>2, <4>3, <4>5, <4>6
    <3> QED
      BY <1>8, <3>1, <3>3
  <2> QED
    BY <2>1, <2>2
<1>15. Arranged(w)'
  BY <1>1, <1>11, <1>13, <1>14 DEF Arranged
<1>16. RowsOfSource' = v /\ Wish' = I
  BY <1>1, <1>3, <1>4 DEF RowsOfSource, Wish
<1>17. w = Kept(v, I)
  BY <1>2, <1>3, <1>4
<1>18. Kept(RowsOfSource, Wish)' = w
  BY <1>16, <1>17
<1> QED
  BY <1>1, <1>15, <1>18 DEF Sifted

\* Every step keeps what is said of read_data_.
LEMMA NextSifts ==
  ASSUME QueryInv, MeaningInv, Current, Sifted, [Next]_vars
  PROVE  Sifted'
<1>1. CASE UNCHANGED vars \/ LoadWhere \/ EvaluateWhere \/ FilterBegin \/ DeleteBegin
  <2>1. UNCHANGED <<todo, phase, found, p, size, asked, before>>
    BY <1>1 DEF vars, queryVars, LoadWhere, EvaluateWhere, FilterBegin, DeleteBegin
  <2> QED
    BY <2>1, StutterSifted
<1>2. CASE GetRefused \/ AggRefused \/ DelKeys \/ WhereRefused \/ Deleted \/ Emit \/ PutGroups
  <2>1. phase' = "idle"
    BY <1>2 DEF GetRefused, AggRefused, DelKeys, WhereRefused, Deleted, Emit, PutGroups, Reply
  <2> QED
    BY <2>1 DEF Sifted
<1>3. CASE DelWhere
  <2>1. Op' = "DEL" /\ (phase' = "where" \/ phase' = "delete")
    BY <1>3 DEF DelWhere, Receive, Op, BeginWhere
  <2> QED
    BY <2>1 DEF Sifted
<1>4. CASE DeleteEnd \/ ReadsBeyond
  <2>1. phase' \in {"delete", "undefined"}
    BY <1>4 DEF DeleteEnd, ReadsBeyond
  <2> QED
    BY <2>1 DEF Sifted
<1>5. CASE Accumulate
  <2>1. phase = "group" /\ UNCHANGED <<phase, found, asked, before>>
    BY <1>5 DEF Accumulate
  <2>2. RowsOfSource' = RowsOfSource /\ Wish' = Wish
    BY <2>1 DEF RowsOfSource, Wish
  <2>3. Kept(RowsOfSource, Wish)' = Kept(RowsOfSource, Wish)
    BY <2>2
  <2> QED
    BY <2>1, <2>3 DEF Sifted
<1> QED
  BY <1>1, <1>2, <1>3, <1>4, <1>5, ParsedSifted, AcceptedSifts, FilterEndSifts, FilteredSifts,
     SortSifts DEF Next

-----------------------------------------------------------------------------
(* The answer of GET. *)

\* The places that the loop of opt_get puts, of N records.
Puts(N, offset, n) ==
  {i \in 0 .. N - 1 : i < (IF n = -1 THEN N ELSE n) /\ offset >= 0 /\ i + offset < N}

\* The places of a slice.
Inside(N, offset, n) == {i \in 1 .. N : offset < i /\ (n = -1 \/ i <= offset + n)}

\* They are one less than the places that are asked for.
LEMMA PutsAre ==
  ASSUME NEW N \in Nat, NEW offset \in Nat, NEW n \in Int,
         NEW E, E = Puts(N, offset, n), NEW J, J = Inside(N, offset, n)
  PROVE  IsFiniteSet(E) /\ Cardinality(E) \in Nat /\ Cardinality(J) = Cardinality(E)
<1> DEFINE g == [i \in E |-> i + offset + 1]
<1>1. \A i \in E : i \in 0 .. N - 1 /\ i \in Int /\ g[i] = i + offset + 1
  BY DEF Puts
<1>2. g = [i \in E |-> g[i]]
  OBVIOUS
<1> HIDE DEF g
<1>3. ASSUME NEW i \in E
      PROVE  g[i] \in J
  <2>1. /\ i \in Int /\ 0 <= i /\ i <= N - 1 /\ g[i] = i + offset + 1 /\ i + offset < N
        /\ n = -1 \/ i < n
    BY <1>1 DEF Puts
  <2>2. PICK k \in Int : k = i + offset + 1
    BY <2>1
  <2>3. k \in 1 .. N /\ offset < k /\ (n = -1 \/ k <= offset + n)
    BY <2>1, <2>2
  <2> QED
    BY <2>1, <2>2, <2>3 DEF Inside
<1>4. g \in [E -> J]
  BY <1>2, <1>3
<1>5. ASSUME NEW i \in E, NEW k \in E, g[i] = g[k]
      PROVE  i = k
  <2>1. i \in Int /\ k \in Int /\ i + offset + 1 = k + offset + 1
    BY <1>1, <1>5
  <2> QED
    BY <2>1
<1>6. ASSUME NEW k \in J
      PROVE  \E i \in E : g[i] = k
  <2>1. k \in 1 .. N /\ offset < k /\ (n = -1 \/ k <= offset + n)
    BY DEF Inside
  <2>2. PICK i \in Int : i = k - offset - 1
    BY <2>1
  <2>3. i \in 0 .. N - 1 /\ i + offset < N /\ (n = -1 \/ i < n) /\ k = i + offset + 1 /\ i < N
    BY <2>1, <2>2
  <2>4. i \in E
    BY <2>3 DEF Puts
  <2> QED
    BY <1>1, <2>3, <2>4
<1>7. g \in Bijection(E, J)
  BY <1>4, <1>5, <1>6 DEF Bijection, Injection, Surjection, IsInjective
<1>8. ExistsBijection(E, J)
  BY <1>7 DEF ExistsBijection
<1>9. IsFiniteSet(0 .. N - 1)
  <2>1. 0 \in Int /\ N - 1 \in Int
    OBVIOUS
  <2> QED
    BY <2>1, FS_Interval
<1>10. IsFiniteSet(E)
  <2>1. E \in SUBSET (0 .. N - 1)
    BY <1>1
  <2> QED
    BY <1>9, <2>1, FS_Subset
<1>11. Cardinality(E) \in Nat
  BY <1>10, FS_CardinalityType
<1>12. Cardinality(J) = Cardinality(E)
  BY <1>8, <1>10, FS_Bijection
<1> QED
  BY <1>10, <1>11, <1>12

\* The loop puts the slice that is asked for.
LEMMA SlicePut ==
  ASSUME NEW S, NEW s \in Seq(S), NEW offset \in Int, NEW n \in Int,
         NEW E, E = Puts(Len(s), offset, n), NEW t, t = Slice(s, offset, n)
  PROVE  DOMAIN t = 1 .. Cardinality(E) /\ \A i \in DOMAIN t : t[i] = s[i + offset]
<1>1. PICK N \in Nat : N = Len(s)
  OBVIOUS
<1>2. CASE offset < 0
  <2>1. t = <<>>
    BY <1>2 DEF Slice
  <2>2. E = {}
    BY <1>2 DEF Puts
  <2>3. Cardinality(E) = 0
    BY <2>2, FS_EmptySet
  <2>4. DOMAIN t = {} /\ 1 .. 0 = {}
    BY <2>1
  <2> QED
    BY <2>3, <2>4
<1>3. CASE offset >= 0
  <2>1. PICK J : J = {i \in DOMAIN s : offset < i /\ (n = -1 \/ i <= offset + n)}
    OBVIOUS
  <2>2. J = Inside(N, offset, n)
    BY <1>1, <2>1 DEF Inside
  <2>3. Cardinality(J) = Cardinality(E) /\ Cardinality(E) \in Nat
    <3>1. E = Puts(N, offset, n) /\ offset \in Nat
      BY <1>1, <1>3
    <3> QED
      BY <2>2, <3>1, PutsAre
  <2>4. ~(offset < 0)
    BY <1>3
  <2>5. t = [i \in 1 .. Cardinality(J) |-> s[offset + i]]
    BY <2>1, <2>4 DEF Slice
  <2>6. PICK m \in Nat : m = Cardinality(E)
    BY <2>3
  <2>7. t = [i \in 1 .. m |-> s[offset + i]]
    BY <2>3, <2>5, <2>6
  <2>8. \A i \in 1 .. m : offset + i = i + offset
    OBVIOUS
  <2> QED
    BY <2>6, <2>7, <2>8
<1> QED
  BY <1>2, <1>3

\* The rows are an answer to r, if wanted are the records that r asks for.
Presents(rows, r, d, wanted, fields) ==
  \E f \in Bijection(DOMAIN wanted, DOMAIN wanted) :
    LET s == [i \in DOMAIN wanted |-> wanted[f[i]]]
        slice == Slice(s, r.offset, r.size)
    IN /\ \A i, j \in DOMAIN s : i < j => ~Precedes(Counted(r.order, d), s[j], s[i])
       /\ rows = [i \in DOMAIN slice |-> Projection(fields, slice[i])]

LEMMA PresentsAnswers ==
  ASSUME NEW rows, NEW r, NEW d,
         Presents(rows, r, d, Wanted(r.where, IF r.keys = <<>> THEN d ELSE ByKeys(r.keys, d)),
                  Requested(r.fields))
  PROVE  IsAnswerTo(rows, r, d)
BY DEF Presents, IsAnswerTo, Requested

\* What opt_get answers is right.
LEMMA EmitExact ==
  ASSUME QueryInv, Current, Sifted, Emit
  PROVE  GetExact'
<1>1. /\ phase = "emit" /\ UNCHANGED <<data, asked, before>>
      /\ answer' = [kind |-> "rows",
                    rows |-> [i \in 1 .. Cardinality(Emitted) |->
                                Projection(request.fields, found[i + request.offset])]]
  BY DEF Emit, Reply
<1>2. data = before /\ Op = "GET" /\ asked = Head(todo) /\ todo # <<>> /\ WhereFits(asked.req.where)
  BY <1>1 DEF Current, Tables, Asked, Conditioned, QueryInv, QuerySorts
<1>3. /\ request.fields = Requested(asked.req.fields) /\ request.order = asked.req.order
      /\ request.offset = asked.req.offset /\ request.size = asked.req.size
  BY <1>1, <1>2 DEF Current, Held
<1>4. PICK r : r = asked.req
  OBVIOUS
<1>5. request.offset \in Int /\ request.size \in Int
  BY DEF QueryInv, QuerySorts, Request
<1>6. PICK w : w = Kept(RowsOfSource, Wish)
  OBVIOUS
<1>7. w = Wanted(r.where, IF r.keys = <<>> THEN before ELSE ByKeys(r.keys, before))
  <2>1. asked.op = "GET"
    BY <1>2 DEF Op
  <2>2. SourceOf(asked, before) = IF r.keys = <<>> THEN before ELSE ByKeys(r.keys, before)
    BY <1>4, <2>1 DEF SourceOf
  <2>3. w = Wanted(r.where, SourceOf(asked, before))
    BY <1>4, <1>6 DEF Wanted, RowsOfSource, Wish
  <2> QED
    BY <2>2, <2>3
<1>8. PICK c : c = Counted(r.order, before)
  OBVIOUS
<1>9. PICK f \in Bijection(DOMAIN w, DOMAIN w) :
        /\ found = [i \in DOMAIN w |-> w[f[i]]]
        /\ \A i, j \in DOMAIN w : i < j => ~Precedes(c, found[j], found[i])
  BY <1>1, <1>4, <1>6, <1>8 DEF Sifted, Arranged
<1>10. found \in Seq(Row) /\ DOMAIN found = DOMAIN w
  BY <1>9 DEF QueryInv, QuerySorts
<1>11. PICK t : t = Slice(found, r.offset, r.size)
  OBVIOUS
<1>12. PICK E : E = Emitted
  OBVIOUS
<1>13. E = Puts(Len(found), r.offset, r.size)
  BY <1>3, <1>4, <1>12 DEF Emitted, Puts
<1>14. DOMAIN t = 1 .. Cardinality(E) /\ \A i \in DOMAIN t : t[i] = found[i + r.offset]
  BY <1>3, <1>4, <1>5, <1>10, <1>11, <1>13, SlicePut
<1>15. PICK fields : fields = Requested(r.fields)
  OBVIOUS
<1>16. PICK rows : rows = answer'.rows
  OBVIOUS
<1>17. rows = [i \in 1 .. Cardinality(E) |-> Projection(fields, found[i + r.offset])]
  BY <1>1, <1>3, <1>4, <1>12, <1>15, <1>16
<1>18. rows = [i \in DOMAIN t |-> Projection(fields, t[i])]
  <2>1. \A i \in 1 .. Cardinality(E) : Projection(fields, t[i]) = Projection(fields, found[i + r.offset])
    BY <1>14
  <2> QED
    BY <1>14, <1>17, <2>1
<1>19. Presents(rows, r, before, w, fields)
  BY <1>8, <1>9, <1>10, <1>11, <1>18 DEF Presents
<1>20. IsAnswerTo(rows, r, before)
  BY <1>7, <1>15, <1>19, PresentsAnswers
<1>21. answer'.kind = "rows" /\ data' = before' /\ asked'.req = r /\ before' = before
  BY <1>1, <1>2, <1>4
<1> QED
  BY <1>2, <1>4, <1>16, <1>20, <1>21 DEF GetExact

\* A GET is refused for its condition only if it is outside the grammar.
LEMMA RefusalExact ==
  ASSUME QueryInv, MeaningInv, Current, WhereRefused
  PROVE  GetExact'
<1>1. /\ phase = "where" /\ pc = "refused" /\ UNCHANGED <<data, asked, before>>
      /\ answer'.kind = "error"
  BY DEF WhereRefused, Reply, Failure
<1>2. data = before /\ asked.req.where # <<>> /\ ex = asked.req.where
  BY <1>1 DEF Current, Tables, Conditioned
<1>3. ~InGrammar(ex)
  <2>1. ConditionExact
    BY MeaningExact DEF QueryInv
  <2> QED
    BY <1>1, <2>1 DEF ConditionExact
<1>4. ~WhereFits(asked.req.where)
  BY <1>2, <1>3 DEF WhereFits
<1>5. ~WhereFits(asked'.req.where) /\ data' = before'
  BY <1>1, <1>2, <1>4
<1> QED
  BY <1>1, <1>5 DEF GetExact

\* Or for its fields.
LEMMA FieldsExact ==
  ASSUME GetRefused
  PROVE  GetExact'
<1>1. /\ answer'.kind = "error" /\ data' = before'
      /\ asked' = Head(todo)
      /\ Head(todo).req.fields = <<>> \/ ~(ToSet(Head(todo).req.fields) \subseteq IdsOrAll)
  BY DEF GetRefused, Receive, Reply, Failure
<1>2. asked'.req.fields = <<>> \/ ~(ToSet(asked'.req.fields) \subseteq IdsOrAll)
  BY <1>1
<1> QED
  BY <1>1, <1>2 DEF GetExact, IdsOrAll, Ids

\* Every answer to a GET is right.
LEMMA NextGetsExactly ==
  ASSUME QueryInv, MeaningInv, Current, Sifted, GetExact, [Next]_vars
  PROVE  GetExact'
<1>1. CASE UNCHANGED vars
  <2>1. UNCHANGED <<phase, asked, answer, data, before>>
    BY <1>1 DEF vars, queryVars
  <2> QED
    BY <2>1 DEF GetExact
<1>2. CASE AggRefused \/ DelKeys
  <2>1. asked'.op # "GET"
    BY <1>2 DEF AggRefused, DelKeys, Receive, Op
  <2> QED
    BY <2>1 DEF GetExact
<1>3. CASE Deleted \/ PutGroups
  <2>1. phase \in {"delete", "group"} /\ asked' = asked
    BY <1>3 DEF Deleted, PutGroups
  <2>2. asked.op # "GET"
    BY <2>1 DEF Current, Asked, Op
  <2> QED
    BY <2>1, <2>2 DEF GetExact
<1>4. CASE GetParsed \/ AggParsed \/ DelWhere
  <2>1. phase' # "idle"
    BY <1>4 DEF GetParsed, AggParsed, DelWhere, BeginWhere
  <2> QED
    BY <2>1 DEF GetExact
<1>5. CASE LoadWhere \/ WhereAccepted \/ EvaluateWhere \/ FilterBegin \/ FilterEnd \/ Filtered
  <2>1. phase' # "idle"
    BY <1>5 DEF LoadWhere, WhereAccepted, EvaluateWhere, FilterBegin, FilterEnd, Filtered, queryVars
  <2> QED
    BY <2>1 DEF GetExact
<1>6. CASE DeleteBegin \/ DeleteEnd \/ Sort \/ Accumulate \/ ReadsBeyond
  <2>1. phase' # "idle"
    BY <1>6 DEF DeleteBegin, DeleteEnd, Sort, Accumulate, ReadsBeyond, queryVars
  <2> QED
    BY <2>1 DEF GetExact
<1> QED
  BY <1>1, <1>2, <1>3, <1>4, <1>5, <1>6, EmitExact, RefusalExact, FieldsExact DEF Next

\* In every state read_data_ holds what Sifted says.
THEOREM SiftedInductive == Spec => [](QueryInv /\ MeaningInv /\ Current /\ Sifted)
<1>1. Init => Sifted
  BY DEF Init, Sifted
<1>2. QueryInv /\ MeaningInv /\ Current /\ Sifted /\ [Next]_vars => Sifted'
  BY NextSifts
<1> QED
  BY <1>1, <1>2, CurrentInductive, PTL DEF Spec

\* For any table and any requests before it: a GET answers with the fields asked
\* for, of the slice asked for, of exactly the records that have the keys asked for
\* and for which the condition is true, in an order in which none comes before one
\* that the first field to order by puts in front of it; it is refused only for a
\* field that there is not or a condition outside the grammar, and changes no record.
THEOREM GetsExactly == Spec => []GetExact
<1>1. Init => GetExact
  BY DEF Init, GetExact
<1>2. QueryInv /\ MeaningInv /\ Current /\ Sifted /\ GetExact /\ [Next]_vars => GetExact'
  BY NextGetsExactly
<1> QED
  BY <1>1, <1>2, SiftedInductive, PTL DEF Spec
=============================================================================
