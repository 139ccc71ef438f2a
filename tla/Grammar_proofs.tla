--------------------------- MODULE Grammar_proofs ---------------------------
(***************************************************************************)
(* What one step of each loop over a formula or a condition does, and what *)
(* the grammar says of the places it has passed, for formulas and          *)
(* conditions of every length.  A fold is a function defined by recursion, *)
(* which exists and is unique because there is no least number up to which *)
(* it is not: the principle is LeastNumber, and every induction here is an *)
(* appeal to it.                                                           *)
(***************************************************************************)
EXTENDS Conditions, SequenceTheorems, FiniteSetTheorems, WellFoundedInduction, TLAPS

-----------------------------------------------------------------------------
(* One step of load_expression. *)

\* The next node of a text is a node, and a step reads at least one lexeme, none
\* past the end, and makes at most one node.
LEMMA LoadNext ==
  ASSUME NEW t \in Seq(Lexeme), NEW e \in Seq(Node), NEW i \in 1 .. Len(t), t[i].type # "bad"
  PROVE  /\ Loaded(t, e, i) \in Seq(Node)
         /\ Len(Loaded(t, e, i)) <= Len(e) + 1
         /\ Taken(t, e, i) \in 1 .. 2
         /\ i + Taken(t, e, i) <= Len(t) + 1
<1>1. t[i] \in Lexeme
  OBVIOUS
<1>2. i < Len(t) => t[i + 1].v \in Int
  <2>1. i < Len(t) => t[i + 1] \in Lexeme
    OBVIOUS
  <2>2. QED
    BY <2>1 DEF Lexeme
<1>3. Token("ksub") \in Node
  BY DEF Token, Node, NodeType
<1>4. Number(IF Glued(t, i) THEN 0 - t[i + 1].v ELSE 0) \in Node
  <2>1. (IF Glued(t, i) THEN 0 - t[i + 1].v ELSE 0) \in Int
    BY <1>2 DEF Glued
  <2>2. QED
    BY <2>1 DEF Number, Node, NodeType
<1>5. \A n \in Node : Append(e, n) \in Seq(Node) /\ Len(Append(e, n)) = Len(e) + 1
  OBVIOUS
<1>6. \E n \in Node : Loaded(t, e, i) = e \/ Loaded(t, e, i) = Append(e, n)
  <2>1. t[i].type \notin {"space", "minus"} => t[i] \in Node
    BY <1>1 DEF Lexeme, Node
  <2>2. QED
    BY <1>3, <1>4, <2>1 DEF Loaded
<1>7. Loaded(t, e, i) \in Seq(Node) /\ Len(Loaded(t, e, i)) <= Len(e) + 1
  BY <1>5, <1>6
<1>8. Taken(t, e, i) \in 1 .. 2 /\ i + Taken(t, e, i) <= Len(t) + 1
  BY DEF Taken, Glued
<1>9. QED
  BY <1>7, <1>8

-----------------------------------------------------------------------------
(* One step of check_expression. *)

Safe(st) ==
  /\ st \in Seq(StackItem)
  /\ \A i \in DOMAIN st : st[i] = "opt" => i > 1 /\ st[i - 1] = "digit"

\* What is below the top of a safe stack is safe.
LEMMA PoppedSafe ==
  ASSUME NEW st, Safe(st), NEW n \in Nat, n <= Len(st)
  PROVE  Safe(Popped(st, n)) /\ Len(Popped(st, n)) = Len(st) - n
<1> DEFINE p == Popped(st, n)
<1>1. p \in Seq(StackItem) /\ Len(p) = Len(st) - n
  BY DEF Popped, Safe
<1>2. \A i \in 1 .. Len(p) : p[i] = st[i]
  BY DEF Popped, Safe
<1>3. DOMAIN p = 1 .. Len(p) /\ DOMAIN st = 1 .. Len(st) /\ Len(st) \in Nat
  BY <1>1 DEF Safe
<1> HIDE DEF p
<1>4. ASSUME NEW i \in DOMAIN p, p[i] = "opt"
      PROVE  i > 1 /\ p[i - 1] = "digit"
  <2>1. i \in 1 .. Len(p) /\ i \in DOMAIN st /\ p[i] = st[i]
    BY <1>1, <1>2, <1>3
  <2>2. i > 1 /\ st[i - 1] = "digit"
    BY <1>4, <2>1 DEF Safe
  <2>3. i - 1 \in 1 .. Len(p)
    BY <2>1, <2>2
  <2>4. QED
    BY <1>2, <2>2, <2>3
<1>5. QED
  BY <1>1, <1>4 DEF Safe, p

\* A bracket or a number may go on top of a safe stack, and an operator where a
\* number is.
LEMMA AppendSafe ==
  ASSUME NEW st, Safe(st), NEW e \in StackItem, e = "opt" => IsTop(st, "digit")
  PROVE  Safe(Append(st, e))
<1> DEFINE a == Append(st, e)
<1>1. a \in Seq(StackItem) /\ Len(a) = Len(st) + 1 /\ a[Len(a)] = e
  BY DEF Safe
<1>2. \A i \in 1 .. Len(st) : a[i] = st[i]
  BY DEF Safe
<1>3. e = "opt" => Len(st) > 0 /\ a[Len(st)] = "digit"
  BY <1>2 DEF IsTop, Last, Safe
<1>4. QED
  BY <1>1, <1>2, <1>3 DEF Safe

\* An operator on top has a number below it.
LEMMA OptHasDigit ==
  ASSUME NEW st, Safe(st), IsTop(st, "opt")
  PROVE  Len(st) >= 2
<1>1. Len(st) \in DOMAIN st /\ Len(st) \in Nat
  BY DEF Safe, IsTop
<1>2. st[Len(st)] = "opt"
  BY DEF IsTop, Last
<1>3. QED
  BY <1>1, <1>2 DEF Safe

\* Nodes that fit keep the stack safe.
LEMMA CheckStep ==
  ASSUME NEW st, Safe(st), NEW x \in Node, Fits(st, x)
  PROVE  Safe(Checked(st, x))
<1>1. CASE x.type = "kleft"
  BY <1>1, AppendSafe DEF Checked, StackItem, IsFour, FourTypes
<1>2. CASE x.type = "kright"
  <2>1. Len(st) >= 2
    BY <1>2 DEF Fits, IsFour, FourTypes, IsOperand
  <2>2. Safe(Popped(st, 2))
    BY <2>1, PoppedSafe DEF Safe
  <2>3. QED
    BY <1>2, <2>2, AppendSafe DEF Checked, StackItem, IsFour, FourTypes
<1>3. CASE IsFour(x)
  <2>1. IsTop(st, "digit")
    BY <1>3 DEF Fits, IsFour, FourTypes, IsOperand
  <2>2. QED
    BY <1>3, <2>1, AppendSafe DEF Checked, StackItem, IsFour, FourTypes
<1>4. CASE x.type # "kleft" /\ x.type # "kright" /\ ~IsFour(x)
  <2>1. Safe(IF IsTop(st, "opt") THEN Popped(st, 2) ELSE st)
    BY OptHasDigit, PoppedSafe DEF Safe
  <2>2. QED
    BY <1>4, <2>1, AppendSafe DEF Checked, StackItem
<1>5. QED
  BY <1>1, <1>2, <1>3, <1>4

-----------------------------------------------------------------------------
(* Induction, and functions defined by recursion. *)

\* Numbers that are some have a least one.
LEMMA LeastNumber ==
  ASSUME NEW T \in SUBSET Nat, T # {}
  PROVE  \E x \in T : \A y \in T : x <= y
<1>1. IsWellFoundedOn(OpToRel(<,Nat), Nat)
  BY NatLessThanWellFounded
<1> DEFINE R == OpToRel(<,Nat)
<1>2. \A x, y \in Nat : <<y, x>> \in R <=> y < x
  BY DEF OpToRel
<1> HIDE DEF R
<1>3. IsWellFoundedOn(R, Nat)
  BY <1>1 DEF R
<1>4. PICK x \in T : \A y \in T : ~ (<<y, x>> \in R)
  BY <1>3, WFMin
<1>5. \A y \in T : x \in Nat /\ y \in Nat /\ ~(y < x)
  BY <1>2, <1>4
<1> QED
  BY <1>5

\* A set that has 0, and with a number the next one, has all of them.
LEMMA Climb ==
  ASSUME NEW N \in Nat, NEW T, 0 \in T, \A n \in 0 .. N - 1 : n \in T => n + 1 \in T
  PROVE  \A n \in 0 .. N : n \in T
<1> DEFINE None == {n \in Nat : n <= N /\ n \notin T}
<1> SUFFICES ASSUME None # {} PROVE FALSE
  OBVIOUS
<1>1. PICK m \in None : \A k \in None : m <= k
  BY LeastNumber
<1>2. m # 0
  BY <1>1
<1>3. m - 1 \in 0 .. N - 1 /\ m - 1 \notin None
  BY <1>1, <1>2
<1>4. m - 1 \in T
  BY <1>3
<1>5. (m - 1) + 1 \in T
  BY <1>3, <1>4
<1> QED
  BY <1>1, <1>5

-----------------------------------------------------------------------------
(* Plain. *)

\* g strips the spaces off the first places of t, one after another.
Strips(g, t) ==
  g = [n \in 0 .. Len(t) |->
         IF n = 0 THEN <<>>
         ELSE IF t[n].type = "space" THEN g[n - 1] ELSE Append(g[n - 1], t[n])]

StripsStep(g, t, n) ==
  g[n + 1] = IF t[n + 1].type = "space" THEN g[n] ELSE Append(g[n], t[n + 1])

\* One place after another.
LEMMA StripsAt ==
  ASSUME NEW S, NEW t \in Seq(S), NEW g, Strips(g, t)
  PROVE  g[0] = <<>> /\ \A n \in 0 .. Len(t) - 1 : StripsStep(g, t, n)
<1>1. 0 \in 0 .. Len(t) /\ \A n \in 0 .. Len(t) - 1 : n + 1 \in 0 .. Len(t) /\ n + 1 # 0 /\ (n + 1) - 1 = n
  OBVIOUS
<1>2. \A n \in 0 .. Len(t) : g[n] = IF n = 0 THEN <<>>
         ELSE IF t[n].type = "space" THEN g[n - 1] ELSE Append(g[n - 1], t[n])
  BY DEF Strips
<1> QED
  BY <1>1, <1>2 DEF StripsStep

\* Every text is stripped so.
LEMMA StripsExist ==
  ASSUME NEW S, NEW t \in Seq(S)
  PROVE  \E g : Strips(g, t)
<1> DEFINE Upto(g, n) == g = [m \in 0 .. n |-> IF m = 0 THEN <<>>
                ELSE IF t[m].type = "space" THEN g[m - 1] ELSE Append(g[m - 1], t[m])]
           T == {n \in 0 .. Len(t) : \E g : Upto(g, n)}
<1>1. 0 \in T
  <2> DEFINE e == [m \in 0 .. 0 |-> <<>>]
  <2>1. e = [m \in 0 .. 0 |-> IF m = 0 THEN <<>>
                ELSE IF t[m].type = "space" THEN e[m - 1] ELSE Append(e[m - 1], t[m])]
    OBVIOUS
  <2> HIDE DEF e
  <2>2. Upto(e, 0) /\ 0 \in 0 .. Len(t)
    BY <2>1
  <2> QED
    BY <2>2
<1>2. ASSUME NEW n \in 0 .. Len(t) - 1, n \in T
      PROVE  n + 1 \in T
  <2>1. PICK g : Upto(g, n)
    BY <1>2
  <2> DEFINE h == [m \in 0 .. n + 1 |-> IF m <= n THEN g[m] ELSE
                IF t[m].type = "space" THEN g[m - 1] ELSE Append(g[m - 1], t[m])]
  <2>2. \A m \in 0 .. n : g[m] = IF m = 0 THEN <<>>
                ELSE IF t[m].type = "space" THEN g[m - 1] ELSE Append(g[m - 1], t[m])
    BY <2>1
  <2>3. ASSUME NEW m \in 0 .. n + 1
        PROVE  h[m] = IF m = 0 THEN <<>>
                ELSE IF t[m].type = "space" THEN h[m - 1] ELSE Append(h[m - 1], t[m])
    <3>1. m # 0 => m - 1 \in 0 .. n + 1 /\ m - 1 <= n
      OBVIOUS
    <3>2. m # 0 => h[m - 1] = g[m - 1]
      BY <3>1
    <3>3. h[m] = IF m <= n THEN g[m] ELSE
                IF t[m].type = "space" THEN g[m - 1] ELSE Append(g[m - 1], t[m])
      OBVIOUS
    <3> HIDE DEF h
    <3>4. CASE m <= n
      BY <2>2, <3>2, <3>3, <3>4
    <3>5. CASE ~(m <= n)
      BY <3>2, <3>3, <3>5
    <3> QED
      BY <3>4, <3>5
  <2>4. h = [m \in 0 .. n + 1 |-> h[m]]
    OBVIOUS
  <2> HIDE DEF h
  <2>5. Upto(h, n + 1)
    BY <2>3, <2>4
  <2>6. n + 1 \in 0 .. Len(t)
    OBVIOUS
  <2> HIDE DEF Upto
  <2>7. \E f : Upto(f, n + 1)
    BY <2>5
  <2> QED
    BY <2>6, <2>7
<1>3. Len(t) \in Nat
  OBVIOUS
<1> HIDE DEF T
<1>4. \A n \in 0 .. Len(t) : n \in T
  BY <1>1, <1>2, <1>3, Climb
<1>5. Len(t) \in T
  BY <1>3, <1>4
<1> QED
  BY <1>5 DEF T, Strips

\* What is stripped off a prefix depends on the prefix only.
LEMMA StripsUnique ==
  ASSUME NEW S, NEW t \in Seq(S), NEW u \in Seq(S), NEW g, NEW h, Strips(g, t), Strips(h, u),
         NEW N \in Nat, N <= Len(t), N <= Len(u), \A i \in 1 .. N : t[i] = u[i]
  PROVE  g[N] = h[N]
<1> DEFINE T == {n \in 0 .. N : g[n] = h[n]}
<1>1. 0 \in T
  BY StripsAt
<1>2. ASSUME NEW n \in 0 .. N - 1, n \in T
      PROVE  n + 1 \in T
  <2>1. n \in 0 .. Len(t) - 1 /\ n \in 0 .. Len(u) - 1 /\ n + 1 \in 1 .. N
    OBVIOUS
  <2>2. StripsStep(g, t, n) /\ StripsStep(h, u, n)
    BY <2>1, StripsAt
  <2>3. g[n] = h[n] /\ t[n + 1] = u[n + 1]
    BY <1>2, <2>1
  <2>4. g[n + 1] = h[n + 1]
    BY <2>2, <2>3 DEF StripsStep
  <2> QED
    BY <2>1, <2>4
<1> HIDE DEF T
<1>3. \A n \in 0 .. N : n \in T
  BY <1>1, <1>2, Climb
<1> QED
  BY <1>3 DEF T

\* Plain(t) is all of t, stripped.
LEMMA PlainIsStripped ==
  ASSUME NEW S, NEW t \in Seq(S)
  PROVE  \E g : Strips(g, t) /\ Plain(t) = g[Len(t)]
<1>1. Strips(CHOOSE g : Strips(g, t), t)
  BY StripsExist
<1>2. Plain(t) = (CHOOSE g : Strips(g, t))[Len(t)]
  BY DEF Plain, Strips
<1> QED
  BY <1>1, <1>2

\* Plain of the first places of a text.
Beginning(t, n) == Plain(SubSeq(t, 1, n))

\* A space adds nothing to it, and any other lexeme itself.
LEMMA PlainStep ==
  ASSUME NEW S, NEW t \in Seq(S)
  PROVE  /\ Beginning(t, 0) = <<>>
         /\ Beginning(t, Len(t)) = Plain(t)
         /\ \A n \in 0 .. Len(t) - 1 :
              Beginning(t, n + 1) = IF t[n + 1].type = "space" THEN Beginning(t, n)
                                ELSE Append(Beginning(t, n), t[n + 1])
<1>1. PICK g : Strips(g, t)
  BY StripsExist
<1>2. ASSUME NEW n \in 0 .. Len(t)
      PROVE  Beginning(t, n) = g[n]
  <2> DEFINE u == SubSeq(t, 1, n)
  <2>1. u \in Seq(S) /\ Len(u) = n /\ \A i \in 1 .. n : u[i] = t[i]
    OBVIOUS
  <2> HIDE DEF u
  <2>2. PICK h : Strips(h, u) /\ Plain(u) = h[Len(u)]
    BY <2>1, PlainIsStripped
  <2>3. h[n] = g[n]
    <3>1. n \in Nat /\ n <= Len(t) /\ n <= Len(u)
      BY <2>1
    <3> QED
      BY <1>1, <2>1, <2>2, <3>1, StripsUnique
  <2> QED
    BY <2>1, <2>2, <2>3 DEF Beginning, u
<1>3. SubSeq(t, 1, Len(t)) = t
  OBVIOUS
<1>4. Beginning(t, Len(t)) = Plain(t)
  BY <1>3 DEF Beginning
<1>5. Beginning(t, 0) = <<>>
  BY <1>1, <1>2, StripsAt
<1>6. ASSUME NEW n \in 0 .. Len(t) - 1
      PROVE  Beginning(t, n + 1) = IF t[n + 1].type = "space" THEN Beginning(t, n)
                                ELSE Append(Beginning(t, n), t[n + 1])
  <2>1. n \in 0 .. Len(t) /\ n + 1 \in 0 .. Len(t)
    OBVIOUS
  <2>2. StripsStep(g, t, n)
    BY <1>1, StripsAt
  <2> QED
    BY <1>2, <2>1, <2>2 DEF StripsStep
<1> QED
  BY <1>4, <1>5, <1>6

\* Plain has no spaces, and all else.
Stripped(t, n, p) ==
  /\ p \in Seq(Lexeme)
  /\ \A j \in 1 .. Len(p) : p[j].type # "space"
  /\ \A i \in 1 .. n : t[i].type # "space" => \E j \in 1 .. Len(p) : p[j] = t[i]

\* So it is of what has been read of a text.
LEMMA StartStripped ==
  ASSUME NEW t \in Seq(Lexeme)
  PROVE  \A n \in 0 .. Len(t) : Stripped(t, n, Beginning(t, n))
<1> DEFINE T == {n \in 0 .. Len(t) : Stripped(t, n, Beginning(t, n))}
<1>1. 0 \in T
  <2>1. PICK p : p = Beginning(t, 0)
    OBVIOUS
  <2>2. p = <<>>
    BY <2>1, PlainStep
  <2>3. Stripped(t, 0, p)
    BY <2>2, EmptySeq DEF Stripped
  <2> QED
    BY <2>1, <2>3
<1>2. ASSUME NEW n \in 0 .. Len(t) - 1, n \in T
      PROVE  n + 1 \in T
  <2>1. PICK p : p = Beginning(t, n)
    OBVIOUS
  <2>2. PICK q : q = Beginning(t, n + 1)
    OBVIOUS
  <2>3. q = IF t[n + 1].type = "space" THEN p ELSE Append(p, t[n + 1])
    BY <2>1, <2>2, PlainStep
  <2>4. Stripped(t, n, p)
    BY <1>2, <2>1
  <2>5. t[n + 1] \in Lexeme /\ n + 1 \in 0 .. Len(t) /\ \A i \in 1 .. n + 1 : i \in 1 .. n \/ i = n + 1
    OBVIOUS
  <2>6. CASE t[n + 1].type = "space"
    BY <2>2, <2>3, <2>4, <2>5, <2>6 DEF Stripped
  <2>7. CASE t[n + 1].type # "space"
    <3>1. p \in Seq(Lexeme)
      BY <2>4 DEF Stripped
    <3>2. q \in Seq(Lexeme) /\ Len(q) = Len(p) + 1 /\ q[Len(p) + 1] = t[n + 1]
          /\ \A j \in 1 .. Len(p) : q[j] = p[j]
      BY <2>3, <2>5, <2>7, <3>1
    <3>3. Len(p) \in Nat
      BY <3>1
    <3>4. \A j \in 1 .. Len(q) : q[j].type # "space"
      BY <2>4, <2>7, <3>2, <3>3 DEF Stripped
    <3>5. ASSUME NEW i \in 1 .. n + 1, t[i].type # "space"
          PROVE  \E j \in 1 .. Len(q) : q[j] = t[i]
      <4>1. CASE i = n + 1
        BY <3>2, <3>3, <4>1
      <4>2. CASE i \in 1 .. n
        <5>1. PICK j \in 1 .. Len(p) : p[j] = t[i]
          BY <2>4, <3>5, <4>2 DEF Stripped
        <5> QED
          BY <3>2, <3>3, <5>1
      <4> QED
        BY <2>5, <4>1, <4>2
    <3> QED
      BY <2>2, <2>5, <3>2, <3>4, <3>5 DEF Stripped
  <2> QED
    BY <2>6, <2>7
<1>3. Len(t) \in Nat
  OBVIOUS
<1> HIDE DEF T
<1>4. \A n \in 0 .. Len(t) : n \in T
  BY <1>1, <1>2, <1>3, Climb
<1> QED
  BY <1>4 DEF T

-----------------------------------------------------------------------------
(* Meanings. *)

\* g holds the readings of s that are made in a number of steps.
Makes(g, s, v, N) ==
  g = [n \in 0 .. N |-> IF n = 0 THEN Simple(s, v) ELSE g[n - 1] \cup Further(s, g[n - 1])]

\* There are such readings for every text and number of steps.
LEMMA MakesExist ==
  ASSUME NEW s, NEW v, NEW N \in Nat
  PROVE  \E g : Makes(g, s, v, N)
<1> DEFINE T == {n \in 0 .. N : \E g : Makes(g, s, v, n)}
           F(R) == R \cup Further(s, R)
           B == Simple(s, v)
<1> HIDE DEF F, B
<1>0. \A g, n : Makes(g, s, v, n) <=> g = [m \in 0 .. n |-> IF m = 0 THEN B ELSE F(g[m - 1])]
  BY DEF F, B, Makes
<1>1. 0 \in T
  <2> DEFINE e == [m \in 0 .. 0 |-> B]
  <2>1. e = [m \in 0 .. 0 |-> IF m = 0 THEN B ELSE F(e[m - 1])]
    OBVIOUS
  <2> HIDE DEF e
  <2>2. Makes(e, s, v, 0)
    BY <1>0, <2>1
  <2>3. 0 \in 0 .. N
    OBVIOUS
  <2> QED
    BY <2>2, <2>3
<1>2. ASSUME NEW n \in 0 .. N - 1, n \in T
      PROVE  n + 1 \in T
  <2>1. PICK g : g = [m \in 0 .. n |-> IF m = 0 THEN B ELSE F(g[m - 1])]
    BY <1>0, <1>2
  <2> DEFINE h == [m \in 0 .. n + 1 |-> IF m <= n THEN g[m] ELSE F(g[m - 1])]
  <2>2. \A m \in 0 .. n : g[m] = IF m = 0 THEN B ELSE F(g[m - 1])
    BY <2>1
  <2>3. ASSUME NEW m \in 0 .. n + 1
        PROVE  h[m] = IF m = 0 THEN B ELSE F(h[m - 1])
    <3>1. m # 0 => m - 1 \in 0 .. n + 1 /\ m - 1 <= n
      OBVIOUS
    <3>2. m # 0 => h[m - 1] = g[m - 1]
      BY <3>1
    <3>3. h[m] = IF m <= n THEN g[m] ELSE F(g[m - 1])
      OBVIOUS
    <3> HIDE DEF h
    <3>4. CASE m <= n
      BY <2>2, <3>2, <3>3, <3>4
    <3>5. CASE ~(m <= n)
      BY <3>2, <3>3, <3>5
    <3> QED
      BY <3>4, <3>5
  <2>4. h = [m \in 0 .. n + 1 |-> h[m]]
    OBVIOUS
  <2> HIDE DEF h
  <2>5. h = [m \in 0 .. n + 1 |-> IF m = 0 THEN B ELSE F(h[m - 1])]
    BY <2>3, <2>4
  <2>6. Makes(h, s, v, n + 1)
    BY <1>0, <2>5
  <2> QED
    BY <2>6
<1> HIDE DEF T
<1>3. \A n \in 0 .. N : n \in T
  BY <1>1, <1>2, Climb
<1> QED
  BY <1>3 DEF T

Made(s, v) == CHOOSE g : Makes(g, s, v, 3 * Len(s))

\* Every step makes what Further gives, and forgets nothing.
LEMMA MadeStep ==
  ASSUME NEW S, NEW s \in Seq(S), NEW v
  PROVE  /\ Made(s, v)[0] = Simple(s, v)
         /\ \A n \in 0 .. 3 * Len(s) - 1 :
              Made(s, v)[n + 1] = Made(s, v)[n] \cup Further(s, Made(s, v)[n])
<1>1. PICK N \in Nat : N = 3 * Len(s)
  OBVIOUS
<1>2. PICK g : g = Made(s, v)
  OBVIOUS
<1>3. Makes(g, s, v, N)
  BY <1>1, <1>2, MakesExist DEF Made
<1> DEFINE F(R) == R \cup Further(s, R)
           B == Simple(s, v)
<1> HIDE DEF F, B
<1>4. g = [n \in 0 .. N |-> IF n = 0 THEN B ELSE F(g[n - 1])]
  BY <1>3 DEF Makes, F, B
<1>5. g[0] = B
  BY <1>4
<1>6. ASSUME NEW n \in 0 .. N - 1
      PROVE  g[n + 1] = F(g[n])
  <2>1. n + 1 \in 0 .. N /\ n + 1 # 0 /\ (n + 1) - 1 = n
    OBVIOUS
  <2> QED
    BY <1>4, <2>1
<1> QED
  BY <1>1, <1>2, <1>5, <1>6 DEF F, B

\* A number is a meaning exactly if a reading of the whole as a sum has it.
Whole(s, r) == r.level = 2 /\ r.from = 1 /\ r.to = Len(s)

\* Meanings(s, v) are the numbers of those readings.
LEMMA MeaningsMade ==
  ASSUME NEW s, NEW v
  PROVE  Meanings(s, v) = {r.number : r \in {r \in Made(s, v)[3 * Len(s)] : Whole(s, r)}}
BY DEF Meanings, Made, Makes, Whole

\* What has been made stays.
LEMMA MadeGrows ==
  ASSUME NEW S, NEW s \in Seq(S), NEW v, NEW n \in 0 .. 3 * Len(s), NEW m \in 0 .. n
  PROVE  Made(s, v)[m] \subseteq Made(s, v)[n]
<1>1. PICK g : g = Made(s, v)
  OBVIOUS
<1> DEFINE T == {k \in 0 .. n : m <= k => g[m] \subseteq g[k]}
<1>2. 0 \in T
  OBVIOUS
<1>3. ASSUME NEW k \in 0 .. n - 1, k \in T
      PROVE  k + 1 \in T
  <2>1. k \in 0 .. 3 * Len(s) - 1
    <3>1. 3 * Len(s) \in Nat
      OBVIOUS
    <3> QED
      BY <3>1
  <2>2. g[k] \subseteq g[k + 1]
    BY <1>1, <2>1, MadeStep
  <2>3. m <= k + 1 => m <= k \/ m = k + 1
    OBVIOUS
  <2>4. m <= k + 1 => g[m] \subseteq g[k + 1]
    BY <1>3, <2>2, <2>3
  <2>5. k + 1 \in 0 .. n
    OBVIOUS
  <2> QED
    BY <2>4, <2>5
<1>4. n \in Nat
  OBVIOUS
<1> HIDE DEF T
<1>5. \A k \in 0 .. n : k \in T
  BY <1>2, <1>3, <1>4, Climb
<1> QED
  BY <1>1, <1>5 DEF T

-----------------------------------------------------------------------------
(* What the parts of a text with a reading have in common. *)

Operand == {"kint8", "kname", "kright"}
Starts == {"kint8", "kname", "kleft", "minus"}
Operators == Binding \cup {"kadd", "minus"}
Adjacent(x, y) ==
  IF x \in Operand THEN y \in Operators \cup {"kright"} ELSE y \in Starts

\* h counts the brackets that are open at each place.
Delta(x) == IF x = "kleft" THEN 1 ELSE IF x = "kright" THEN 0 - 1 ELSE 0
Nested(s, h, from, to) ==
  /\ h \in [from - 1 .. to -> Nat]
  /\ h[from - 1] = 0 /\ h[to] = 0
  /\ \A i \in from .. to : h[i] = h[i - 1] + Delta(s[i].type)

Sound(s, from, to) ==
  /\ from \in 1 .. Len(s) /\ to \in from .. Len(s)
  /\ s[from].type \in Starts /\ s[to].type \in Operand
  /\ \A i \in from .. to : s[i].type \in Starts \cup Operand \cup Operators
  /\ \A i \in from .. to - 1 : Adjacent(s[i].type, s[i + 1].type)
  /\ \E h : Nested(s, h, from, to)

\* A number or a name.
LEMMA SoundOne ==
  ASSUME NEW s, Len(s) \in Nat, NEW n \in 1 .. Len(s), s[n].type \in {"kint8", "kname"}
  PROVE  Sound(s, n, n)
<1> DEFINE h == [i \in n - 1 .. n |-> 0]
<1>1. Nested(s, h, n, n)
  BY DEF Nested, Delta
<1> QED
  BY <1>1 DEF Sound, Starts, Operand

\* A number with its sign.
LEMMA SoundSigned ==
  ASSUME NEW s, Len(s) \in Nat, NEW n \in 1 .. Len(s), n < Len(s),
         s[n].type = "minus", s[n + 1].type = "kint8"
  PROVE  Sound(s, n, n + 1)
<1> DEFINE h == [i \in n - 1 .. n + 1 |-> 0]
<1>0. \A i \in n .. n + 1 : (i = n \/ i = n + 1) /\ i - 1 \in n - 1 .. n + 1 /\ i \in n - 1 .. n + 1
  OBVIOUS
<1>1. Nested(s, h, n, n + 1)
  BY <1>0 DEF Nested, Delta
<1>2. \A i \in n .. n + 1 - 1 : i = n
  OBVIOUS
<1>3. Adjacent(s[n].type, s[n + 1].type)
  BY DEF Adjacent, Operand, Starts
<1>4. \A i \in n .. n + 1 : s[i].type \in Starts
  BY <1>0 DEF Starts
<1>5. \A i \in n .. n + 1 - 1 : Adjacent(s[i].type, s[i + 1].type)
  BY <1>2, <1>3
<1> QED
  BY <1>1, <1>4, <1>5 DEF Sound, Starts, Operand

\* A sum in brackets.
LEMMA SoundBracket ==
  ASSUME NEW s, Len(s) \in Nat, NEW from, NEW to, Sound(s, from, to),
         from > 1, to < Len(s), s[from - 1].type = "kleft", s[to + 1].type = "kright"
  PROVE  Sound(s, from - 1, to + 1)
<1>0. /\ from \in 1 .. Len(s) /\ to \in from .. Len(s)
      /\ s[from].type \in Starts /\ s[to].type \in Operand
      /\ \A i \in from .. to : s[i].type \in Starts \cup Operand \cup Operators
      /\ \A i \in from .. to - 1 : Adjacent(s[i].type, s[i + 1].type)
  BY DEF Sound
<1>1. PICK g : Nested(s, g, from, to)
  BY DEF Sound
<1>2. PICK a \in Nat : a = from - 1 /\ a >= 1
  BY <1>0
<1>3. PICK b \in Nat : b = to + 1 /\ b <= Len(s) /\ a + 1 <= b - 1
  BY <1>0, <1>2
<1>4. /\ g \in [a .. b - 1 -> Nat] /\ g[a] = 0 /\ g[b - 1] = 0
      /\ \A i \in a + 1 .. b - 1 : g[i] = g[i - 1] + Delta(s[i].type)
  BY <1>0, <1>1, <1>2, <1>3 DEF Nested
<1> DEFINE h == [i \in a - 1 .. b |-> IF i = a - 1 \/ i = b THEN 0 ELSE g[i] + 1]
<1>5. ASSUME NEW i \in a .. b
      PROVE  h[i] = h[i - 1] + Delta(s[i].type)
  <2>1. Delta(s[a].type) = 1 /\ Delta(s[b].type) = 0 - 1
    BY <1>0, <1>2, <1>3 DEF Delta
  <2>2. CASE i = a
    BY <1>2, <1>3, <1>4, <2>1, <2>2
  <2>3. CASE i = b
    <3>1. b - 1 \in a - 1 .. b /\ b - 1 # a - 1 /\ b - 1 # b
      BY <1>2, <1>3
    <3>2. h[b - 1] = 1 /\ h[b] = 0
      BY <1>4, <3>1
    <3> QED
      BY <2>1, <2>3, <3>2
  <2>4. CASE i # a /\ i # b
    <3>1. i \in a + 1 .. b - 1 /\ i - 1 \in a .. b - 1 /\ i - 1 # a - 1 /\ i - 1 # b /\ i # a - 1
          /\ i \in a .. b - 1
      BY <2>4
    <3>2. h[i] = g[i] + 1 /\ h[i - 1] = g[i - 1] + 1
      BY <2>4, <3>1
    <3>3. g[i] = g[i - 1] + Delta(s[i].type) /\ g[i - 1] \in Nat /\ g[i] \in Nat
      BY <1>4, <3>1
    <3>4. Delta(s[i].type) \in Int
      BY DEF Delta
    <3> HIDE DEF h
    <3> QED
      BY <3>2, <3>3, <3>4
  <2> QED
    BY <2>2, <2>3, <2>4
<1>6. h \in [a - 1 .. b -> Nat] /\ h[a - 1] = 0 /\ h[b] = 0
  <2>1. ASSUME NEW i \in a - 1 .. b, i # a - 1, i # b
        PROVE  g[i] \in Nat
    BY <1>4, <2>1
  <2>2. \A i \in a - 1 .. b : h[i] \in Nat
    BY <2>1
  <2>3. a - 1 \in a - 1 .. b /\ b \in a - 1 .. b
    BY <1>2, <1>3
  <2> QED
    BY <2>2, <2>3
<1> HIDE DEF h
<1>7. Nested(s, h, a, b)
  BY <1>5, <1>6 DEF Nested
<1>8. s[a].type = "kleft" /\ s[b].type = "kright"
  BY <1>0, <1>2, <1>3
<1>9. s[a + 1].type \in Starts /\ s[b - 1].type \in Operand
  BY <1>0, <1>2, <1>3
<1>10. Adjacent(s[a].type, s[a + 1].type) /\ Adjacent(s[b - 1].type, s[b].type)
  BY <1>8, <1>9 DEF Adjacent, Operand
<1>11. ASSUME NEW i \in a .. b - 1
       PROVE  Adjacent(s[i].type, s[i + 1].type)
  <2>1. i = a \/ i = b - 1 \/ i \in from .. to - 1
    BY <1>0, <1>2, <1>3
  <2>2. (b - 1) + 1 = b
    OBVIOUS
  <2>3. CASE i = b - 1
    BY <1>10, <2>2, <2>3
  <2> QED
    BY <1>0, <1>10, <2>1, <2>3
<1>12. ASSUME NEW i \in a .. b
       PROVE  s[i].type \in Starts \cup Operand \cup Operators
  <2>1. i = a \/ i = b \/ i \in from .. to
    BY <1>0, <1>2, <1>3
  <2> QED
    BY <1>0, <1>8, <2>1 DEF Starts, Operand
<1>13. s[a].type \in Starts /\ s[b].type \in Operand /\ a \in 1 .. Len(s) /\ b \in a .. Len(s)
  BY <1>2, <1>3, <1>8 DEF Starts, Operand
<1>14. Sound(s, a, b)
  BY <1>7, <1>11, <1>12, <1>13 DEF Sound
<1> QED
  BY <1>2, <1>3, <1>14

\* Two parts with an operator between them.
LEMMA SoundJoin ==
  ASSUME NEW s, Len(s) \in Nat, NEW a, NEW b, NEW d, Sound(s, a, b), Sound(s, b + 2, d),
         s[b + 1].type \in Operators
  PROVE  Sound(s, a, d)
<1>0. /\ a \in 1 .. Len(s) /\ b \in a .. Len(s)
      /\ s[a].type \in Starts /\ s[b].type \in Operand
      /\ \A i \in a .. b : s[i].type \in Starts \cup Operand \cup Operators
      /\ \A i \in a .. b - 1 : Adjacent(s[i].type, s[i + 1].type)
  BY DEF Sound
<1>1. /\ b + 2 \in 1 .. Len(s) /\ d \in b + 2 .. Len(s)
      /\ s[b + 2].type \in Starts /\ s[d].type \in Operand
      /\ \A i \in b + 2 .. d : s[i].type \in Starts \cup Operand \cup Operators
      /\ \A i \in b + 2 .. d - 1 : Adjacent(s[i].type, s[i + 1].type)
  BY DEF Sound
<1>2. PICK g : Nested(s, g, a, b)
  BY DEF Sound
<1>3. PICK f : Nested(s, f, b + 2, d)
  BY DEF Sound
<1>4. /\ g \in [a - 1 .. b -> Nat] /\ g[a - 1] = 0 /\ g[b] = 0
      /\ \A i \in a .. b : g[i] = g[i - 1] + Delta(s[i].type)
  BY <1>2 DEF Nested
<1>5. /\ f \in [b + 1 .. d -> Nat] /\ f[b + 1] = 0 /\ f[d] = 0
      /\ \A i \in b + 2 .. d : f[i] = f[i - 1] + Delta(s[i].type)
  <2>1. (b + 2) - 1 = b + 1
    BY <1>0
  <2> QED
    BY <1>3, <2>1 DEF Nested
<1> DEFINE h == [i \in a - 1 .. d |-> IF i <= b THEN g[i] ELSE f[i]]
<1>6. ASSUME NEW i \in a .. d
      PROVE  h[i] = h[i - 1] + Delta(s[i].type)
  <2>1. CASE i <= b
    <3>1. i \in a .. b /\ i - 1 \in a - 1 .. d /\ i - 1 <= b /\ i \in a - 1 .. d
      BY <1>0, <1>1, <2>1
    <3> QED
      BY <1>4, <2>1, <3>1
  <2>2. CASE i = b + 1
    <3>1. Delta(s[b + 1].type) = 0
      BY DEF Delta, Operators, Binding
    <3>2. b \in a - 1 .. d /\ b <= b /\ b + 1 \in a - 1 .. d /\ ~(b + 1 <= b) /\ (b + 1) - 1 = b
      BY <1>0, <1>1
    <3> QED
      BY <1>4, <1>5, <2>2, <3>1, <3>2
  <2>3. CASE i > b + 1
    <3>1. i \in b + 2 .. d /\ i - 1 \in a - 1 .. d /\ ~(i - 1 <= b) /\ i \in a - 1 .. d /\ ~(i <= b)
      BY <1>0, <1>1, <2>3
    <3> QED
      BY <1>5, <3>1
  <2> QED
    BY <1>0, <1>1, <2>1, <2>2, <2>3
<1>7. h \in [a - 1 .. d -> Nat] /\ h[a - 1] = 0 /\ h[d] = 0
  <2>1. ASSUME NEW i \in a - 1 .. d
        PROVE  h[i] \in Nat
    <3>1. i <= b => i \in a - 1 .. b
      BY <1>0
    <3>2. ~(i <= b) => i \in b + 1 .. d
      BY <1>0
    <3> QED
      BY <1>4, <1>5, <3>1, <3>2
  <2>2. a - 1 \in a - 1 .. d /\ d \in a - 1 .. d /\ a - 1 <= b /\ ~(d <= b)
    BY <1>0, <1>1
  <2> QED
    BY <1>4, <1>5, <2>1, <2>2
<1> HIDE DEF h
<1>8. Nested(s, h, a, d)
  BY <1>6, <1>7 DEF Nested
<1>9. Adjacent(s[b].type, s[b + 1].type) /\ Adjacent(s[b + 1].type, s[b + 2].type)
  BY <1>0, <1>1 DEF Adjacent, Operand, Operators, Binding
<1>10. ASSUME NEW i \in a .. d - 1
       PROVE  Adjacent(s[i].type, s[i + 1].type)
  <2>1. i \in a .. b - 1 \/ i = b \/ i = b + 1 \/ i \in b + 2 .. d - 1
    BY <1>0, <1>1
  <2>2. (b + 1) + 1 = b + 2
    BY <1>0
  <2>3. CASE i = b + 1
    BY <1>9, <2>2, <2>3
  <2> QED
    BY <1>0, <1>1, <1>9, <2>1, <2>3
<1>11. ASSUME NEW i \in a .. d
       PROVE  s[i].type \in Starts \cup Operand \cup Operators
  <2>1. i \in a .. b \/ i = b + 1 \/ i \in b + 2 .. d
    BY <1>0, <1>1
  <2> QED
    BY <1>0, <1>1, <2>1
<1>12. a \in 1 .. Len(s) /\ d \in a .. Len(s)
  BY <1>0, <1>1
<1> QED
  BY <1>0, <1>1, <1>8, <1>10, <1>11, <1>12 DEF Sound

\* The readings that are made of sound ones are sound.
LEMMA FurtherSound ==
  ASSUME NEW s, Len(s) \in Nat, NEW R, \A r \in R : Sound(s, r.from, r.to),
         NEW q \in Further(s, R)
  PROVE  Sound(s, q.from, q.to)
<1>0. \A level, from, to, number :
        Reading(level, from, to, number).from = from /\ Reading(level, from, to, number).to = to
  BY DEF Reading
<1>1. CASE \E r \in R : q = Reading(r.level + 1, r.from, r.to, r.number)
  BY <1>0, <1>1
<1>2. CASE \E r \in R : /\ q = Reading(0, r.from - 1, r.to + 1, r.number)
                       /\ r.from > 1 /\ r.to < Len(s)
                       /\ s[r.from - 1].type = "kleft" /\ s[r.to + 1].type = "kright"
  <2>1. PICK r \in R : /\ q = Reading(0, r.from - 1, r.to + 1, r.number)
                       /\ r.from > 1 /\ r.to < Len(s)
                       /\ s[r.from - 1].type = "kleft" /\ s[r.to + 1].type = "kright"
    BY <1>2
  <2>2. Sound(s, r.from - 1, r.to + 1)
    BY <2>1, SoundBracket
  <2> QED
    BY <1>0, <2>1, <2>2
<1>3. CASE \E l \in R, r \in R :
             /\ q = Reading(l.level, l.from, r.to, Apply(s[l.to + 1].type, l.number, r.number))
             /\ r.from = l.to + 2 /\ s[l.to + 1].type \in OperatorsOf(l.level)
  <2>1. PICK l \in R, r \in R :
             /\ q = Reading(l.level, l.from, r.to, Apply(s[l.to + 1].type, l.number, r.number))
             /\ r.from = l.to + 2 /\ s[l.to + 1].type \in OperatorsOf(l.level)
    BY <1>3
  <2>2. s[l.to + 1].type \in Operators
    BY <2>1 DEF OperatorsOf, Operators
  <2>3. Sound(s, l.from, r.to)
    BY <2>1, <2>2, SoundJoin
  <2> QED
    BY <1>0, <2>1, <2>3
<1> QED
  BY <1>1, <1>2, <1>3 DEF Further

\* The readings that the grammar starts from are sound.
LEMMA SimpleSound ==
  ASSUME NEW S, NEW s \in Seq(S), NEW v, NEW q \in Simple(s, v)
  PROVE  Sound(s, q.from, q.to)
<1>0. \A level, from, to, number :
        Reading(level, from, to, number).from = from /\ Reading(level, from, to, number).to = to
  BY DEF Reading
<1>1. DOMAIN s = 1 .. Len(s) /\ Len(s) \in Nat
  OBVIOUS
<1>2. PICK n \in DOMAIN s :
        \/ s[n].type \in {"kint8", "kname"} /\ \E m : q = Reading(0, n, n, m)
        \/ s[n].type = "minus" /\ Glued(s, n) /\ \E m : q = Reading(0, n, n + 1, m)
  BY DEF Simple
<1>3. CASE s[n].type \in {"kint8", "kname"}
  <2>1. q.from = n /\ q.to = n
    BY <1>0, <1>2, <1>3
  <2> QED
    BY <1>1, <1>3, <2>1, SoundOne
<1>4. CASE s[n].type = "minus" /\ Glued(s, n) /\ \E m : q = Reading(0, n, n + 1, m)
  <2>1. q.from = n /\ q.to = n + 1
    BY <1>0, <1>4
  <2>2. n < Len(s) /\ s[n + 1].type = "kint8"
    BY <1>4 DEF Glued
  <2> QED
    BY <1>1, <1>4, <2>1, <2>2, SoundSigned
<1> QED
  BY <1>2, <1>3, <1>4

\* So all readings are, by induction on the steps.
LEMMA ReadingsSound ==
  ASSUME NEW S, NEW s \in Seq(S), NEW v, NEW n \in 0 .. 3 * Len(s), NEW r \in Made(s, v)[n]
  PROVE  Sound(s, r.from, r.to)
<1>1. PICK g : g = Made(s, v)
  OBVIOUS
<1>2. PICK N \in Nat : N = 3 * Len(s) /\ Len(s) \in Nat
  OBVIOUS
<1> DEFINE T == {k \in 0 .. N : \A q \in g[k] : Sound(s, q.from, q.to)}
<1>3. 0 \in T
  BY <1>1, <1>2, MadeStep, SimpleSound
<1>4. ASSUME NEW k \in 0 .. N - 1, k \in T
      PROVE  k + 1 \in T
  <2>1. g[k + 1] = g[k] \cup Further(s, g[k])
    BY <1>1, <1>2, MadeStep
  <2>2. \A q \in g[k] : Sound(s, q.from, q.to)
    BY <1>4
  <2>3. ASSUME NEW q \in Further(s, g[k])
        PROVE  Sound(s, q.from, q.to)
    BY <1>2, <2>2, <2>3, FurtherSound
  <2>4. \A q \in g[k + 1] : Sound(s, q.from, q.to)
    BY <2>1, <2>2, <2>3
  <2>5. k + 1 \in 0 .. N
    OBVIOUS
  <2> QED
    BY <2>4, <2>5
<1> HIDE DEF T
<1>5. \A k \in 0 .. N : k \in T
  BY <1>3, <1>4, Climb
<1> QED
  BY <1>1, <1>2, <1>5 DEF T

\* A text that means something is sound.
LEMMA MeaningfulSound ==
  ASSUME NEW S, NEW s \in Seq(S), NEW v, Meanings(s, v) # {}
  PROVE  Sound(s, 1, Len(s))
<1>1. PICK r \in Made(s, v)[3 * Len(s)] : Whole(s, r)
  BY MeaningsMade
<1>2. 3 * Len(s) \in 0 .. 3 * Len(s)
  OBVIOUS
<1>3. Sound(s, r.from, r.to)
  BY <1>2, ReadingsSound
<1> QED
  BY <1>1, <1>3 DEF Whole

-----------------------------------------------------------------------------
(* The readings of what has been read of a formula. *)

\* What readings give is made in the next step.
LEMMA MadeFurther ==
  ASSUME NEW S, NEW s \in Seq(S), NEW v, NEW n \in 0 .. 3 * Len(s) - 1,
         NEW q \in Further(s, Made(s, v)[n])
  PROVE  q \in Made(s, v)[n + 1]
<1>1. Made(s, v)[n + 1] = Made(s, v)[n] \cup Further(s, Made(s, v)[n])
  BY MadeStep
<1> QED
  BY <1>1

\* A primary is a product, and a product a sum.
LEMMA Raised ==
  ASSUME NEW S, NEW s \in Seq(S), NEW v, NEW n \in 0 .. 3 * Len(s) - 1, NEW L \in 0 .. 1,
         NEW a, NEW b, NEW m, Reading(L, a, b, m) \in Made(s, v)[n]
  PROVE  Reading(L + 1, a, b, m) \in Made(s, v)[n + 1]
<1>1. PICK r \in Made(s, v)[n] : r = Reading(L, a, b, m)
  OBVIOUS
<1>2. r.level = L /\ r.from = a /\ r.to = b /\ r.number = m
  BY <1>1 DEF Reading
<1>3. Reading(r.level + 1, r.from, r.to, r.number) \in Further(s, Made(s, v)[n])
  BY <1>2 DEF Further
<1>4. Reading(r.level + 1, r.from, r.to, r.number) \in Made(s, v)[n + 1]
  BY <1>3, MadeFurther
<1> QED
  BY <1>2, <1>4

\* A sum in brackets is a primary.
LEMMA BracketRead ==
  ASSUME NEW S, NEW s \in Seq(S), NEW v, NEW n \in 0 .. 3 * Len(s) - 1, NEW a, NEW b,
         NEW m, Reading(2, a, b, m) \in Made(s, v)[n], a > 1, b < Len(s),
         s[a - 1].type = "kleft", s[b + 1].type = "kright"
  PROVE  Reading(0, a - 1, b + 1, m) \in Made(s, v)[n + 1]
<1>1. PICK r \in Made(s, v)[n] : r = Reading(2, a, b, m)
  OBVIOUS
<1>2. r.level = 2 /\ r.from = a /\ r.to = b /\ r.number = m
  BY <1>1 DEF Reading
<1>3. Reading(0, r.from - 1, r.to + 1, r.number) \in Further(s, Made(s, v)[n])
  BY <1>2 DEF Further
<1>4. Reading(0, r.from - 1, r.to + 1, r.number) \in Made(s, v)[n + 1]
  BY <1>3, MadeFurther
<1> QED
  BY <1>2, <1>4

\* Two parts and an operator between them are one.
LEMMA JoinRead ==
  ASSUME NEW S, NEW s \in Seq(S), NEW v, NEW n \in 0 .. 3 * Len(s) - 1, NEW L \in 1 .. 2,
         NEW a, NEW b, NEW d, NEW m, NEW p,
         Reading(L, a, b, m) \in Made(s, v)[n], Reading(L - 1, b + 2, d, p) \in Made(s, v)[n],
         s[b + 1].type \in OperatorsOf(L)
  PROVE  Reading(L, a, d, Apply(s[b + 1].type, m, p)) \in Made(s, v)[n + 1]
<1>1. PICK l \in Made(s, v)[n] : l = Reading(L, a, b, m)
  OBVIOUS
<1>2. l.level = L /\ l.from = a /\ l.to = b /\ l.number = m
  BY <1>1 DEF Reading
<1>3. PICK r \in Made(s, v)[n] : r = Reading(L - 1, b + 2, d, p)
  OBVIOUS
<1>4. r.level = L - 1 /\ r.from = b + 2 /\ r.to = d /\ r.number = p
  BY <1>3 DEF Reading
<1>5. Reading(l.level, l.from, r.to, Apply(s[l.to + 1].type, l.number, r.number))
        \in Further(s, Made(s, v)[n])
  BY <1>2, <1>4 DEF Further
<1>6. Reading(l.level, l.from, r.to, Apply(s[l.to + 1].type, l.number, r.number)) \in Made(s, v)[n + 1]
  BY <1>5, MadeFurther
<1> QED
  BY <1>2, <1>4, <1>6

\* After k brackets that are open, the places up to i are a sum with the number M
\* and an operator, if c is not the first place, and the product P from c on.
Derived(s, v, k, i, c, M, P) ==
  /\ Reading(1, c, i, P) \in Made(s, v)[3 * i - 1]
  /\ \/ c = k + 1
     \/ /\ c \in k + 3 .. Len(s) /\ s[c - 1].type \in {"kadd", "minus"}
        /\ Reading(2, k + 1, c - 2, M) \in Made(s, v)[3 * (c - 2)]
Total(s, k, c, M, P) == IF c = k + 1 THEN P ELSE Apply(s[c - 1].type, M, P)

\* So they are a sum.
LEMMA DerivedSum ==
  ASSUME NEW S, NEW s \in Seq(S), NEW v, NEW k \in Nat, NEW i \in 1 .. Len(s), NEW c \in 1 .. i,
         NEW M, NEW P, Derived(s, v, k, i, c, M, P)
  PROVE  Reading(2, k + 1, i, Total(s, k, c, M, P)) \in Made(s, v)[3 * i]
<1>1. PICK n : n = 3 * i - 1
  OBVIOUS
<1>2. n \in 0 .. 3 * Len(s) - 1 /\ n + 1 = 3 * i /\ n \in 0 .. 3 * Len(s)
  BY <1>1
<1>3. Reading(1, c, i, P) \in Made(s, v)[n]
  BY <1>1 DEF Derived
<1>4. CASE c = k + 1
  <2>1. Reading(1 + 1, c, i, P) \in Made(s, v)[n + 1]
    BY <1>2, <1>3, Raised
  <2> QED
    BY <1>2, <1>4, <2>1 DEF Total
<1>5. CASE c # k + 1
  <2>1. PICK b : b = c - 2
    OBVIOUS
  <2>2. /\ c \in k + 3 .. Len(s) /\ s[c - 1].type \in {"kadd", "minus"}
        /\ Reading(2, k + 1, c - 2, M) \in Made(s, v)[3 * (c - 2)]
    BY <1>5 DEF Derived
  <2>3. b + 1 = c - 1 /\ b + 2 = c /\ 3 * b \in 0 .. n /\ b \in Nat
    BY <1>1, <2>1, <2>2
  <2>4. Reading(2, k + 1, b, M) \in Made(s, v)[n]
    <3>1. Reading(2, k + 1, b, M) \in Made(s, v)[3 * b]
      BY <2>1, <2>2
    <3> QED
      BY <1>2, <2>3, <3>1, MadeGrows
  <2>5. s[b + 1].type \in OperatorsOf(2)
    BY <2>2, <2>3 DEF OperatorsOf
  <2>6. Reading(2 - 1, b + 2, i, P) \in Made(s, v)[n]
    BY <1>3, <2>3
  <2>7. Reading(2, k + 1, i, Apply(s[b + 1].type, M, P)) \in Made(s, v)[n + 1]
    BY <1>2, <2>4, <2>5, <2>6, JoinRead
  <2> QED
    BY <1>2, <1>5, <2>3, <2>7 DEF Total
<1> QED
  BY <1>4, <1>5

\* Operands are products.
LEMMA OperandProduct ==
  ASSUME NEW S, NEW s \in Seq(S), NEW v, NEW i \in 1 .. Len(s), NEW c, NEW Q,
         Reading(0, c, i, Q) \in Made(s, v)[0]
  PROVE  Reading(1, c, i, Q) \in Made(s, v)[3 * i - 1]
<1>1. 0 \in 0 .. 3 * Len(s) - 1 /\ 3 * i - 1 \in 0 .. 3 * Len(s) /\ 0 + 1 \in 0 .. 3 * i - 1
  OBVIOUS
<1>2. Reading(0 + 1, c, i, Q) \in Made(s, v)[0 + 1]
  BY <1>1, Raised
<1>3. Made(s, v)[0 + 1] \subseteq Made(s, v)[3 * i - 1]
  BY <1>1, MadeGrows
<1> QED
  BY <1>2, <1>3

\* The first operand after brackets.
LEMMA DerivedFirst ==
  ASSUME NEW S, NEW s \in Seq(S), NEW v, NEW k \in Nat, NEW i \in 1 .. Len(s), NEW Q, NEW M,
         Reading(0, k + 1, i, Q) \in Made(s, v)[0]
  PROVE  Derived(s, v, k, i, k + 1, M, Q)
BY OperandProduct DEF Derived

\* An operand after an operator of the first level.
LEMMA DerivedBinding ==
  ASSUME NEW S, NEW s \in Seq(S), NEW v, NEW k \in Nat, NEW i \in 1 .. Len(s), NEW c \in 1 .. i,
         NEW M, NEW P, Derived(s, v, k, i, c, M, P),
         NEW j \in i + 2 .. Len(s), NEW Q, Reading(0, i + 2, j, Q) \in Made(s, v)[0],
         s[i + 1].type \in Binding
  PROVE  Derived(s, v, k, j, c, M, Apply(s[i + 1].type, P, Q))
<1>1. PICK n : n = 3 * i - 1
  OBVIOUS
<1>2. /\ n \in 0 .. 3 * Len(s) - 1 /\ n \in 0 .. 3 * Len(s) /\ 0 \in 0 .. n
      /\ n + 1 \in 0 .. 3 * j - 1 /\ 3 * j - 1 \in 0 .. 3 * Len(s)
  BY <1>1
<1>3. Reading(1, c, i, P) \in Made(s, v)[n]
  BY <1>1 DEF Derived
<1>4. Reading(1 - 1, i + 2, j, Q) \in Made(s, v)[n]
  <2>1. Made(s, v)[0] \subseteq Made(s, v)[n]
    BY <1>2, MadeGrows
  <2> QED
    BY <2>1
<1>5. s[i + 1].type \in OperatorsOf(1) /\ 1 \in 1 .. 2
  BY DEF OperatorsOf
<1>0. n \in 0 .. 3 * Len(s) - 1
  BY <1>2
<1>6. Reading(1, c, j, Apply(s[i + 1].type, P, Q)) \in Made(s, v)[n + 1]
  BY <1>0, <1>3, <1>4, <1>5, JoinRead
<1>7. Made(s, v)[n + 1] \subseteq Made(s, v)[3 * j - 1]
  BY <1>2, MadeGrows
<1> QED
  BY <1>6, <1>7 DEF Derived

\* An operand after an operator of the second level.
LEMMA DerivedAdditive ==
  ASSUME NEW S, NEW s \in Seq(S), NEW v, NEW k \in Nat, NEW i \in 1 .. Len(s),
         NEW c \in k + 1 .. i,
         NEW M, NEW P, Derived(s, v, k, i, c, M, P),
         NEW j \in i + 2 .. Len(s), NEW Q, Reading(0, i + 2, j, Q) \in Made(s, v)[0],
         s[i + 1].type \in {"kadd", "minus"}
  PROVE  Derived(s, v, k, j, i + 2, Total(s, k, c, M, P), Q)
<1>1. j \in 1 .. Len(s) /\ c \in 1 .. i
  OBVIOUS
<1>2. Reading(1, i + 2, j, Q) \in Made(s, v)[3 * j - 1]
  BY <1>1, OperandProduct
<1>3. Reading(2, k + 1, i, Total(s, k, c, M, P)) \in Made(s, v)[3 * i]
  BY <1>1, DerivedSum
<1>4. (i + 2) - 1 = i + 1 /\ (i + 2) - 2 = i /\ i + 2 \in k + 3 .. Len(s)
  OBVIOUS
<1> QED
  BY <1>2, <1>3, <1>4 DEF Derived

\* A closing bracket.
LEMMA DerivedClosed ==
  ASSUME NEW S, NEW s \in Seq(S), NEW v, NEW k \in Nat \ {0}, NEW i \in 1 .. Len(s),
         NEW c \in k + 1 .. i, NEW M, NEW P, Derived(s, v, k, i, c, M, P),
         i < Len(s), s[k].type = "kleft", s[i + 1].type = "kright", NEW M0
  PROVE  Derived(s, v, k - 1, i + 1, k, M0, Total(s, k, c, M, P))
<1>0. c \in 1 .. i
  OBVIOUS
<1>1. Reading(2, k + 1, i, Total(s, k, c, M, P)) \in Made(s, v)[3 * i]
  BY <1>0, DerivedSum
<1>2. PICK m : m = Total(s, k, c, M, P)
  OBVIOUS
<1>3. PICK n : n = 3 * i
  OBVIOUS
<1>4. n \in 0 .. 3 * Len(s) - 1 /\ n + 1 \in 0 .. 3 * Len(s) - 1 /\ (n + 1) + 1 = 3 * (i + 1) - 1
  BY <1>3
<1>5. (k + 1) - 1 = k /\ k + 1 > 1 /\ (k - 1) + 1 = k
  OBVIOUS
<1>6. Reading(0, (k + 1) - 1, i + 1, m) \in Made(s, v)[n + 1]
  BY <1>1, <1>2, <1>3, <1>4, <1>5, BracketRead
<1>7. Reading(0, k, i + 1, m) \in Made(s, v)[n + 1]
  BY <1>5, <1>6
<1>8. Reading(0 + 1, k, i + 1, m) \in Made(s, v)[(n + 1) + 1]
  <2>1. PICK p \in 0 .. 3 * Len(s) - 1 : p = n + 1
    BY <1>4
  <2>2. Reading(0, k, i + 1, m) \in Made(s, v)[p] /\ 0 \in 0 .. 1
    BY <1>7, <2>1
  <2>3. Reading(0 + 1, k, i + 1, m) \in Made(s, v)[p + 1]
    BY <2>2, Raised
  <2> QED
    BY <2>1, <2>3
<1> QED
  BY <1>2, <1>4, <1>5, <1>8 DEF Derived

\* All of the text.
LEMMA DerivedMeaning ==
  ASSUME NEW S, NEW s \in Seq(S), NEW v, Len(s) # 0, NEW c \in 1 .. Len(s), NEW M, NEW P,
         Derived(s, v, 0, Len(s), c, M, P)
  PROVE  Total(s, 0, c, M, P) \in Meanings(s, v)
<1>1. Len(s) \in 1 .. Len(s) /\ 0 \in Nat /\ 0 + 1 = 1
  OBVIOUS
<1>2. PICK m : m = Total(s, 0, c, M, P)
  OBVIOUS
<1>3. Reading(2, 1, Len(s), m) \in Made(s, v)[3 * Len(s)]
  BY <1>1, <1>2, DerivedSum
<1>4. PICK r \in Made(s, v)[3 * Len(s)] : r = Reading(2, 1, Len(s), m)
  BY <1>3
<1>5. Whole(s, r) /\ r.number = m
  BY <1>4 DEF Whole, Reading
<1> QED
  BY <1>2, <1>5, MeaningsMade

-----------------------------------------------------------------------------
(* What load_expression makes of a text, if no sign in it stands alone. *)

NameOrBracket == {"kname", "kright"}

\* Node x is the place j of s, or a sign and the number at j; i is the place before.
MapsNode(s, x, i, j) ==
  \/ j = i + 1 /\ s[j].type # "minus" /\ x = s[j]
  \/ /\ j = i + 1 /\ s[j].type = "minus" /\ x.type = "ksub"
     /\ i >= 1 /\ s[i].type \in NameOrBracket
  \/ /\ j = i + 2 /\ s[i + 1].type = "minus" /\ s[j].type = "kint8"
     /\ x = Number(0 - s[j].v) /\ ~(i >= 1 /\ s[i].type \in NameOrBracket)

\* a gives the last place of each node of e in s.
Maps(s, e, a) ==
  /\ a \in [0 .. Len(e) -> 0 .. Len(s)] /\ a[0] = 0 /\ a[Len(e)] = Len(s)
  /\ \A n \in 1 .. Len(e) : MapsNode(s, e[n], a[n - 1], a[n])

\* One node more, for what the text has more.
LEMMA MapsMore ==
  ASSUME NEW s \in Seq(Lexeme), NEW e \in Seq(Node), NEW a, Maps(s, e, a),
         NEW r \in Seq(Lexeme), Len(r) >= Len(s), \A i \in 1 .. Len(s) : r[i] = s[i],
         NEW x \in Node, MapsNode(r, x, Len(s), Len(r))
  PROVE  \E b : Maps(r, Append(e, x), b)
<1>0. Append(e, x) \in Seq(Node)
  OBVIOUS
<1>1. PICK f \in Seq(Node) : f = Append(e, x)
  BY <1>0
<1>2. Len(f) = Len(e) + 1 /\ f[Len(e) + 1] = x /\ \A n \in 1 .. Len(e) : f[n] = e[n]
  BY <1>1
<1>3. Len(e) \in Nat /\ Len(s) \in Nat /\ Len(r) \in Nat
  OBVIOUS
<1>4. PICK N \in Nat : N = Len(e)
  BY <1>3
<1> DEFINE b == [n \in 0 .. N + 1 |-> IF n = N + 1 THEN Len(r) ELSE a[n]]
<1>5. /\ a \in [0 .. N -> 0 .. Len(s)] /\ a[0] = 0 /\ a[N] = Len(s)
      /\ \A n \in 1 .. N : MapsNode(s, e[n], a[n - 1], a[n])
  BY <1>4 DEF Maps
<1>6. /\ b[N + 1] = Len(r) /\ \A n \in 0 .. N : b[n] = a[n]
      /\ b \in [0 .. N + 1 -> 0 .. Len(r)]
  <2>1. \A n \in 0 .. N + 1 : n # N + 1 => n \in 0 .. N
    OBVIOUS
  <2>2. \A n \in 0 .. N : a[n] \in 0 .. Len(r)
    BY <1>3, <1>5
  <2>3. \A n \in 0 .. N : n \in 0 .. N + 1 /\ n # N + 1
    OBVIOUS
  <2>4. N + 1 \in 0 .. N + 1 /\ Len(r) \in 0 .. Len(r)
    BY <1>3
  <2> QED
    BY <2>1, <2>2, <2>3, <2>4
<1> HIDE DEF b
<1>7. ASSUME NEW n \in 1 .. N + 1
      PROVE  MapsNode(r, f[n], b[n - 1], b[n])
  <2>1. CASE n = N + 1
    <3>1. b[n] = Len(r) /\ b[n - 1] = Len(s) /\ f[n] = x
      BY <1>2, <1>4, <1>5, <1>6, <2>1
    <3> QED
      BY <3>1
  <2>2. CASE n # N + 1
    <3>1. n \in 1 .. N /\ n - 1 \in 0 .. N /\ n \in 0 .. N
      BY <2>2
    <3>2. PICK i, j : i = a[n - 1] /\ j = a[n]
      OBVIOUS
    <3>3. i \in 0 .. Len(s) /\ j \in 0 .. Len(s) /\ b[n - 1] = i /\ b[n] = j /\ f[n] = e[n]
      BY <1>2, <1>4, <1>5, <1>6, <3>1, <3>2
    <3>4. MapsNode(s, e[n], i, j)
      BY <1>5, <3>1, <3>2
    <3>5. j \in {i + 1, i + 2} => (i >= 1 => r[i] = s[i]) /\ r[j] = s[j] /\ r[i + 1] = s[i + 1]
      BY <1>3, <3>3
    <3>6. MapsNode(r, e[n], i, j)
      BY <3>4, <3>5 DEF MapsNode
    <3> QED
      BY <3>3, <3>6
  <2> QED
    BY <2>1, <2>2
<1>8. b[0] = 0
  BY <1>5, <1>6
<1>9. Maps(r, f, b)
  BY <1>2, <1>4, <1>6, <1>7, <1>8 DEF Maps
<1> QED
  BY <1>1, <1>9

\* The last node is a name or a bracket exactly if the last place is.
LEMMA LastMapped ==
  ASSUME NEW s \in Seq(Lexeme), NEW e \in Seq(Node), NEW a, Maps(s, e, a)
  PROVE  IsMinus(e) <=> EndsWith(s, NameOrBracket)
<1>1. Len(e) \in Nat /\ Len(s) \in Nat
  OBVIOUS
<1>2. PICK N \in Nat : N = Len(e)
  BY <1>1
<1>3. /\ a \in [0 .. N -> 0 .. Len(s)] /\ a[0] = 0 /\ a[N] = Len(s)
      /\ \A n \in 1 .. N : MapsNode(s, e[n], a[n - 1], a[n])
  BY <1>2 DEF Maps
<1>4. CASE N = 0
  <2>1. e = <<>> /\ s = <<>>
    <3>1. Len(e) = 0 /\ Len(s) = 0
      BY <1>2, <1>3, <1>4
    <3> QED
      BY <3>1, EmptySeq
  <2> QED
    BY <2>1 DEF IsMinus, EndsWith
<1>5. CASE N # 0
  <2>1. N \in 1 .. N /\ N - 1 \in 0 .. N
    BY <1>5
  <2>2. PICK i \in 0 .. Len(s) : i = a[N - 1]
    BY <1>3, <2>1
  <2>3. MapsNode(s, e[N], i, Len(s))
    BY <1>3, <2>1, <2>2
  <2>4. Len(s) # 0 /\ e # <<>> /\ s # <<>> /\ Last(e) = e[N] /\ Last(s) = s[Len(s)]
    BY <1>1, <1>2, <1>5, <2>2, <2>3 DEF MapsNode, Last
  <2>5. e[N].type \in NameOrBracket <=> s[Len(s)].type \in NameOrBracket
    BY <2>3 DEF MapsNode, NameOrBracket, Token, Number
  <2> QED
    BY <2>4, <2>5 DEF IsMinus, EndsWith, NameOrBracket
<1> QED
  BY <1>4, <1>5

NoLoneSign(t) ==
  \A i \in DOMAIN t : t[i].type = "minus" =>
    Glued(t, i) \/ EndsWith(Beginning(t, i - 1), NameOrBracket)

\* One step of load_expression keeps the nodes in line with the text.
LEMMA MapsStep ==
  ASSUME NEW t \in Seq(Lexeme), NEW e \in Seq(Node), NEW i \in 1 .. Len(t),
         t[i].type # "bad", NoLoneSign(t), \E a : Maps(Beginning(t, i - 1), e, a)
  PROVE  \E a : Maps(Beginning(t, (i + Taken(t, e, i)) - 1), Loaded(t, e, i), a)
<1>1. PICK s : s = Beginning(t, i - 1)
  OBVIOUS
<1>2. PICK a : Maps(s, e, a)
  BY <1>1
<1>3. t[i] \in Lexeme /\ i - 1 \in 0 .. Len(t) - 1 /\ (i - 1) + 1 = i /\ i - 1 \in 0 .. Len(t)
  OBVIOUS
<1>4. s \in Seq(Lexeme)
  BY <1>1, <1>3, StartStripped DEF Stripped
<1>5. PICK c \in Lexeme : c = t[i]
  BY <1>3
<1>6. Beginning(t, i) = IF c.type = "space" THEN s ELSE Append(s, c)
  BY <1>1, <1>3, <1>5, PlainStep
<1>0. Append(s, c) \in Seq(Lexeme)
  BY <1>4
<1>7. PICK q \in Seq(Lexeme) : q = Append(s, c)
  BY <1>0
<1>8. Len(q) = Len(s) + 1 /\ q[Len(q)] = c /\ (\A j \in 1 .. Len(s) : q[j] = s[j]) /\ Len(s) \in Nat
  BY <1>4, <1>7
<1>9. s # <<>> => Len(s) >= 1 /\ Last(s) = s[Len(s)]
  BY <1>4 DEF Last
<1>10. EndsWith(s, NameOrBracket) <=> Len(s) >= 1 /\ q[Len(s)].type \in NameOrBracket
  BY <1>4, <1>8, <1>9 DEF EndsWith
<1>11. CASE c.type = "space"
  <2>1. Loaded(t, e, i) = e /\ Taken(t, e, i) = 1 /\ (i + 1) - 1 = i
    BY <1>5, <1>11 DEF Loaded, Taken
  <2> QED
    BY <1>2, <1>6, <1>11, <2>1
<1>12. CASE c.type = "minus" /\ IsMinus(e)
  <2>1. Loaded(t, e, i) = Append(e, Token("ksub")) /\ Taken(t, e, i) = 1 /\ (i + 1) - 1 = i
    BY <1>5, <1>12 DEF Loaded, Taken
  <2>2. Token("ksub") \in Node
    BY DEF Token, Node, NodeType
  <2>3. EndsWith(s, NameOrBracket)
    BY <1>2, <1>4, <1>12, LastMapped
  <2>4. MapsNode(q, Token("ksub"), Len(s), Len(q))
    BY <1>8, <1>10, <1>12, <2>3 DEF MapsNode, Token
  <2>5. Len(q) >= Len(s)
    BY <1>8
  <2>6. \E b : Maps(q, Append(e, Token("ksub")), b)
    BY <1>2, <1>4, <1>8, <2>2, <2>4, <2>5, MapsMore
  <2> QED
    BY <1>6, <1>7, <1>12, <2>1, <2>6
<1>13. CASE c.type = "minus" /\ ~IsMinus(e)
  <2>1. ~EndsWith(s, NameOrBracket)
    BY <1>2, <1>4, <1>13, LastMapped
  <2>2. Glued(t, i)
    BY <1>1, <1>5, <1>13, <2>1 DEF NoLoneSign
  <2>3. i < Len(t) /\ t[i + 1].type = "kint8" /\ i + 1 \in 1 .. Len(t) /\ i \in 0 .. Len(t) - 1
    BY <2>2 DEF Glued
  <2>4. PICK d \in Lexeme : d = t[i + 1]
    BY <2>3
  <2>5. Beginning(t, i) = q
    BY <1>6, <1>7, <1>13
  <2>6. Beginning(t, i + 1) = Append(q, d)
    BY <2>3, <2>4, <2>5, PlainStep
  <2>0. Append(q, d) \in Seq(Lexeme)
    OBVIOUS
  <2>7. PICK r \in Seq(Lexeme) : r = Append(q, d)
    BY <2>0
  <2>8. Len(r) = Len(q) + 1 /\ r[Len(r)] = d /\ (\A j \in 1 .. Len(q) : r[j] = q[j])
    BY <1>7, <2>7
  <2>9. PICK x : x = Number(0 - d.v)
    OBVIOUS
  <2>10. d.v \in Int
    BY <2>4 DEF Lexeme
  <2>11. x \in Node
    BY <2>9, <2>10 DEF Number, Node, NodeType
  <2>12. Loaded(t, e, i) = Append(e, x) /\ Taken(t, e, i) = 2 /\ (i + 2) - 1 = i + 1
    BY <1>5, <1>13, <2>2, <2>4, <2>9 DEF Loaded, Taken
  <2>13. Len(r) = Len(s) + 2 /\ Len(r) >= Len(s) /\ \A j \in 1 .. Len(s) : r[j] = s[j]
    <3>1. \A j \in 1 .. Len(s) : j \in 1 .. Len(q)
      BY <1>8
    <3> QED
      BY <1>8, <2>8, <3>1
  <2>14. r[Len(s) + 1] = c /\ r[Len(r)] = d
    <3>1. Len(s) + 1 \in 1 .. Len(q) /\ q[Len(s) + 1] = c
      BY <1>8
    <3> QED
      BY <2>8, <3>1
  <2>15. ~(Len(s) >= 1 /\ r[Len(s)].type \in NameOrBracket)
    BY <1>8, <1>10, <2>1, <2>13
  <2>16. MapsNode(r, x, Len(s), Len(r))
    BY <1>13, <2>3, <2>4, <2>9, <2>13, <2>14, <2>15 DEF MapsNode
  <2>17. \E b : Maps(r, Append(e, x), b)
    BY <1>2, <1>4, <2>11, <2>13, <2>16, MapsMore
  <2> QED
    BY <2>6, <2>7, <2>12, <2>17
<1>14. CASE c.type \notin {"space", "minus"}
  <2>1. Loaded(t, e, i) = Append(e, c) /\ Taken(t, e, i) = 1 /\ (i + 1) - 1 = i
    BY <1>5, <1>14 DEF Loaded, Taken
  <2>2. c \in Node
    BY <1>5, <1>14 DEF Lexeme, Node
  <2>3. MapsNode(q, c, Len(s), Len(q))
    BY <1>8, <1>14 DEF MapsNode
  <2>4. Len(q) >= Len(s)
    BY <1>8
  <2>5. \E b : Maps(q, Append(e, c), b)
    BY <1>2, <1>4, <1>8, <2>2, <2>3, <2>4, MapsMore
  <2> QED
    BY <1>6, <1>7, <1>14, <2>1, <2>5
<1> QED
  BY <1>11, <1>12, <1>13, <1>14

-----------------------------------------------------------------------------
(* What check_expression makes of the nodes. *)

\* The first of the departures that a text may have up to i.
NoDeparture(s, i) ==
  \A j \in 2 .. i :
    /\ ~(s[j].type = "kleft" /\ s[j - 1].type \in Operators)
    /\ ~(s[j].type = "minus" /\ s[j - 1].type = "kint8")

\* A text that is refused with good reason.
Doomed(s) == ~(Sound(s, 1, Len(s)) /\ NoDeparture(s, Len(s)))

\* After the places up to i, k brackets are open, which are the first places.
Level(s, i, k) ==
  /\ \A j \in 1 .. k : s[j].type = "kleft"
  /\ \A h : Nested(s, h, 1, Len(s)) => h[i] = k

\* The stack after the places up to i: the open brackets, and above them nothing,
\* the mark of a number, or that and the mark of an operator.
Bare(st, i, k) == Len(st) = k /\ i = k
WithDigit(s, v, st, i, k) ==
  /\ Len(st) = k + 1 /\ st[k + 1] = "digit" /\ s[i].type \in Operand
  /\ \E c \in k + 1 .. i : \E M, P : Derived(s, v, k, i, c, M, P)
WithOpt(s, v, st, i, k) ==
  /\ Len(st) = k + 2 /\ st[k + 1] = "digit" /\ st[k + 2] = "opt" /\ s[i].type \in Operators
  /\ \E c \in k + 1 .. i - 1 : \E M, P : Derived(s, v, k, i - 1, c, M, P)
GoodStack(s, v, st, i) ==
  /\ NoDeparture(s, i)
  /\ \E k \in Nat :
       /\ Level(s, i, k) /\ \A j \in 1 .. k : st[j] = "left"
       /\ Bare(st, i, k) \/ WithDigit(s, v, st, i, k) \/ WithOpt(s, v, st, i, k)

\* A number without an operator after it, or an operator without a number, below
\* something else; no node mends that.
BadStack(st) ==
  \E j \in 1 .. Len(st) - 1 : st[j] = "opt" \/ (st[j] = "digit" /\ st[j + 1] # "opt")

\* No node that fits mends a bad stack.
LEMMA BadStays ==
  ASSUME NEW st, Safe(st), BadStack(st), NEW x \in Node, Fits(st, x)
  PROVE  BadStack(Checked(st, x))
<1>0. st \in Seq(StackItem) /\ Len(st) \in Nat
  BY DEF Safe
<1>1. PICK j \in 1 .. Len(st) - 1 : st[j] = "opt" \/ (st[j] = "digit" /\ st[j + 1] # "opt")
  BY DEF BadStack
<1>2. ASSUME NEW e \in StackItem
      PROVE  BadStack(Append(st, e))
  <2>1. PICK u : u = Append(st, e)
    OBVIOUS
  <2>2. Len(u) = Len(st) + 1 /\ \A n \in 1 .. Len(st) : u[n] = st[n]
    BY <1>0, <2>1
  <2>3. j \in 1 .. Len(u) - 1 /\ j \in 1 .. Len(st) /\ j + 1 \in 1 .. Len(st)
    BY <1>0, <2>2
  <2>4. BadStack(u)
    BY <1>1, <2>2, <2>3 DEF BadStack
  <2> QED
    BY <2>1, <2>4
<1>3. ASSUME Len(st) >= 2,
             (st[Len(st) - 1] = "left" /\ st[Len(st)] = "digit") \/ (st[Len(st)] = "opt" /\ st[Len(st) - 1] # "opt")
      PROVE  BadStack(Append(Popped(st, 2), "digit"))
  <2>1. PICK p : p = Popped(st, 2)
    OBVIOUS
  <2>2. p \in Seq(StackItem) /\ Len(p) = Len(st) - 2 /\ \A n \in 1 .. Len(p) : p[n] = st[n]
    <3>1. p = SubSeq(st, 1, Len(st) - 2)
      BY <2>1 DEF Popped
    <3>0. Len(st) - 2 \in Nat /\ Len(st) - 2 <= Len(st)
      BY <1>0, <1>3
    <3>2. PICK n \in Nat : n = Len(st) - 2 /\ n <= Len(st)
      BY <3>0
    <3>3. p = SubSeq(st, 1, n)
      BY <3>1, <3>2
    <3> QED
      BY <1>0, <3>2, <3>3
  <2>3. PICK u : u = Append(p, "digit")
    OBVIOUS
  <2>4. Len(u) = Len(p) + 1 /\ u[Len(p) + 1] = "digit" /\ \A n \in 1 .. Len(p) : u[n] = p[n]
    BY <2>2, <2>3
  <2>5. j # Len(st) - 1
    BY <1>0, <1>1, <1>3
  <2>6. j \in 1 .. Len(p) /\ j \in 1 .. Len(u) - 1 /\ u[j] = st[j] /\ Len(p) \in Nat
    BY <1>0, <1>3, <2>2, <2>4, <2>5
  <2>7. st[j] = "digit" => u[j + 1] # "opt"
    <3>1. CASE j = Len(p)
      BY <2>4, <3>1
    <3>2. CASE j # Len(p)
      <4>1. j + 1 \in 1 .. Len(p)
        BY <2>6, <3>2
      <4>2. u[j + 1] = st[j + 1]
        BY <2>2, <2>4, <4>1
      <4> QED
        BY <1>1, <4>2
    <3> QED
      BY <3>1, <3>2
  <2>8. BadStack(u)
    BY <1>1, <2>6, <2>7 DEF BadStack
  <2> QED
    BY <2>1, <2>3, <2>8
<1>4. CASE x.type = "kleft"
  BY <1>2, <1>4 DEF Checked, StackItem, IsFour, FourTypes
<1>5. CASE x.type = "kright"
  <2>1. Len(st) >= 2 /\ Top(st, 2) = <<"left", "digit">>
    BY <1>5 DEF Fits, IsFour, FourTypes, IsOperand
  <2>2. Top(st, 2)[1] = st[Len(st) - 1] /\ Top(st, 2)[2] = st[Len(st)]
    BY <1>0, <2>1 DEF Top
  <2>3. st[Len(st) - 1] = "left" /\ st[Len(st)] = "digit"
    BY <2>1, <2>2
  <2> QED
    BY <1>3, <1>5, <2>1, <2>3 DEF Checked, IsFour, FourTypes
<1>6. CASE IsFour(x)
  BY <1>2, <1>6 DEF Checked, StackItem, IsFour, FourTypes
<1>7. CASE IsOperand(x)
  <2>1. CASE IsTop(st, "opt")
    <3>1. Len(st) >= 2 /\ st[Len(st)] = "opt"
      BY <1>0, <1>1, <2>1 DEF IsTop, Last
    <3>2. st[Len(st) - 1] # "opt"
      <4>1. Len(st) \in DOMAIN st
        BY <1>0, <3>1
      <4> QED
        BY <3>1, <4>1 DEF Safe
    <3> QED
      BY <1>3, <1>7, <2>1, <3>1, <3>2 DEF Checked, IsOperand, IsFour, FourTypes
  <2>2. CASE ~IsTop(st, "opt")
    BY <1>2, <1>7, <2>2 DEF Checked, StackItem, IsOperand, IsFour, FourTypes
  <2> QED
    BY <2>1, <2>2
<1> QED
  BY <1>4, <1>5, <1>6, <1>7 DEF Fits

\* What a node may be in the text.
LEMMA Forms ==
  ASSUME NEW s \in Seq(Lexeme), NEW x \in Node, NEW i \in 0 .. Len(s), NEW j \in 0 .. Len(s),
         MapsNode(s, x, i, j)
  PROVE  /\ i + 1 \in 1 .. Len(s) /\ j \in i + 1 .. i + 2
         /\ ~IsFour(x) /\ ~IsOperand(x) => j = i + 1 /\ s[j] = x /\ s[j].type # "minus"
         /\ IsFour(x) => /\ j = i + 1 /\ s[j].type \in Operators
                         /\ \/ s[j].type # "minus" /\ x = s[j] /\ x.type # "ksub"
                            \/ s[j].type = "minus" /\ x.type = "ksub"
                               /\ i >= 1 /\ s[i].type \in NameOrBracket
         /\ IsOperand(x) =>
              \/ j = i + 1 /\ s[j] = x /\ s[j].type \in {"kint8", "kname"}
              \/ /\ j = i + 2 /\ s[i + 1].type = "minus" /\ s[j].type = "kint8"
                 /\ x = Number(0 - s[j].v) /\ ~(i >= 1 /\ s[i].type \in NameOrBracket)
<1>0. Len(s) \in Nat
  OBVIOUS
<1>1. i + 1 \in 1 .. Len(s) /\ j \in i + 1 .. i + 2 /\ (j = i + 1 \/ j = i + 2)
  BY <1>0 DEF MapsNode
<1>2. s[j] \in Lexeme
  BY <1>0, <1>1
<1>3. s[j].type # "ksub"
  BY <1>2 DEF Lexeme
<1>4. CASE j = i + 1 /\ s[j].type # "minus" /\ x = s[j]
  BY <1>1, <1>3, <1>4 DEF IsFour, FourTypes, IsOperand, Operators, Binding
<1>5. CASE /\ j = i + 1 /\ s[j].type = "minus" /\ x.type = "ksub"
           /\ i >= 1 /\ s[i].type \in NameOrBracket
  BY <1>1, <1>5 DEF IsFour, FourTypes, IsOperand, Operators, Token
<1>6. CASE /\ j = i + 2 /\ s[i + 1].type = "minus" /\ s[j].type = "kint8"
           /\ x = Number(0 - s[j].v) /\ ~(i >= 1 /\ s[i].type \in NameOrBracket)
  BY <1>1, <1>6 DEF IsFour, FourTypes, IsOperand, Number
<1> QED
  BY <1>4, <1>5, <1>6 DEF MapsNode

\* A bracket is itself in the text.
LEMMA BracketPlace ==
  ASSUME NEW s \in Seq(Lexeme), NEW x \in Node, NEW i \in 0 .. Len(s), NEW j \in 0 .. Len(s),
         MapsNode(s, x, i, j), x.type \in {"kleft", "kright"}
  PROVE  j = i + 1 /\ s[j].type = x.type
BY DEF MapsNode, Token, Number

\* The number of an operand.
NumberOf(x, v) == IF x.type = "kint8" THEN Int2Num(x.v) ELSE Int2Num(v[x.v])

\* An operand is read as a primary at once.
LEMMA OperandRead ==
  ASSUME NEW s \in Seq(Lexeme), NEW v, NEW x \in Node, NEW i \in 0 .. Len(s),
         NEW j \in 0 .. Len(s), MapsNode(s, x, i, j), IsOperand(x)
  PROVE  Reading(0, i + 1, j, NumberOf(x, v)) \in Made(s, v)[0]
<1>0. DOMAIN s = 1 .. Len(s) /\ Len(s) \in Nat
  OBVIOUS
<1>1. i + 1 \in DOMAIN s
  BY <1>0, Forms
<1>2. CASE j = i + 1 /\ s[j] = x /\ s[j].type \in {"kint8", "kname"}
  <2>1. j \in DOMAIN s /\ i + 1 = j
    BY <1>1, <1>2
  <2>2. CASE s[j].type = "kint8"
    <3>1. Reading(0, j, j, Int2Num(s[j].v)) \in Simple(s, v)
      BY <2>1, <2>2 DEF Simple
    <3>2. NumberOf(x, v) = Int2Num(s[j].v)
      BY <1>2, <2>2 DEF NumberOf
    <3> QED
      BY <2>1, <3>1, <3>2, MadeStep
  <2>3. CASE s[j].type = "kname"
    <3>1. Reading(0, j, j, Int2Num(v[s[j].v])) \in Simple(s, v)
      BY <2>1, <2>3 DEF Simple
    <3>2. NumberOf(x, v) = Int2Num(v[s[j].v])
      BY <1>2, <2>3 DEF NumberOf
    <3> QED
      BY <2>1, <3>1, <3>2, MadeStep
  <2> QED
    BY <1>2, <2>2, <2>3
<1>3. CASE /\ j = i + 2 /\ s[i + 1].type = "minus" /\ s[j].type = "kint8"
           /\ x = Number(0 - s[j].v)
  <2>1. PICK n \in DOMAIN s : n = i + 1
    BY <1>1
  <2>2. n + 1 = j /\ n < Len(s) /\ s[n].type = "minus" /\ s[n + 1].type = "kint8"
    BY <1>0, <1>3, <2>1
  <2>3. Glued(s, n)
    BY <2>2 DEF Glued
  <2>4. Reading(0, n, n + 1, Int2Num(0 - s[n + 1].v)) \in Simple(s, v)
    BY <2>2, <2>3 DEF Simple
  <2>5. NumberOf(x, v) = Int2Num(0 - s[n + 1].v)
    BY <1>3, <2>2 DEF NumberOf, Number
  <2> QED
    BY <2>1, <2>2, <2>4, <2>5, MadeStep
<1> QED
  BY <1>2, <1>3, Forms

-----------------------------------------------------------------------------
(* Reasons to refuse a text. *)

\* Two neighbours that no reading has.
LEMMA DoomedPair ==
  ASSUME NEW s \in Seq(Lexeme), NEW n \in 1 .. Len(s), n < Len(s),
         ~Adjacent(s[n].type, s[n + 1].type)
  PROVE  Doomed(s)
<1>1. n \in 1 .. Len(s) - 1
  OBVIOUS
<1> QED
  BY <1>1 DEF Doomed, Sound

\* A lexeme that no reading has.
LEMMA DoomedUnknown ==
  ASSUME NEW s \in Seq(Lexeme), NEW n \in 1 .. Len(s),
         s[n].type \notin Starts \cup Operand \cup Operators
  PROVE  Doomed(s)
BY DEF Doomed, Sound

\* One of the two departures.
LEMMA DoomedDeparture ==
  ASSUME NEW s \in Seq(Lexeme), NEW n \in 1 .. Len(s), n < Len(s),
         \/ s[n + 1].type = "kleft" /\ s[n].type \in Operators
         \/ s[n + 1].type = "minus" /\ s[n].type = "kint8"
  PROVE  Doomed(s)
<1>1. n + 1 \in 2 .. Len(s) /\ (n + 1) - 1 = n
  OBVIOUS
<1> QED
  BY <1>1 DEF Doomed, NoDeparture

\* A node that is neither an operand nor an operator nor a bracket.
LEMMA DoomedNode ==
  ASSUME NEW s \in Seq(Lexeme), NEW x \in Node, NEW i \in 0 .. Len(s), NEW j \in 0 .. Len(s),
         MapsNode(s, x, i, j), ~IsFour(x), ~IsOperand(x), x.type \notin {"kleft", "kright"}
  PROVE  Doomed(s)
<1>1. j = i + 1 /\ s[j] = x /\ s[j].type # "minus" /\ j \in 1 .. Len(s)
  BY Forms
<1>2. s[j] \in Lexeme
  BY <1>1
<1>3. s[j].type \notin Starts \cup Operand \cup Operators
  BY <1>1, <1>2 DEF IsFour, FourTypes, IsOperand, Starts, Operand, Operators, Binding
<1> QED
  BY <1>1, <1>3, DoomedUnknown

\* An operator or a closing bracket first, or after what is no operand.
LEMMA DoomedFirst ==
  ASSUME NEW s \in Seq(Lexeme), NEW x \in Node, NEW i \in 0 .. Len(s), NEW j \in 0 .. Len(s),
         MapsNode(s, x, i, j), IsFour(x) \/ x.type = "kright",
         i >= 1 => s[i].type \in Operators \cup {"kleft"}
  PROVE  Doomed(s)
<1>0. i >= 1 => s[i].type \notin NameOrBracket /\ s[i].type \notin Operand
  BY DEF Operators, Binding, NameOrBracket, Operand
<1>1. j = i + 1 /\ j \in 1 .. Len(s)
  BY Forms DEF IsFour, FourTypes, IsOperand
<1>2. s[j].type \notin Starts
  <2>1. CASE IsFour(x)
    BY <1>0, <2>1, Forms DEF IsFour, FourTypes, Starts
  <2>2. CASE x.type = "kright"
    <3>1. ~IsFour(x) /\ ~IsOperand(x)
      BY <2>2 DEF IsFour, FourTypes, IsOperand
    <3>2. s[j] = x
      BY <3>1, Forms
    <3> QED
      BY <2>2, <3>2 DEF Starts
  <2> QED
    BY <2>1, <2>2
<1>3. CASE i = 0
  BY <1>1, <1>2, <1>3 DEF Doomed, Sound
<1>4. CASE i >= 1
  <2>1. ~Adjacent(s[i].type, s[i + 1].type)
    BY <1>0, <1>1, <1>2, <1>4 DEF Adjacent
  <2> QED
    BY <1>1, <1>4, <2>1, DoomedPair
<1> QED
  BY <1>3, <1>4

-----------------------------------------------------------------------------
(* One step of check_expression, for each kind of stack. *)

\* How many brackets are open a place, or an operand, further.
LEMMA LevelAt ==
  ASSUME NEW s \in Seq(Lexeme), NEW i \in 0 .. Len(s) - 1, NEW k \in Int, Level(s, i, k),
         NEW h, Nested(s, h, 1, Len(s))
  PROVE  h[i + 1] = k + Delta(s[i + 1].type)
<1>1. i + 1 \in 1 .. Len(s) /\ (i + 1) - 1 = i
  OBVIOUS
<1>2. h[i + 1] = h[i] + Delta(s[i + 1].type)
  BY <1>1 DEF Nested
<1>3. h[i] = k
  BY DEF Level
<1> QED
  BY <1>2, <1>3

\* An operand leaves the brackets as they are.
LEMMA LevelOperand ==
  ASSUME NEW s \in Seq(Lexeme), NEW x \in Node, NEW i \in 0 .. Len(s), NEW j \in 0 .. Len(s),
         MapsNode(s, x, i, j), IsOperand(x), NEW k \in Int, Level(s, i, k)
  PROVE  Level(s, j, k)
<1>0. i \in 0 .. Len(s) - 1
  <2>1. i + 1 \in 1 .. Len(s)
    BY Forms
  <2> QED
    BY <2>1
<1>1. CASE j = i + 1 /\ s[j].type \in {"kint8", "kname"}
  <2>1. Delta(s[i + 1].type) = 0
    BY <1>1 DEF Delta
  <2>2. \A h : Nested(s, h, 1, Len(s)) => h[i + 1] = k
    BY <1>0, <2>1, LevelAt
  <2> QED
    BY <1>1, <2>2 DEF Level
<1>2. CASE j = i + 2 /\ s[i + 1].type = "minus" /\ s[j].type = "kint8"
  <2>1. Delta(s[i + 1].type) = 0
    BY <1>2 DEF Delta
  <2>2. \A h : Nested(s, h, 1, Len(s)) => h[i + 1] = k
    BY <1>0, <2>1, LevelAt
  <2>3. Level(s, i + 1, k)
    BY <2>2 DEF Level
  <2>4. i + 1 \in 0 .. Len(s) - 1 /\ (i + 1) + 1 = j
    BY <1>0, <1>2
  <2>5. Delta(s[(i + 1) + 1].type) = 0
    BY <1>2, <2>4 DEF Delta
  <2>6. \A h : Nested(s, h, 1, Len(s)) => h[(i + 1) + 1] = k
    BY <2>3, <2>4, <2>5, LevelAt
  <2> QED
    BY <2>3, <2>4, <2>6 DEF Level
<1> QED
  BY <1>1, <1>2, Forms

\* So does an operator.
LEMMA LevelOperator ==
  ASSUME NEW s \in Seq(Lexeme), NEW i \in 0 .. Len(s) - 1, NEW k \in Int, Level(s, i, k),
         s[i + 1].type \in Operators
  PROVE  Level(s, i + 1, k)
<1>1. Delta(s[i + 1].type) = 0
  BY DEF Delta, Operators, Binding
<1>2. \A h : Nested(s, h, 1, Len(s)) => h[i + 1] = k
  BY <1>1, LevelAt
<1> QED
  BY <1>2 DEF Level

\* An operand makes no departure, save a signed one after a number.
LEMMA OperandNoDeparture ==
  ASSUME NEW s \in Seq(Lexeme), NEW x \in Node, NEW i \in 0 .. Len(s), NEW j \in 0 .. Len(s),
         MapsNode(s, x, i, j), IsOperand(x), NoDeparture(s, i), i >= 1 => s[i].type # "kint8"
  PROVE  NoDeparture(s, j)
<1> SUFFICES ASSUME NEW n \in 2 .. j
             PROVE  /\ ~(s[n].type = "kleft" /\ s[n - 1].type \in Operators)
                    /\ ~(s[n].type = "minus" /\ s[n - 1].type = "kint8")
  BY DEF NoDeparture
<1>1. CASE n \in 2 .. i
  BY <1>1 DEF NoDeparture
<1>2. CASE n \notin 2 .. i
  <2>1. CASE j = i + 1 /\ s[j].type \in {"kint8", "kname"}
    <3>1. n = j
      BY <1>2, <2>1
    <3> QED
      BY <2>1, <3>1
  <2>2. CASE j = i + 2 /\ s[i + 1].type = "minus" /\ s[j].type = "kint8"
    <3>1. n = i + 1 \/ n = j
      BY <1>2, <2>2
    <3>2. CASE n = i + 1
      <4>1. i >= 1 /\ n - 1 = i
        BY <3>2
      <4> QED
        BY <2>2, <3>2, <4>1
    <3>3. CASE n = j
      BY <2>2, <3>3
    <3> QED
      BY <3>1, <3>2, <3>3
  <2> QED
    BY <2>1, <2>2, Forms
<1> QED
  BY <1>1, <1>2

\* One place more without a departure.
LEMMA NextNoDeparture ==
  ASSUME NEW s \in Seq(Lexeme), NEW i \in Nat, NoDeparture(s, i),
         i >= 1 => /\ ~(s[i + 1].type = "kleft" /\ s[i].type \in Operators)
                   /\ ~(s[i + 1].type = "minus" /\ s[i].type = "kint8")
  PROVE  NoDeparture(s, i + 1)
<1> SUFFICES ASSUME NEW n \in 2 .. i + 1
             PROVE  /\ ~(s[n].type = "kleft" /\ s[n - 1].type \in Operators)
                    /\ ~(s[n].type = "minus" /\ s[n - 1].type = "kint8")
  BY DEF NoDeparture
<1>1. CASE n \in 2 .. i
  BY <1>1 DEF NoDeparture
<1>2. CASE n = i + 1
  <2>1. i >= 1 /\ n - 1 = i
    BY <1>2
  <2> QED
    BY <1>2, <2>1
<1> QED
  BY <1>1, <1>2

\* The stacks after a node.
LEMMA AppendedMark ==
  ASSUME NEW st \in Seq(StackItem), NEW e \in StackItem
  PROVE  /\ Append(st, e) \in Seq(StackItem) /\ Len(Append(st, e)) = Len(st) + 1
         /\ Append(st, e)[Len(st) + 1] = e
         /\ \A n \in 1 .. Len(st) : Append(st, e)[n] = st[n]
OBVIOUS

\* Two marks are replaced by that of a number.
LEMMA PoppedMarks ==
  ASSUME NEW st \in Seq(StackItem), Len(st) >= 2
  PROVE  /\ Append(Popped(st, 2), "digit") \in Seq(StackItem)
         /\ Len(Append(Popped(st, 2), "digit")) = Len(st) - 1
         /\ Append(Popped(st, 2), "digit")[Len(st) - 1] = "digit"
         /\ \A n \in 1 .. Len(st) - 2 : Append(Popped(st, 2), "digit")[n] = st[n]
<1>0. Len(st) - 2 \in Nat /\ Len(st) - 2 <= Len(st)
  OBVIOUS
<1>1. PICK m \in Nat : m = Len(st) - 2 /\ m <= Len(st)
  BY <1>0
<1>2. PICK p : p = SubSeq(st, 1, m)
  OBVIOUS
<1>3. p \in Seq(StackItem) /\ Len(p) = m /\ \A n \in 1 .. m : p[n] = st[n]
  <2>1. Len(st) \in Nat /\ \A n \in 1 .. Len(st) : st[n] \in StackItem
    OBVIOUS
  <2>2. \A n \in 1 .. m : st[n] \in StackItem
    BY <1>1, <2>1
  <2>3. /\ p \in Seq(StackItem)
        /\ Len(p) = IF 1 <= m THEN m - 1 + 1 ELSE 0
        /\ \A n \in 1 .. m - 1 + 1 : p[n] = st[1 + n - 1]
    BY <1>2, <2>2, SubSeqProperties
  <2>4. m - 1 + 1 = m /\ \A n \in 1 .. m : 1 + n - 1 = n
    OBVIOUS
  <2>5. Len(p) = m
    BY <2>3
  <2>6. \A n \in 1 .. m : p[n] = st[n]
    BY <2>3, <2>4
  <2> QED
    BY <2>3, <2>5, <2>6
<1>4. PICK u : u = Append(p, "digit")
  OBVIOUS
<1>5. "digit" \in StackItem
  BY DEF StackItem
<1>6. u \in Seq(StackItem) /\ Len(u) = m + 1 /\ u[m + 1] = "digit" /\ \A n \in 1 .. m : u[n] = p[n]
  BY <1>3, <1>4, <1>5, AppendedMark
<1>7. Popped(st, 2) = p
  BY <1>1, <1>2 DEF Popped
<1>8. m + 1 = Len(st) - 1
  BY <1>1
<1> QED
  BY <1>1, <1>3, <1>4, <1>6, <1>7, <1>8

\* What must hold after a node x, the last place of which is j.
Outcome(s, v, st, x, j) ==
  IF Fits(st, x)
  THEN GoodStack(s, v, Checked(st, x), j) \/ (BadStack(Checked(st, x)) /\ Doomed(s))
  ELSE Doomed(s)

\* A node is of one kind only.
LEMMA NodeKinds ==
  ASSUME NEW x
  PROVE  /\ x.type = "kleft" => ~IsFour(x) /\ ~IsOperand(x) /\ x.type # "kright"
         /\ x.type = "kright" => ~IsFour(x) /\ ~IsOperand(x)
         /\ IsFour(x) => ~IsOperand(x)
BY DEF IsFour, FourTypes, IsOperand

\* What check_expression does with brackets.
LEMMA StepKinds ==
  ASSUME NEW st, NEW x
  PROVE  /\ x.type = "kleft" => Fits(st, x) /\ Checked(st, x) = Append(st, "left")
         /\ x.type = "kright" =>
              /\ Fits(st, x) <=> (Len(st) >= 2 /\ Top(st, 2) = <<"left", "digit">>)
              /\ Checked(st, x) = Append(Popped(st, 2), "digit")
BY DEF Fits, Checked, IsFour, FourTypes, IsOperand

\* A number in brackets, as the closing one finds it.
LEMMA TopTwo ==
  ASSUME NEW st \in Seq(StackItem), Len(st) >= 2, st[Len(st)] = "digit", st[Len(st) - 1] = "left"
  PROVE  Top(st, 2) = <<"left", "digit">>
<1>1. PICK m \in Nat : m = Len(st) /\ m >= 2
  OBVIOUS
<1>2. \A n \in m - 1 .. m : st[n] \in StackItem
  BY <1>1
<1>3. Top(st, 2) = SubSeq(st, m - 1, m)
  BY <1>1 DEF Top
<1>4. PICK u : u = SubSeq(st, m - 1, m)
  OBVIOUS
<1>5. /\ u \in Seq(StackItem)
      /\ Len(u) = IF m - 1 <= m THEN m - (m - 1) + 1 ELSE 0
      /\ \A n \in 1 .. m - (m - 1) + 1 : u[n] = st[(m - 1) + n - 1]
  BY <1>2, <1>4, SubSeqProperties
<1>6. Len(u) = 2 /\ u[1] = st[m - 1] /\ u[2] = st[m]
  <2>1. m - (m - 1) + 1 = 2 /\ (m - 1) + 1 - 1 = m - 1 /\ (m - 1) + 2 - 1 = m
    OBVIOUS
  <2> QED
    BY <1>5, <2>1
<1>7. u = <<"left", "digit">>
  <2>1. u[1] = "left" /\ u[2] = "digit"
    BY <1>1, <1>6
  <2> QED
    BY <1>5, <1>6, <2>1
<1> QED
  BY <1>3, <1>4, <1>7

\* After brackets only.
LEMMA AfterBrackets ==
  ASSUME NEW s \in Seq(Lexeme), NEW v, NEW x \in Node, NEW i \in 0 .. Len(s),
         NEW j \in 0 .. Len(s), MapsNode(s, x, i, j), NEW st \in Seq(StackItem),
         NoDeparture(s, i), Level(s, i, i), \A n \in 1 .. i : st[n] = "left", Len(st) = i
  PROVE  Outcome(s, v, st, x, j)
<1>0. /\ j \in i + 1 .. i + 2 /\ i + 1 \in 1 .. Len(s) /\ Len(s) \in Nat
      /\ j \in 1 .. Len(s)
  BY Forms
<1>1. i >= 1 => s[i].type = "kleft"
  BY DEF Level
<1>2. /\ ~IsTop(st, "digit") /\ ~IsTop(st, "opt")
      /\ ~(Len(st) >= 2 /\ Top(st, 2) = <<"left", "digit">>)
  <2>1. st # <<>> => Last(st) = "left"
    <3>1. st # <<>> => Len(st) \in 1 .. i
      BY EmptySeq
    <3> QED
      BY <3>1 DEF Last
  <2>2. Len(st) >= 2 => Top(st, 2)[2] = "left"
    BY DEF Top
  <2> QED
    BY <2>1, <2>2 DEF IsTop
<1>3. CASE x.type = "kleft"
  <2>1. j = i + 1 /\ s[j].type = "kleft"
    BY <1>3, BracketPlace
  <2>2. Checked(st, x) = Append(st, "left") /\ Fits(st, x)
    BY <1>3, StepKinds
  <2>3. PICK u : u = Append(st, "left")
    OBVIOUS
  <2>4. Len(u) = i + 1 /\ \A n \in 1 .. i + 1 : u[n] = "left"
    <3>1. "left" \in StackItem
      BY DEF StackItem
    <3>2. Len(u) = i + 1 /\ u[i + 1] = "left" /\ \A n \in 1 .. i : u[n] = st[n]
      BY <2>3, <3>1, AppendedMark
    <3>3. \A n \in 1 .. i + 1 : n \in 1 .. i \/ n = i + 1
      OBVIOUS
    <3> QED
      BY <3>2, <3>3
  <2>5. NoDeparture(s, i + 1)
    <3>1. i >= 1 => s[i].type \notin Operators
      BY <1>1 DEF Operators, Binding
    <3>2. s[i + 1].type = "kleft" /\ s[i + 1].type # "minus"
      BY <2>1
    <3>3. i \in Nat
      OBVIOUS
    <3> QED
      BY <3>1, <3>2, <3>3, NextNoDeparture
  <2>6. Level(s, i + 1, i + 1)
    <3>1. Delta(s[i + 1].type) = 1 /\ i \in 0 .. Len(s) - 1
      BY <1>0, <2>1 DEF Delta
    <3>2. \A h : Nested(s, h, 1, Len(s)) => h[i + 1] = i + 1
      BY <3>1, LevelAt
    <3>3. \A n \in 1 .. i + 1 : n \in 1 .. i \/ n = i + 1
      OBVIOUS
    <3>4. \A n \in 1 .. i + 1 : s[n].type = "kleft"
      BY <2>1, <3>3 DEF Level
    <3> QED
      BY <3>2, <3>4 DEF Level
  <2>7. Bare(u, i + 1, i + 1) /\ i + 1 \in Nat
    BY <2>4 DEF Bare
  <2>8. GoodStack(s, v, u, i + 1)
    BY <2>4, <2>5, <2>6, <2>7 DEF GoodStack
  <2> QED
    BY <2>1, <2>2, <2>3, <2>8 DEF Outcome
<1>4. CASE IsOperand(x)
  <2>1. Checked(st, x) = Append(st, "digit") /\ Fits(st, x)
    BY <1>2, <1>4, NodeKinds DEF Checked, Fits
  <2>2. PICK u : u = Append(st, "digit")
    OBVIOUS
  <2>3. Len(u) = i + 1 /\ u[i + 1] = "digit" /\ \A n \in 1 .. i : u[n] = "left"
    <3>1. "digit" \in StackItem
      BY DEF StackItem
    <3> QED
      BY <2>2, <3>1, AppendedMark
  <2>4. NoDeparture(s, j)
    BY <1>1, <1>4, OperandNoDeparture
  <2>5. Level(s, j, i)
    BY <1>4, LevelOperand
  <2>6. s[j].type \in Operand
    BY <1>4, Forms DEF Operand
  <2>7. Reading(0, i + 1, j, NumberOf(x, v)) \in Made(s, v)[0]
    BY <1>4, OperandRead
  <2>8. \A M : Derived(s, v, i, j, i + 1, M, NumberOf(x, v))
    BY <1>0, <2>7, DerivedFirst
  <2>9. WithDigit(s, v, u, j, i)
    <3>1. i + 1 \in i + 1 .. j
      BY <1>0
    <3> QED
      BY <2>3, <2>6, <2>8, <3>1 DEF WithDigit
  <2>10. GoodStack(s, v, u, j)
    BY <2>3, <2>4, <2>5, <2>9 DEF GoodStack
  <2> QED
    BY <2>1, <2>2, <2>10 DEF Outcome
<1>5. CASE IsFour(x) \/ x.type = "kright"
  <2>1. ~Fits(st, x)
    BY <1>2, <1>5, NodeKinds DEF Fits
  <2>2. Doomed(s)
    BY <1>1, <1>5, DoomedFirst
  <2> QED
    BY <2>1, <2>2 DEF Outcome
<1>6. CASE ~IsFour(x) /\ ~IsOperand(x) /\ x.type \notin {"kleft", "kright"}
  <2>1. ~Fits(st, x)
    BY <1>6 DEF Fits
  <2>2. Doomed(s)
    BY <1>6, DoomedNode
  <2> QED
    BY <2>1, <2>2 DEF Outcome
<1> QED
  BY <1>3, <1>4, <1>5, <1>6

\* After a number, or a closed bracket.
LEMMA AfterDigit ==
  ASSUME NEW s \in Seq(Lexeme), NEW v, NEW x \in Node, NEW i \in 0 .. Len(s),
         NEW j \in 0 .. Len(s), MapsNode(s, x, i, j), NEW st \in Seq(StackItem),
         NEW k \in Nat, NoDeparture(s, i), Level(s, i, k), \A n \in 1 .. k : st[n] = "left",
         WithDigit(s, v, st, i, k)
  PROVE  Outcome(s, v, st, x, j)
<1>0. /\ j \in i + 1 .. i + 2 /\ i + 1 \in 1 .. Len(s) /\ Len(s) \in Nat
      /\ j \in 1 .. Len(s) /\ i < Len(s) /\ i \in 0 .. Len(s) - 1
  <2>1. j \in i + 1 .. i + 2 /\ i + 1 \in 1 .. Len(s)
    BY Forms
  <2> QED
    BY <2>1
<1>1. Len(st) = k + 1 /\ st[k + 1] = "digit" /\ s[i].type \in Operand
  BY DEF WithDigit
<1>2. PICK c, M, P : c \in k + 1 .. i /\ Derived(s, v, k, i, c, M, P)
  BY DEF WithDigit
<1>3. i \in 1 .. Len(s) /\ i >= 1
  BY <1>2
<1>4. IsTop(st, "digit") /\ ~IsTop(st, "opt")
  <2>1. st # <<>>
    BY <1>1, EmptySeq
  <2> QED
    BY <1>1, <2>1 DEF IsTop, Last
<1>5. ASSUME NEW e \in StackItem, e # "opt"
      PROVE  BadStack(Append(st, e))
  <2>1. PICK u : u = Append(st, e)
    OBVIOUS
  <2>2. Len(u) = k + 2 /\ u[k + 2] = e /\ u[k + 1] = "digit"
    <3>1. Len(u) = Len(st) + 1 /\ u[Len(st) + 1] = e /\ \A n \in 1 .. Len(st) : u[n] = st[n]
      BY <2>1, AppendedMark
    <3>2. k + 1 \in 1 .. Len(st) /\ (k + 1) + 1 = k + 2
      BY <1>1
    <3> QED
      BY <1>1, <3>1, <3>2
  <2>3. k + 1 \in 1 .. Len(u) - 1 /\ (k + 1) + 1 = k + 2
    BY <2>2
  <2> QED
    BY <1>5, <2>1, <2>2, <2>3 DEF BadStack
<1>6. CASE x.type = "kleft"
  <2>1. j = i + 1 /\ s[j].type = "kleft"
    BY <1>6, BracketPlace
  <2>2. Checked(st, x) = Append(st, "left") /\ Fits(st, x)
    BY <1>6, StepKinds
  <2>3. BadStack(Checked(st, x))
    BY <1>5, <2>2 DEF StackItem
  <2>4. ~Adjacent(s[i].type, s[i + 1].type)
    BY <1>1, <2>1 DEF Adjacent, Operators, Binding
  <2>5. Doomed(s)
    BY <1>0, <1>3, <2>4, DoomedPair
  <2> QED
    BY <2>2, <2>3, <2>5 DEF Outcome
<1>7. CASE IsOperand(x)
  <2>1. Checked(st, x) = Append(st, "digit") /\ Fits(st, x)
    BY <1>4, <1>7, NodeKinds DEF Checked, Fits
  <2>2. BadStack(Checked(st, x))
    BY <1>5, <2>1 DEF StackItem
  <2>3. Doomed(s)
    <3>1. CASE j = i + 1 /\ s[j].type \in {"kint8", "kname"}
      <4>1. ~Adjacent(s[i].type, s[i + 1].type)
        BY <1>1, <3>1 DEF Adjacent, Operators, Binding
      <4> QED
        BY <1>0, <1>3, <4>1, DoomedPair
    <3>2. CASE s[i + 1].type = "minus" /\ ~(i >= 1 /\ s[i].type \in NameOrBracket)
      <4>1. s[i].type = "kint8"
        BY <1>1, <1>3, <3>2 DEF Operand, NameOrBracket
      <4> QED
        BY <1>0, <1>3, <3>2, <4>1, DoomedDeparture
    <3> QED
      BY <1>7, <3>1, <3>2, Forms
  <2> QED
    BY <2>1, <2>2, <2>3 DEF Outcome
<1>8. CASE IsFour(x)
  <2>1. Checked(st, x) = Append(st, "opt") /\ Fits(st, x)
    BY <1>4, <1>8, NodeKinds DEF Checked, Fits
  <2>2. PICK u : u = Append(st, "opt")
    OBVIOUS
  <2>3. /\ Len(u) = k + 2 /\ u[k + 1] = "digit" /\ u[k + 2] = "opt"
        /\ \A n \in 1 .. k : u[n] = "left"
    <3>1. "opt" \in StackItem
      BY DEF StackItem
    <3>2. Len(u) = Len(st) + 1 /\ u[Len(st) + 1] = "opt" /\ \A n \in 1 .. Len(st) : u[n] = st[n]
      BY <2>2, <3>1, AppendedMark
    <3>3. k + 1 \in 1 .. Len(st) /\ (k + 1) + 1 = k + 2 /\ \A n \in 1 .. k : n \in 1 .. Len(st)
      BY <1>1
    <3> QED
      BY <1>1, <3>2, <3>3
  <2>4. j = i + 1 /\ s[j].type \in Operators
        /\ (s[j].type = "minus" => s[i].type \in NameOrBracket)
    BY <1>8, Forms
  <2>5. NoDeparture(s, i + 1)
    <3>1. s[j].type # "kleft"
      BY <2>4 DEF Operators, Binding
    <3>2. s[j].type = "minus" => s[i].type # "kint8"
      BY <2>4 DEF NameOrBracket
    <3> QED
      BY <2>4, <3>1, <3>2, NextNoDeparture
  <2>6. Level(s, i + 1, k)
    BY <1>0, <2>4, LevelOperator
  <2>7. WithOpt(s, v, u, i + 1, k)
    <3>1. (i + 1) - 1 = i
      OBVIOUS
    <3> QED
      BY <1>2, <2>3, <2>4, <3>1 DEF WithOpt
  <2>8. GoodStack(s, v, u, i + 1)
    BY <2>3, <2>5, <2>6, <2>7 DEF GoodStack
  <2> QED
    BY <2>1, <2>2, <2>4, <2>8 DEF Outcome
<1>9. CASE x.type = "kright" /\ k # 0
  <2>1. Len(st) >= 2 /\ st[Len(st)] = "digit" /\ st[Len(st) - 1] = "left"
    <3>1. k \in 1 .. k /\ Len(st) - 1 = k /\ Len(st) = k + 1 /\ Len(st) >= 2
      BY <1>1, <1>9
    <3> QED
      BY <1>1, <3>1
  <2>2. Top(st, 2) = <<"left", "digit">>
    BY <2>1, TopTwo
  <2>3. Fits(st, x) /\ Checked(st, x) = Append(Popped(st, 2), "digit")
    BY <1>9, <2>1, <2>2, StepKinds
  <2>4. PICK u : u = Append(Popped(st, 2), "digit")
    OBVIOUS
  <2>5. PICK m \in Nat : m = k - 1 /\ m + 1 = k
    <3>1. k - 1 \in Nat /\ (k - 1) + 1 = k
      BY <1>9
    <3> QED
      BY <3>1
  <2>6. Len(u) = m + 1 /\ u[m + 1] = "digit" /\ \A n \in 1 .. m : u[n] = "left"
    <3>1. Len(u) = Len(st) - 1 /\ u[Len(st) - 1] = "digit" /\ \A n \in 1 .. Len(st) - 2 : u[n] = st[n]
      BY <2>1, <2>4, PoppedMarks
    <3>2. Len(st) - 1 = m + 1 /\ Len(st) - 2 = m /\ \A n \in 1 .. m : n \in 1 .. k
      BY <1>1, <2>5
    <3> QED
      BY <3>1, <3>2
  <2>7. j = i + 1 /\ s[j].type = "kright"
    BY <1>9, BracketPlace
  <2>8. s[k].type = "kleft"
    <3>1. k \in 1 .. k
      BY <1>9
    <3> QED
      BY <3>1 DEF Level
  <2>9. Derived(s, v, k - 1, i + 1, k, M, Total(s, k, c, M, P))
    <3>1. k \in Nat \ {0}
      BY <1>9
    <3> QED
      BY <1>0, <1>2, <1>3, <2>7, <2>8, <3>1, DerivedClosed
  <2>10. NoDeparture(s, i + 1)
    BY <2>7, NextNoDeparture
  <2>11. Level(s, i + 1, m)
    <3>1. Delta(s[i + 1].type) = 0 - 1 /\ k + (0 - 1) = m
      BY <2>5, <2>7 DEF Delta
    <3>2. \A h : Nested(s, h, 1, Len(s)) => h[i + 1] = m
      BY <1>0, <3>1, LevelAt
    <3>3. \A n \in 1 .. m : n \in 1 .. k
      BY <2>5
    <3> QED
      BY <3>2, <3>3 DEF Level
  <2>12. WithDigit(s, v, u, i + 1, m)
    <3>1. k \in m + 1 .. i + 1
      BY <1>2, <2>5
    <3>2. s[i + 1].type \in Operand
      BY <2>7 DEF Operand
    <3> QED
      BY <2>5, <2>6, <2>9, <3>1, <3>2 DEF WithDigit
  <2>13. GoodStack(s, v, u, i + 1)
    BY <2>6, <2>10, <2>11, <2>12 DEF GoodStack
  <2> QED
    BY <2>3, <2>4, <2>7, <2>13 DEF Outcome
<1>10. CASE x.type = "kright" /\ k = 0
  <2>1. ~Fits(st, x)
    BY <1>1, <1>10, NodeKinds DEF Fits
  <2>2. j = i + 1 /\ s[j].type = "kright"
    BY <1>10, BracketPlace
  <2>3. ASSUME Sound(s, 1, Len(s))
        PROVE  FALSE
    <3>1. PICK h : Nested(s, h, 1, Len(s))
      BY <2>3 DEF Sound
    <3>2. Delta(s[i + 1].type) = 0 - 1
      BY <2>2 DEF Delta
    <3>3. h[i + 1] = k + (0 - 1)
      BY <1>0, <3>1, <3>2, LevelAt
    <3>4. i + 1 \in 1 - 1 .. Len(s)
      BY <1>0
    <3>5. h[i + 1] \in Nat
      BY <3>1, <3>4 DEF Nested
    <3> QED
      BY <1>10, <3>3, <3>5
  <2> QED
    BY <2>1, <2>3 DEF Outcome, Doomed
<1>11. CASE ~IsFour(x) /\ ~IsOperand(x) /\ x.type \notin {"kleft", "kright"}
  <2>1. ~Fits(st, x)
    BY <1>11 DEF Fits
  <2>2. Doomed(s)
    BY <1>11, DoomedNode
  <2> QED
    BY <2>1, <2>2 DEF Outcome
<1> QED
  BY <1>6, <1>7, <1>8, <1>9, <1>10, <1>11

\* After an operator.
LEMMA AfterOpt ==
  ASSUME NEW s \in Seq(Lexeme), NEW v, NEW x \in Node, NEW i \in 0 .. Len(s),
         NEW j \in 0 .. Len(s), MapsNode(s, x, i, j), NEW st \in Seq(StackItem),
         NEW k \in Nat, NoDeparture(s, i), Level(s, i, k), \A n \in 1 .. k : st[n] = "left",
         WithOpt(s, v, st, i, k)
  PROVE  Outcome(s, v, st, x, j)
<1>0. /\ j \in i + 1 .. i + 2 /\ i + 1 \in 1 .. Len(s) /\ Len(s) \in Nat
      /\ j \in 1 .. Len(s) /\ i < Len(s) /\ i \in 0 .. Len(s) - 1
  <2>1. j \in i + 1 .. i + 2 /\ i + 1 \in 1 .. Len(s)
    BY Forms
  <2> QED
    BY <2>1
<1>1. Len(st) = k + 2 /\ st[k + 1] = "digit" /\ st[k + 2] = "opt" /\ s[i].type \in Operators
  BY DEF WithOpt
<1>2. PICK c, M, P : c \in k + 1 .. i - 1 /\ Derived(s, v, k, i - 1, c, M, P)
  BY DEF WithOpt
<1>3. PICK d \in 1 .. Len(s) : d = i - 1 /\ d + 1 = i /\ d + 2 = i + 1
  <2>1. i - 1 \in 1 .. Len(s) /\ (i - 1) + 1 = i /\ (i - 1) + 2 = i + 1
    BY <1>2
  <2> QED
    BY <2>1
<1>4. i \in 1 .. Len(s) /\ i >= 1 /\ c \in k + 1 .. d /\ c \in 1 .. d
      /\ Derived(s, v, k, d, c, M, P)
  BY <1>2, <1>3
<1>5. IsTop(st, "opt") /\ ~IsTop(st, "digit") /\ ~(Top(st, 2) = <<"left", "digit">>)
  <2>1. st # <<>> /\ st[Len(st)] = "opt"
    BY <1>1, EmptySeq
  <2>2. Top(st, 2)[2] = "opt"
    BY <1>1 DEF Top
  <2> QED
    BY <2>1, <2>2 DEF IsTop, Last
<1>6. CASE x.type = "kleft"
  <2>1. j = i + 1 /\ s[j].type = "kleft"
    BY <1>6, BracketPlace
  <2>2. Checked(st, x) = Append(st, "left") /\ Fits(st, x)
    BY <1>6, StepKinds
  <2>3. BadStack(Append(st, "left"))
    <3>1. PICK u : u = Append(st, "left")
      OBVIOUS
    <3>2. "left" \in StackItem
      BY DEF StackItem
    <3>3. Len(u) = Len(st) + 1 /\ \A n \in 1 .. Len(st) : u[n] = st[n]
      BY <3>1, <3>2, AppendedMark
    <3>4. k + 2 \in 1 .. Len(u) - 1 /\ u[k + 2] = "opt"
      BY <1>1, <3>3
    <3> QED
      BY <3>1, <3>4 DEF BadStack
  <2>4. Doomed(s)
    BY <1>0, <1>1, <1>4, <2>1, DoomedDeparture
  <2> QED
    BY <2>2, <2>3, <2>4 DEF Outcome
<1>7. CASE IsOperand(x)
  <2>1. Checked(st, x) = Append(Popped(st, 2), "digit") /\ Fits(st, x)
    BY <1>5, <1>7, NodeKinds DEF Checked, Fits
  <2>2. PICK u : u = Append(Popped(st, 2), "digit")
    OBVIOUS
  <2>3. Len(u) = k + 1 /\ u[k + 1] = "digit" /\ \A n \in 1 .. k : u[n] = "left"
    <3>1. Len(st) >= 2
      BY <1>1
    <3>2. Len(u) = Len(st) - 1 /\ u[Len(st) - 1] = "digit" /\ \A n \in 1 .. Len(st) - 2 : u[n] = st[n]
      BY <2>2, <3>1, PoppedMarks
    <3>3. Len(st) - 1 = k + 1 /\ Len(st) - 2 = k
      BY <1>1
    <3> QED
      BY <3>2, <3>3
  <2>4. NoDeparture(s, j)
    <3>1. s[i].type # "kint8"
      BY <1>1 DEF Operators, Binding
    <3> QED
      BY <1>7, <3>1, OperandNoDeparture
  <2>5. Level(s, j, k)
    BY <1>7, LevelOperand
  <2>6. s[j].type \in Operand
    BY <1>7, Forms DEF Operand
  <2>7. PICK Q : Q = NumberOf(x, v)
    OBVIOUS
  <2>8. Reading(0, d + 2, j, Q) \in Made(s, v)[0]
    BY <1>3, <1>7, <2>7, OperandRead
  <2>9. j \in d + 2 .. Len(s)
    BY <1>0, <1>3
  <2>10. \E e \in k + 1 .. j : \E L, N : Derived(s, v, k, j, e, L, N)
    <3>1. CASE s[i].type \in Binding
      <4>1. s[d + 1].type \in Binding
        BY <1>3, <3>1
      <4>2. Derived(s, v, k, j, c, M, Apply(s[d + 1].type, P, Q))
        BY <1>4, <2>8, <2>9, <4>1, DerivedBinding
      <4>3. c \in k + 1 .. j
        BY <1>4, <2>9
      <4> QED
        BY <4>2, <4>3
    <3>2. CASE s[i].type \in {"kadd", "minus"}
      <4>1. s[d + 1].type \in {"kadd", "minus"}
        BY <1>3, <3>2
      <4>2. Derived(s, v, k, j, d + 2, Total(s, k, c, M, P), Q)
        BY <1>4, <2>8, <2>9, <4>1, DerivedAdditive
      <4>3. d + 2 \in k + 1 .. j
        BY <1>4, <2>9
      <4> QED
        BY <4>2, <4>3
    <3> QED
      BY <1>1, <3>1, <3>2 DEF Operators
  <2>11. WithDigit(s, v, u, j, k)
    BY <2>3, <2>6, <2>10 DEF WithDigit
  <2>12. GoodStack(s, v, u, j)
    BY <2>3, <2>4, <2>5, <2>11 DEF GoodStack
  <2> QED
    BY <2>1, <2>2, <2>12 DEF Outcome
<1>8. CASE IsFour(x) \/ x.type = "kright"
  <2>1. ~Fits(st, x)
    BY <1>5, <1>8, NodeKinds DEF Fits
  <2>2. Doomed(s)
    BY <1>1, <1>8, DoomedFirst
  <2> QED
    BY <2>1, <2>2 DEF Outcome
<1>9. CASE ~IsFour(x) /\ ~IsOperand(x) /\ x.type \notin {"kleft", "kright"}
  <2>1. ~Fits(st, x)
    BY <1>9 DEF Fits
  <2>2. Doomed(s)
    BY <1>9, DoomedNode
  <2> QED
    BY <2>1, <2>2 DEF Outcome
<1> QED
  BY <1>6, <1>7, <1>8, <1>9

\* After any of them.
LEMMA GoodStep ==
  ASSUME NEW s \in Seq(Lexeme), NEW v, NEW x \in Node, NEW i \in 0 .. Len(s),
         NEW j \in 0 .. Len(s), MapsNode(s, x, i, j), NEW st \in Seq(StackItem),
         GoodStack(s, v, st, i)
  PROVE  Outcome(s, v, st, x, j)
<1>1. PICK k \in Nat :
        /\ Level(s, i, k) /\ \A n \in 1 .. k : st[n] = "left"
        /\ Bare(st, i, k) \/ WithDigit(s, v, st, i, k) \/ WithOpt(s, v, st, i, k)
  BY DEF GoodStack
<1>2. NoDeparture(s, i)
  BY DEF GoodStack
<1>3. CASE Bare(st, i, k)
  BY <1>1, <1>2, <1>3, AfterBrackets DEF Bare
<1>4. CASE WithDigit(s, v, st, i, k)
  BY <1>1, <1>2, <1>4, AfterDigit
<1>5. CASE WithOpt(s, v, st, i, k)
  BY <1>1, <1>2, <1>5, AfterOpt
<1> QED
  BY <1>1, <1>3, <1>4, <1>5

\* At the end of the nodes.
LEMMA GoodEnd ==
  ASSUME NEW s \in Seq(Lexeme), NEW v, NEW st \in Seq(StackItem), GoodStack(s, v, st, Len(s))
  PROVE  IF st = <<"digit">> THEN Meanings(s, v) # {} /\ NoDeparture(s, Len(s)) ELSE Doomed(s)
<1>0. Len(s) \in Nat
  OBVIOUS
<1>1. PICK k \in Nat :
        /\ Level(s, Len(s), k) /\ \A n \in 1 .. k : st[n] = "left"
        /\ Bare(st, Len(s), k) \/ WithDigit(s, v, st, Len(s), k) \/ WithOpt(s, v, st, Len(s), k)
  BY DEF GoodStack
<1>2. CASE Bare(st, Len(s), k)
  <2>1. st # <<"digit">>
    <3>1. CASE k = 0
      <4>1. Len(st) = 0
        BY <1>2, <3>1 DEF Bare
      <4> QED
        BY <4>1
    <3>2. CASE k # 0
      <4>1. 1 \in 1 .. k
        BY <3>2
      <4> QED
        BY <1>1, <4>1
    <3> QED
      BY <3>1, <3>2
  <2>2. Len(s) = k
    BY <1>2 DEF Bare
  <2>3. Len(s) \in 1 .. Len(s) => s[Len(s)].type \notin Operand
    BY <1>1, <2>2 DEF Level, Operand
  <2>4. Doomed(s)
    BY <1>0, <2>3 DEF Doomed, Sound
  <2> QED
    BY <2>1, <2>4
<1>3. CASE WithDigit(s, v, st, Len(s), k)
  <2>1. Len(st) = k + 1
    BY <1>3 DEF WithDigit
  <2>2. PICK c, M, P : c \in k + 1 .. Len(s) /\ Derived(s, v, k, Len(s), c, M, P)
    BY <1>3 DEF WithDigit
  <2>3. CASE k = 0
    <3>1. st = <<"digit">>
      <4>1. Len(st) = 1 /\ st[1] = "digit"
        BY <1>3, <2>3 DEF WithDigit
      <4> QED
        BY <4>1
    <3>2. Total(s, 0, c, M, P) \in Meanings(s, v)
      <4>1. c \in 1 .. Len(s) /\ Len(s) # 0 /\ Derived(s, v, 0, Len(s), c, M, P)
        BY <2>2, <2>3
      <4> QED
        BY <4>1, DerivedMeaning
    <3> QED
      BY <3>1, <3>2 DEF GoodStack
  <2>4. CASE k # 0
    <3>1. st # <<"digit">>
      <4>1. Len(st) # 1
        BY <2>1, <2>4
      <4> QED
        BY <4>1
    <3>2. ~ \E h : Nested(s, h, 1, Len(s))
      BY <1>1, <2>4 DEF Level, Nested
    <3> QED
      BY <3>1, <3>2 DEF Doomed, Sound
  <2> QED
    BY <2>3, <2>4
<1>4. CASE WithOpt(s, v, st, Len(s), k)
  <2>1. Len(st) = k + 2 /\ s[Len(s)].type \in Operators
    BY <1>4 DEF WithOpt
  <2>2. st # <<"digit">>
    <3>1. Len(st) # 1
      BY <2>1
    <3> QED
      BY <3>1
  <2>3. s[Len(s)].type \notin Operand
    BY <2>1 DEF Operators, Binding, Operand
  <2> QED
    BY <2>2, <2>3 DEF Doomed, Sound
<1> QED
  BY <1>1, <1>2, <1>3, <1>4

\* Plain(t) is a text, and has all lexemes of t that are no spaces.
LEMMA PlainTyped ==
  ASSUME NEW t \in Seq(Lexeme)
  PROVE  /\ Plain(t) \in Seq(Lexeme)
         /\ \A i \in 1 .. Len(t) : t[i].type # "space" => \E j \in 1 .. Len(Plain(t)) : Plain(t)[j] = t[i]
<1>1. Len(t) \in 0 .. Len(t)
  OBVIOUS
<1>2. Stripped(t, Len(t), Plain(t))
  BY <1>1, StartStripped, PlainStep
<1> QED
  BY <1>2 DEF Stripped

\* Before the first node.
LEMMA GoodBegin ==
  ASSUME NEW s \in Seq(Lexeme), NEW v
  PROVE  GoodStack(s, v, <<>>, 0)
<1>1. Level(s, 0, 0)
  BY DEF Level, Nested
<1>2. Bare(<<>>, 0, 0) /\ NoDeparture(s, 0)
  BY DEF Bare, NoDeparture
<1>3. 0 \in Nat /\ \A n \in 1 .. 0 : <<>>[n] = "left"
  OBVIOUS
<1> QED
  BY <1>1, <1>2, <1>3 DEF GoodStack

\* The node that is checked next, in the text.
LEMMA NodeAt ==
  ASSUME NEW s \in Seq(Lexeme), NEW e \in Seq(Node), NEW a, Maps(s, e, a), NEW p \in 1 .. Len(e)
  PROVE  /\ a[p - 1] \in 0 .. Len(s) /\ a[p] \in 0 .. Len(s) /\ e[p] \in Node
         /\ MapsNode(s, e[p], a[p - 1], a[p])
<1>1. Len(e) \in Nat /\ p \in 0 .. Len(e) /\ p - 1 \in 0 .. Len(e)
  OBVIOUS
<1>2. /\ a \in [0 .. Len(e) -> 0 .. Len(s)]
      /\ \A n \in 1 .. Len(e) : MapsNode(s, e[n], a[n - 1], a[n])
  BY DEF Maps
<1>3. a[p - 1] \in 0 .. Len(s) /\ a[p] \in 0 .. Len(s)
  BY <1>1, <1>2
<1>4. e[p] \in Node
  OBVIOUS
<1> QED
  BY <1>2, <1>3, <1>4

-----------------------------------------------------------------------------
(* Folds.  The three of Formula.tla differ in what one step of them does. *)

\* What the library calls the maximum of part of an interval is one.
LEMMA MaxIsIn ==
  ASSUME NEW n \in Nat, NEW T \in SUBSET (1 .. n), T # {}
  PROVE  Max(T) \in T /\ \A y \in T : Max(T) >= y
<1> DEFINE D == {n - y : y \in T}
<1>0. \A y \in T : y \in Int /\ n - y \in Nat
  OBVIOUS
<1>1. D \in SUBSET Nat /\ D # {}
  BY <1>0
<1>2. PICK d \in D : \A e \in D : d <= e
  BY <1>1, LeastNumber
<1>3. PICK x \in T : d = n - x
  OBVIOUS
<1>4. \A y \in T : x >= y
  <2> SUFFICES ASSUME NEW y \in T PROVE x >= y
    OBVIOUS
  <2>1. d <= n - y
    BY <1>2
  <2> QED
    BY <2>1, <1>0, <1>3
<1> QED
  BY <1>3, <1>4 DEF Max

\* The maximum of an interval, and what is left without it.
LEMMA MaxOfAll ==
  ASSUME NEW n \in Nat, NEW T \in SUBSET (1 .. n + 1), n + 1 \in T
  PROVE  Max(T) = n + 1 /\ T \ {n + 1} \in SUBSET (1 .. n)
<1>1. n + 1 \in Nat /\ T # {}
  OBVIOUS
<1>2. Max(T) \in T /\ Max(T) >= n + 1
  BY <1>1, MaxIsIn
<1>3. Max(T) \in 1 .. n + 1
  BY <1>2
<1>4. \A i \in T : i \in 1 .. n + 1
  OBVIOUS
<1> QED
  BY <1>2, <1>3, <1>4

Begin == [v |-> Int2Num(0), add |-> TRUE]
Sums == [of |-> "sum", row |-> 0]
Checks == [of |-> "check", row |-> 0]
Computes(row) == [of |-> "compute", row |-> row]

Base(k) == IF k.of = "sum" THEN Begin ELSE <<>>
CheckStepped(st, x) == IF st # Refused /\ Fits(st, x) THEN Checked(st, x) ELSE Refused
ComputeStepped(data, x, row) ==
  IF data = Trapped THEN Trapped
  ELSE IF IsFour(x) \/ x.type = "kleft" THEN Append(data, CNode(x.type))
  ELSE IF Traps(data, x, row) THEN Trapped ELSE AfterNumber(data, x, row)
Stepped(k, acc, x) ==
  CASE k.of = "sum" -> Summed(acc, x)
    [] k.of = "check" -> CheckStepped(acc, x)
    [] k.of = "compute" -> ComputeStepped(acc, x, k.row)

\* g is the recursion by which the library folds it over the first n of s.
FoldsBy(k, g, s, n) ==
  g = [t \in SUBSET (1 .. n) |->
         IF t = {} THEN Base(k) ELSE Stepped(k, g[t \ {Max(t)}], s[Max(t)])]

\* What it gives for t.
FoldsAt(k, g, s, t) ==
  g[t] = IF t = {} THEN Base(k) ELSE Stepped(k, g[t \ {Max(t)}], s[Max(t)])

\* One step of the recursion.
LEMMA SteppedAt ==
  ASSUME NEW k, NEW g, NEW s, NEW n, FoldsBy(k, g, s, n)
  PROVE  \A t \in SUBSET (1 .. n) : FoldsAt(k, g, s, t)
<1> DEFINE f == [u \in SUBSET (1 .. n) |->
                   IF u = {} THEN Base(k) ELSE Stepped(k, g[u \ {Max(u)}], s[Max(u)])]
<1>1. g = f
  BY DEF FoldsBy
<1> SUFFICES ASSUME NEW t \in SUBSET (1 .. n)
             PROVE  f[t] = IF t = {} THEN Base(k)
                           ELSE Stepped(k, g[t \ {Max(t)}], s[Max(t)])
  BY <1>1 DEF FoldsAt
<1> QED
  OBVIOUS

\* Any sequence is folded so.
LEMMA SteppedExists ==
  ASSUME NEW k, NEW s, NEW N \in Nat
  PROVE  \E g : FoldsBy(k, g, s, N)
<1> DEFINE T == {n \in 0 .. N : \E g : FoldsBy(k, g, s, n)}
<1>1. 0 \in T
  <2> DEFINE e == [t \in SUBSET (1 .. 0) |-> Base(k)]
  <2>1. \A t \in SUBSET (1 .. 0) : t = {}
    OBVIOUS
  <2>2. e = [t \in SUBSET (1 .. 0) |->
               IF t = {} THEN Base(k) ELSE Stepped(k, e[t \ {Max(t)}], s[Max(t)])]
    BY <2>1
  <2> HIDE DEF e
  <2>3. FoldsBy(k, e, s, 0)
    BY <2>2 DEF FoldsBy
  <2> QED
    BY <2>3
<1>2. ASSUME NEW n \in 0 .. N - 1, n \in T
      PROVE  n + 1 \in T
  <2>1. PICK g : FoldsBy(k, g, s, n)
    BY <1>2
  <2>2. n \in Nat /\ n + 1 \in 0 .. N
    OBVIOUS
  <2> DEFINE h == [t \in SUBSET (1 .. n + 1) |->
                     IF n + 1 \in t THEN Stepped(k, g[t \ {n + 1}], s[n + 1]) ELSE g[t]]
  <2>3. ASSUME NEW t \in SUBSET (1 .. n + 1)
        PROVE  h[t] = IF t = {} THEN Base(k) ELSE Stepped(k, h[t \ {Max(t)}], s[Max(t)])
    <3>1. h[t] = IF n + 1 \in t THEN Stepped(k, g[t \ {n + 1}], s[n + 1]) ELSE g[t]
      OBVIOUS
    <3>2. \A u \in SUBSET (1 .. n + 1) : n + 1 \notin u => h[u] = g[u]
      OBVIOUS
    <3> HIDE DEF h
    <3>3. CASE n + 1 \in t
      <4>1. Max(t) = n + 1 /\ t \ {n + 1} \in SUBSET (1 .. n)
        BY <2>2, <3>3, MaxOfAll
      <4>2. h[t \ {n + 1}] = g[t \ {n + 1}]
        BY <3>2
      <4> QED
        BY <3>1, <3>3, <4>1, <4>2
    <3>4. CASE n + 1 \notin t
      <4>1. t \in SUBSET (1 .. n)
        <5>1. \A i \in t : i \in 1 .. n + 1 /\ i # n + 1
          BY <3>4
        <5> QED
          BY <5>1
      <4>2. g[t] = IF t = {} THEN Base(k) ELSE Stepped(k, g[t \ {Max(t)}], s[Max(t)])
        BY <2>1, <4>1, SteppedAt DEF FoldsAt
      <4>3. h[t] = g[t] /\ h[t \ {Max(t)}] = g[t \ {Max(t)}]
        BY <3>2, <3>4
      <4> QED
        BY <4>2, <4>3
    <3> QED
      BY <3>3, <3>4
  <2>4. h = [t \in SUBSET (1 .. n + 1) |-> h[t]]
    OBVIOUS
  <2> HIDE DEF h
  <2>5. FoldsBy(k, h, s, n + 1)
    BY <2>3, <2>4 DEF FoldsBy
  <2> QED
    BY <2>2, <2>5
<1> HIDE DEF T
<1>3. \A n \in 0 .. N : n \in T
  BY <1>1, <1>2, Climb
<1> QED
  BY <1>3 DEF T

\* Two such recursions, over sequences with the same first n items.
FoldsAlike(k, n, g, s, m, h, r) ==
  /\ n \in Nat /\ m \in Nat /\ n <= m /\ \A i \in 1 .. n : r[i] = s[i]
  /\ FoldsBy(k, g, s, n) /\ FoldsBy(k, h, r, m)

\* Where two sequences agree their recursions do.
LEMMA SteppedUnique ==
  ASSUME NEW k, NEW N, NEW g, NEW s, NEW M, NEW h, NEW r, FoldsAlike(k, N, g, s, M, h, r)
  PROVE  \A t \in SUBSET (1 .. N) : g[t] = h[t]
<1>a. /\ N \in Nat /\ M \in Nat /\ N <= M /\ \A i \in 1 .. N : r[i] = s[i]
      /\ FoldsBy(k, g, s, N) /\ FoldsBy(k, h, r, M)
  BY DEF FoldsAlike
<1> DEFINE T == {n \in 0 .. N : \A t \in SUBSET (1 .. n) : g[t] = h[t]}
<1>0. ASSUME NEW t \in SUBSET (1 .. N)
      PROVE  /\ g[t] = IF t = {} THEN Base(k) ELSE Stepped(k, g[t \ {Max(t)}], s[Max(t)])
             /\ h[t] = IF t = {} THEN Base(k) ELSE Stepped(k, h[t \ {Max(t)}], r[Max(t)])
  <2>1. t \in SUBSET (1 .. M)
    BY <1>a
  <2>2. FoldsBy(k, g, s, N) /\ FoldsBy(k, h, r, M)
    BY <1>a
  <2>3. g[t] = IF t = {} THEN Base(k) ELSE Stepped(k, g[t \ {Max(t)}], s[Max(t)])
    BY <2>2, SteppedAt DEF FoldsAt
  <2>4. h[t] = IF t = {} THEN Base(k) ELSE Stepped(k, h[t \ {Max(t)}], r[Max(t)])
    <3>1. FoldsBy(k, h, r, M)
      BY <2>2
    <3>2. \A u \in SUBSET (1 .. M) :
            FoldsAt(k, h, r, u)
      BY ONLY <3>1, SteppedAt
    <3> QED
      BY <2>1, <3>2 DEF FoldsAt
  <2> QED
    BY <2>3, <2>4
<1>1. 0 \in T
  <2>1. ASSUME NEW t \in SUBSET (1 .. 0)
        PROVE  g[t] = h[t]
    <3>1. t = {}
      OBVIOUS
    <3>2. t \in SUBSET (1 .. N)
      BY <3>1
    <3> QED
      BY <1>0, <3>1, <3>2
  <2>2. 0 \in 0 .. N
    BY <1>a
  <2> QED
    BY <2>1, <2>2
<1>2. ASSUME NEW n \in 0 .. N - 1, n \in T
      PROVE  n + 1 \in T
  <2>1. n \in Nat /\ n + 1 \in 0 .. N /\ n + 1 \in 1 .. N
    BY <1>a
  <2>2. ASSUME NEW t \in SUBSET (1 .. n + 1)
        PROVE  g[t] = h[t]
    <3>1. t \in SUBSET (1 .. N)
      BY <1>a, <2>1
    <3>2. CASE n + 1 \in t
      <4>1. Max(t) = n + 1 /\ t \ {n + 1} \in SUBSET (1 .. n)
        BY <2>1, <3>2, MaxOfAll
      <4>2. g[t \ {n + 1}] = h[t \ {n + 1}] /\ r[n + 1] = s[n + 1]
        BY <1>a, <1>2, <2>1, <4>1
      <4> QED
        BY <1>0, <3>1, <3>2, <4>1, <4>2
    <3>3. CASE n + 1 \notin t
      <4>1. \A i \in t : i \in 1 .. n + 1 /\ i # n + 1
        BY <3>3
      <4>2. t \in SUBSET (1 .. n)
        BY <4>1
      <4> QED
        BY <1>2, <4>2
    <3> QED
      BY <3>2, <3>3
  <2> QED
    BY <2>1, <2>2
<1> HIDE DEF T
<1>3. \A n \in 0 .. N : n \in T
  BY <1>a, <1>1, <1>2, Climb
<1>4. N \in T
  BY <1>a, <1>3
<1> QED
  BY <1>4 DEF T

\* What is folded is what that recursion gives for all of s.
Fold(k, s) == (CHOOSE g : FoldsBy(k, g, s, Len(s)))[1 .. Len(s)]
LEMMA FoldIs ==
  ASSUME NEW k, NEW S, NEW s \in Seq(S)
  PROVE  \E g : FoldsBy(k, g, s, Len(s)) /\ Fold(k, s) = g[1 .. Len(s)]
<1>1. Len(s) \in Nat
  OBVIOUS
<1>2. PICK g : g = CHOOSE f : FoldsBy(k, f, s, Len(s))
  OBVIOUS
<1>3. FoldsBy(k, g, s, Len(s))
  BY <1>1, <1>2, SteppedExists
<1> QED
  BY <1>2, <1>3 DEF Fold

\* Nothing folded is the base.
LEMMA FoldNothing ==
  ASSUME NEW k
  PROVE  Fold(k, <<>>) = Base(k)
<1>1. <<>> \in Seq(Nat) /\ Len(<<>>) = 0 /\ 1 .. 0 = {}
  OBVIOUS
<1>2. PICK g : FoldsBy(k, g, <<>>, 0) /\ Fold(k, <<>>) = g[{}]
  BY <1>1, FoldIs
<1>3. {} \in SUBSET (1 .. 0) /\ 0 \in Nat
  OBVIOUS
<1> QED
  BY <1>2, <1>3, SteppedAt DEF FoldsAt

\* The step that one item more adds to such a recursion.
LEMMA SteppedMore ==
  ASSUME NEW k, NEW s, NEW r, NEW n \in Nat, NEW N \in Nat, NEW x, NEW g, NEW h,
         N = n + 1, \A i \in 1 .. n : r[i] = s[i], r[N] = x,
         FoldsBy(k, g, s, n), FoldsBy(k, h, r, N)
  PROVE  h[1 .. N] = Stepped(k, g[1 .. n], x)
<1>1. /\ 1 .. N \in SUBSET (1 .. N) /\ N \in 1 .. N /\ n <= N /\ 1 .. N # {}
      /\ (1 .. N) \ {N} = 1 .. n
  <2>1. N \in 1 .. N /\ n <= N
    OBVIOUS
  <2>2. \A i : i \in (1 .. N) \ {N} <=> i \in 1 .. n
    OBVIOUS
  <2> QED
    BY <2>1, <2>2
<1>2. Max(1 .. N) = N
  BY <1>1, MaxOfAll
<1>3. ASSUME NEW t \in SUBSET (1 .. N)
      PROVE  h[t] = IF t = {} THEN Base(k) ELSE Stepped(k, h[t \ {Max(t)}], r[Max(t)])
  <2>1. \A u \in SUBSET (1 .. N) : FoldsAt(k, h, r, u)
    BY SteppedAt
  <2> QED
    BY <2>1 DEF FoldsAt
<1>4. h[1 .. N] = Stepped(k, h[1 .. n], x)
  BY <1>1, <1>2, <1>3
<1>5. \A t \in SUBSET (1 .. n) : g[t] = h[t]
  <2>1. FoldsAlike(k, n, g, s, N, h, r)
    BY <1>1 DEF FoldsAlike
  <2> QED
    BY <2>1, SteppedUnique
<1>6. 1 .. n \in SUBSET (1 .. n)
  OBVIOUS
<1> QED
  BY <1>4, <1>5, <1>6

\* One item more is one step more.
LEMMA FoldMore ==
  ASSUME NEW k, NEW S, NEW s \in Seq(S), NEW x \in S
  PROVE  Fold(k, Append(s, x)) = Stepped(k, Fold(k, s), x)
<1>0. Append(s, x) \in Seq(S)
  OBVIOUS
<1>1. PICK r \in Seq(S) : r = Append(s, x)
  BY <1>0
<1>2. PICK n \in Nat : n = Len(s)
  OBVIOUS
<1>3. Len(r) = n + 1 /\ r[n + 1] = x /\ \A i \in 1 .. n : r[i] = s[i]
  BY <1>1, <1>2
<1>4. PICK g : FoldsBy(k, g, s, n) /\ Fold(k, s) = g[1 .. n]
  BY <1>2, FoldIs
<1>5. PICK h : FoldsBy(k, h, r, n + 1) /\ Fold(k, r) = h[1 .. n + 1]
  BY <1>3, FoldIs
<1>6. PICK N \in Nat : N = n + 1
  BY <1>2
<1>7. h[1 .. N] = Stepped(k, g[1 .. n], x)
  BY <1>2, <1>3, <1>4, <1>5, <1>6, SteppedMore
<1> QED
  BY <1>1, <1>4, <1>5, <1>6, <1>7

\* A choice of a recursion is what any such recursion gives.
LEMMA FoldChosen ==
  ASSUME NEW k, NEW S, NEW s \in Seq(S), NEW g, FoldsBy(k, g, s, Len(s))
  PROVE  g[DOMAIN s] = Fold(k, s)
<1>1. PICK h : FoldsBy(k, h, s, Len(s)) /\ Fold(k, s) = h[1 .. Len(s)]
  BY FoldIs
<1>2. PICK n \in Nat : n = Len(s)
  OBVIOUS
<1>3. PICK t : t = 1 .. n
  OBVIOUS
<1>4. t \in SUBSET (1 .. n) /\ DOMAIN s = t
  BY <1>2, <1>3
<1>5. \A u \in SUBSET (1 .. n) : g[u] = h[u]
  <2>1. FoldsAlike(k, n, g, s, n, h, s)
    BY <1>1, <1>2 DEF FoldsAlike
  <2> QED
    BY <2>1, SteppedUnique
<1> QED
  BY <1>1, <1>2, <1>3, <1>4, <1>5

\* The loop of result(), over nothing and over one item more.
Folded(s) == FoldLeft(Summed, Begin, s)
SumsBy(g, s) ==
  g = [t \in SUBSET (DOMAIN s) |->
         IF t = {} THEN Begin ELSE Summed(g[t \ {Max(t)}], s[Max(t)])]

\* The sum of a bracket, as a fold.
LEMMA FoldedIs ==
  ASSUME NEW S, NEW s \in Seq(S)
  PROVE  Folded(s) = Fold(Sums, s)
<1>1. DOMAIN s = 1 .. Len(s) /\ Len(s) \in Nat
  OBVIOUS
<1>2. \A acc, x : Stepped(Sums, acc, x) = Summed(acc, x)
  BY DEF Stepped, Sums
<1>3. Base(Sums) = Begin
  BY DEF Base, Sums
<1>4. \A g : SumsBy(g, s) <=> FoldsBy(Sums, g, s, Len(s))
  BY <1>1, <1>2, <1>3 DEF SumsBy, FoldsBy
<1>5. Folded(s) = (CHOOSE g : SumsBy(g, s))[DOMAIN s]
  BY DEF Folded, FoldLeft, MapThenFoldSet, SumsBy
<1>6. \E g : SumsBy(g, s)
  BY <1>1, <1>4, SteppedExists
<1> QED
  BY <1>4, <1>5, <1>6, FoldChosen

\* The sum of nothing.
LEMMA FoldedNothing ==
  Folded(<<>>) = Begin
<1>1. <<>> \in Seq(Nat)
  OBVIOUS
<1>2. Folded(<<>>) = Fold(Sums, <<>>)
  BY <1>1, FoldedIs
<1>3. Fold(Sums, <<>>) = Base(Sums)
  BY FoldNothing
<1> QED
  BY <1>2, <1>3 DEF Base, Sums

\* One term more is one step more.
LEMMA FoldedStep ==
  ASSUME NEW S, NEW s \in Seq(S), NEW x \in S
  PROVE  Folded(Append(s, x)) = Summed(Folded(s), x)
<1>0. Append(s, x) \in Seq(S)
  OBVIOUS
<1>1. PICK r \in Seq(S) : r = Append(s, x)
  BY <1>0
<1>2. Folded(r) = Fold(Sums, r) /\ Folded(s) = Fold(Sums, s)
  BY FoldedIs
<1>3. Fold(Sums, r) = Stepped(Sums, Fold(Sums, s), x)
  BY <1>1, FoldMore
<1>4. \A acc : Stepped(Sums, acc, x) = Summed(acc, x)
  BY DEF Stepped, Sums
<1> QED
  BY <1>1, <1>2, <1>3, <1>4

\* check_expression, step by step.
ChecksBy(g, e) ==
  g = [t \in SUBSET (DOMAIN e) |->
         IF t = {} THEN <<>>
         ELSE IF g[t \ {Max(t)}] # Refused /\ Fits(g[t \ {Max(t)}], e[Max(t)])
              THEN Checked(g[t \ {Max(t)}], e[Max(t)]) ELSE Refused]

\* The check of an expression, as a fold.
LEMMA CheckExpressionIs ==
  ASSUME NEW S, NEW e \in Seq(S)
  PROVE  CheckExpression(e) <=> Fold(Checks, e) = <<"digit">>
<1>1. DOMAIN e = 1 .. Len(e) /\ Len(e) \in Nat
  OBVIOUS
<1>2. \A acc, x : Stepped(Checks, acc, x)
                   = IF acc # Refused /\ Fits(acc, x) THEN Checked(acc, x) ELSE Refused
  BY DEF Stepped, Checks, CheckStepped
<1>3. Base(Checks) = <<>>
  BY DEF Base, Checks
<1>4. \A g : ChecksBy(g, e) <=> FoldsBy(Checks, g, e, Len(e))
  BY <1>1, <1>2, <1>3 DEF ChecksBy, FoldsBy
<1>5. CheckExpression(e) <=> (CHOOSE g : ChecksBy(g, e))[DOMAIN e] = <<"digit">>
  BY DEF CheckExpression, FoldLeft, MapThenFoldSet, ChecksBy
<1>6. \E g : ChecksBy(g, e)
  BY <1>1, <1>4, SteppedExists
<1> QED
  BY <1>4, <1>5, <1>6, FoldChosen

\* formula_compute, step by step.
ComputesBy(g, e, row) ==
  g = [t \in SUBSET (DOMAIN e) |->
         IF t = {} THEN <<>>
         ELSE IF g[t \ {Max(t)}] = Trapped THEN Trapped
         ELSE IF IsFour(e[Max(t)]) \/ e[Max(t)].type = "kleft"
              THEN Append(g[t \ {Max(t)}], CNode(e[Max(t)].type))
         ELSE IF Traps(g[t \ {Max(t)}], e[Max(t)], row) THEN Trapped
              ELSE AfterNumber(g[t \ {Max(t)}], e[Max(t)], row)]

\* The stack of the Computer, as a fold.
LEMMA ComputingIs ==
  ASSUME NEW S, NEW e \in Seq(S), NEW row
  PROVE  Computing(e, row) = Fold(Computes(row), e)
<1>1. DOMAIN e = 1 .. Len(e) /\ Len(e) \in Nat
  OBVIOUS
<1>2. PICK k : k = Computes(row)
  OBVIOUS
<1>3. \A acc, x : Stepped(k, acc, x) =
        IF acc = Trapped THEN Trapped
        ELSE IF IsFour(x) \/ x.type = "kleft" THEN Append(acc, CNode(x.type))
        ELSE IF Traps(acc, x, row) THEN Trapped ELSE AfterNumber(acc, x, row)
  BY <1>2 DEF Stepped, Computes, ComputeStepped
<1>4. Base(k) = <<>>
  BY <1>2 DEF Base, Computes
<1>5. \A g : ComputesBy(g, e, row) <=> FoldsBy(k, g, e, Len(e))
  <2> SUFFICES ASSUME NEW g PROVE ComputesBy(g, e, row) <=> FoldsBy(k, g, e, Len(e))
    OBVIOUS
  <2> DEFINE A(t) == IF t = {} THEN <<>>
                ELSE IF g[t \ {Max(t)}] = Trapped THEN Trapped
                ELSE IF IsFour(e[Max(t)]) \/ e[Max(t)].type = "kleft"
                     THEN Append(g[t \ {Max(t)}], CNode(e[Max(t)].type))
                ELSE IF Traps(g[t \ {Max(t)}], e[Max(t)], row) THEN Trapped
                     ELSE AfterNumber(g[t \ {Max(t)}], e[Max(t)], row)
             B(t) == IF t = {} THEN Base(k) ELSE Stepped(k, g[t \ {Max(t)}], e[Max(t)])
  <2>1. ASSUME NEW t PROVE A(t) = B(t)
    BY <1>3, <1>4
  <2>2. ComputesBy(g, e, row) <=> g = [t \in SUBSET (1 .. Len(e)) |-> A(t)]
    BY <1>1 DEF ComputesBy
  <2>3. FoldsBy(k, g, e, Len(e)) <=> g = [t \in SUBSET (1 .. Len(e)) |-> B(t)]
    BY DEF FoldsBy
  <2> HIDE DEF A, B
  <2> QED
    BY <2>1, <2>2, <2>3
<1>6. Computing(e, row) = (CHOOSE g : ComputesBy(g, e, row))[DOMAIN e]
  BY DEF Computing, FoldLeft, MapThenFoldSet, ComputesBy
<1>7. \E g : ComputesBy(g, e, row)
  BY <1>1, <1>5, SteppedExists
<1> QED
  BY <1>2, <1>5, <1>6, <1>7, FoldChosen

-----------------------------------------------------------------------------
(* The numbers of the Computer and those of the grammar. *)

Num == {a \in Int \X Nat : a[2] = 0 => a[1] = 0}

\* A number is a fraction.
LEMMA NumParts ==
  ASSUME NEW a \in Num
  PROVE  a = <<a[1], a[2]>> /\ a[1] \in Int /\ a[2] \in Nat /\ (a[2] = 0 => a[1] = 0)
BY DEF Num

\* Integers are numbers, and none is NaN.
LEMMA IntIsNum ==
  ASSUME NEW n \in Int
  PROVE  Int2Num(n) \in Num /\ ~IsNaN(Int2Num(n))
BY DEF Num, Int2Num, IsNaN

\* Only one number is NaN.
LEMMA OneNaN ==
  /\ NaN \in Num
  /\ \A a \in Num : IsNaN(a) <=> a = NaN
BY DEF Num, NaN, IsNaN

\* Sums, differences and products are numbers, and NaN if a part is.
LEMMA Arithmetic ==
  ASSUME NEW a \in Num, NEW b \in Num, NEW op \in {Plus(a, b), Less(a, b), Times(a, b)}
  PROVE  op \in Num /\ (IsNaN(a) \/ IsNaN(b) => IsNaN(op))
<1>1. /\ a[1] \in Int /\ a[2] \in Nat /\ b[1] \in Int /\ b[2] \in Nat
      /\ (a[2] = 0 => a[1] = 0) /\ (b[2] = 0 => b[1] = 0)
  BY NumParts
<1>2. a[2] * b[2] \in Nat /\ (a[2] = 0 \/ b[2] = 0 => a[2] * b[2] = 0)
  BY <1>1
<1>4. a[2] * b[2] = 0 => a[2] = 0 \/ b[2] = 0
  BY <1>1
<1>5. \A i \in Int : i * 0 = 0 /\ 0 * i = 0
  OBVIOUS
<1>3. PICK n \in Int : op = <<n, a[2] * b[2]>> /\ (a[2] * b[2] = 0 => n = 0)
  <2>1. a[1] * b[2] + b[1] * a[2] \in Int /\ a[1] * b[2] - b[1] * a[2] \in Int /\ a[1] * b[1] \in Int
    BY <1>1
  <2>2. a[2] * b[2] = 0 => a[1] * b[2] = 0 /\ b[1] * a[2] = 0 /\ a[1] * b[1] = 0
    BY <1>1, <1>4, <1>5
  <2> QED
    BY <2>1, <2>2 DEF Plus, Less, Times
<1> QED
  BY <1>2, <1>3 DEF Num, IsNaN

\* The loop of result() starts from 0.
LEMMA PlusZero ==
  ASSUME NEW b \in Num
  PROVE  Plus(Int2Num(0), b) = b
<1>1. b = <<b[1], b[2]>> /\ b[1] \in Int /\ b[2] \in Nat
  BY NumParts
<1>2. 0 * b[2] + b[1] * 1 = b[1] /\ 1 * b[2] = b[2]
  BY <1>1
<1> QED
  BY <1>1, <1>2 DEF Plus, Int2Num

\* A quotient of numbers is a number.
LEMMA FractionNum ==
  ASSUME NEW a \in Num, NEW b \in Num, b[1] # 0
  PROVE  Fraction(a, b) \in Num
<1>1. /\ a[1] \in Int /\ a[2] \in Nat /\ b[1] \in Int /\ b[2] \in Nat
      /\ (a[2] = 0 => a[1] = 0) /\ b[2] # 0
  BY NumParts
<1>4. \A i \in Int : i * 0 = 0 /\ 0 * i = 0
  OBVIOUS
<1>2. CASE b[1] > 0
  <2>1. a[1] * b[2] \in Int /\ a[2] * b[1] \in Nat
    BY <1>1, <1>2
  <2>2. a[2] * b[1] = 0 => a[2] = 0
    BY <1>1, <1>2
  <2>3. a[2] * b[1] = 0 => a[1] * b[2] = 0
    BY <1>1, <1>4, <2>2
  <2> QED
    BY <1>2, <2>1, <2>3 DEF Fraction, Num
<1>3. CASE ~(b[1] > 0)
  <2>1. PICK c \in Nat \ {0} : b[1] = 0 - c
    <3>1. 0 - b[1] \in Nat \ {0} /\ b[1] = 0 - (0 - b[1])
      BY <1>1, <1>3
    <3> QED
      BY <3>1
  <2>2. 0 - a[1] * b[2] \in Int
    BY <1>1
  <2>3. a[2] * c \in Nat /\ 0 - a[2] * b[1] = a[2] * c
    BY <1>1, <2>1
  <2>4. a[2] * c = 0 => a[2] = 0
    BY <1>1, <2>1
  <2>5. a[2] * c = 0 => 0 - a[1] * b[2] = 0
    BY <1>1, <1>4, <2>4
  <2> QED
    BY <1>3, <2>2, <2>3, <2>5 DEF Fraction, Num
<1> QED
  BY <1>2, <1>3

\* What is no NaN has an integer.
LEMMA TruncatedInt ==
  ASSUME NEW c \in Num, ~IsNaN(c)
  PROVE  Truncated(c) \in Int
<1>1. PICK p \in Int, q \in Nat \ {0} : c[1] = p /\ c[2] = q
  BY NumParts DEF IsNaN
<1>2. p \div q \in Int /\ (0 - p) \div q \in Int
  BY <1>1
<1> QED
  BY <1>1, <1>2 DEF Truncated

\* So is a remainder that C++ defines.
LEMMA ModuloNum ==
  ASSUME NEW a \in Num, NEW b \in Num, HasModulo(a, b)
  PROVE  Modulo(a, b) \in Num
<1>1. \A c \in Num : ~IsNaN(c) => Truncated(c) \in Int
  BY TruncatedInt
<1>2. PICK n \in Int, m \in Int \ {0} : n = Truncated(a) /\ m = Truncated(b)
  BY <1>1 DEF HasModulo
<1>3. Abs(m) \in Nat \ {0}
  BY <1>2 DEF Abs
<1>4. PICK k \in Nat \ {0} : k = Abs(m)
  BY <1>3
<1>5. n % k \in Int /\ (0 - n) % k \in Int
  BY <1>2, <1>4
<1>6. Remainder(n, m) \in Int
  BY <1>4, <1>5 DEF Remainder
<1> QED
  BY <1>2, <1>6, IntIsNum DEF Modulo

\* push_number applies * / and % as the grammar does, but for what C++ leaves undefined.
LEMMA BoundApplies ==
  ASSUME NEW t \in Binding, NEW a \in Num, NEW b \in Num, t = "kmod" => HasModulo(a, b)
  PROVE  Bound(t, a, b) \in Num /\ Bound(t, a, b) = Apply(t, a, b)
<1>1. CASE t = "kmulti"
  BY <1>1, Arithmetic DEF Bound, Apply
<1>2. CASE t = "kdiv"
  <2>1. /\ Bound(t, a, b) = Divided(a, b)
        /\ Apply(t, a, b) = IF b[1] # 0 THEN Fraction(a, b)
                            ELSE IF IsNaN(b) \/ a[1] = 0 THEN NaN ELSE Int2Num(0)
    <3>2. CASE b[1] # 0
      <4>1. Bound(t, a, b) = Divided(a, b)
        BY <1>2 DEF Bound
      <4>2. Apply(t, a, b) = Fraction(a, b)
        BY <1>2, <3>2 DEF Apply
      <4> QED
        BY <3>2, <4>1, <4>2
    <3>3. CASE b[1] = 0
      BY <1>2, <3>3 DEF Bound, Apply
    <3> QED
      BY <3>2, <3>3
  <2>2. IsNaN(a) => a[1] = 0
    BY NumParts DEF IsNaN
  <2>3. IsNaN(b) => b[1] = 0
    BY NumParts DEF IsNaN
  <2>4. b = <<0, b[2]>> <=> b[1] = 0
    BY NumParts
  <2>5. CASE b[1] # 0
    <3>1. Fraction(a, b) \in Num /\ Apply(t, a, b) = Fraction(a, b)
      BY <2>1, <2>5, FractionNum
    <3>2. IsNaN(a) => Fraction(a, b) = NaN
      <4>1. \A i \in Int : 0 * i = 0
        OBVIOUS
      <4>2. b[1] \in Int /\ b[2] \in Int
        BY NumParts
      <4>3. IsNaN(a) => a[1] = 0 /\ a[2] = 0
        BY <2>2 DEF IsNaN
      <4> QED
        BY <4>1, <4>2, <4>3 DEF Fraction, NaN
    <3>3. ~IsNaN(a) => Divided(a, b) = Fraction(a, b)
      BY <2>3, <2>4, <2>5 DEF Divided
    <3>4. IsNaN(a) => Divided(a, b) = NaN
      BY DEF Divided
    <3> QED
      BY <2>1, <3>1, <3>2, <3>3, <3>4
  <2>6. CASE b[1] = 0 /\ (IsNaN(a) \/ IsNaN(b))
    <3>1. Divided(a, b) = NaN
      BY <2>6 DEF Divided
    <3>2. Apply(t, a, b) = NaN
      BY <2>1, <2>2, <2>6
    <3> QED
      BY <2>1, <3>1, <3>2, OneNaN
  <2>7. CASE b[1] = 0 /\ ~IsNaN(a) /\ ~IsNaN(b)
    <3>1. Divided(a, b) = IF a[1] = 0 THEN NaN ELSE Int2Num(0)
      BY <2>4, <2>7 DEF Divided
    <3>2. Apply(t, a, b) = IF a[1] = 0 THEN NaN ELSE Int2Num(0)
      BY <2>1, <2>7
    <3> QED
      BY <2>1, <3>1, <3>2, OneNaN, IntIsNum
  <2> QED
    BY <2>5, <2>6, <2>7
<1>3. CASE t = "kmod"
  BY <1>3, ModuloNum DEF Bound, Apply
<1> QED
  BY <1>1, <1>2, <1>3 DEF Binding

-----------------------------------------------------------------------------
(* The stack of the Computer. *)

Term == [type : FourTypes \cup {"kdouble"}, v : Num]
Pushable == [type : FourTypes \cup {"kdouble", "kleft"}, v : Num]

\* What the Computer puts on its stack.
LEMMA Terms ==
  /\ Term \subseteq Pushable /\ CNode("kleft") \in Pushable /\ CNode("kleft").type = "kleft"
  /\ \A t \in FourTypes : CNode(t) \in Term /\ CNode(t).type = t
  /\ \A y \in Num : CNumber(y) \in Term /\ CNumber(y).type = "kdouble" /\ CNumber(y).v = y
<1>1. Unset \in Num
  BY IntIsNum DEF Unset
<1> QED
  BY <1>1 DEF Term, Pushable, CNode, CNumber

\* d is k open brackets, and t above them.
Stacked(d, k, t) ==
  /\ d \in Seq(Pushable) /\ Len(d) = k + Len(t)
  /\ \A n \in 1 .. k : d[n].type = "kleft"
  /\ \A n \in 1 .. Len(t) : d[k + n] = t[n]

\* A stack with one item more.
LEMMA AppendedItem ==
  ASSUME NEW S, NEW d \in Seq(S), NEW y \in S
  PROVE  /\ Append(d, y) \in Seq(S) /\ Len(Append(d, y)) = Len(d) + 1
         /\ Append(d, y)[Len(d) + 1] = y
         /\ \A n \in 1 .. Len(d) : Append(d, y)[n] = d[n]
OBVIOUS

\* Something is put on top.
LEMMA HoldsMore ==
  ASSUME NEW d, NEW k \in Nat, NEW t \in Seq(Term), Stacked(d, k, t), NEW y \in Term
  PROVE  Stacked(Append(d, y), k, Append(t, y))
<1>1. d \in Seq(Pushable) /\ y \in Pushable /\ Len(d) = k + Len(t) /\ Len(t) \in Nat
  BY Terms DEF Stacked
<1>2. PICK u : u = Append(t, y)
  OBVIOUS
<1>3. Len(u) = Len(t) + 1 /\ u[Len(t) + 1] = y /\ \A n \in 1 .. Len(t) : u[n] = t[n]
  BY <1>2
<1>4. PICK e : e = Append(d, y)
  OBVIOUS
<1>5. /\ e \in Seq(Pushable) /\ Len(e) = Len(d) + 1 /\ e[Len(d) + 1] = y
      /\ \A n \in 1 .. Len(d) : e[n] = d[n]
  BY <1>1, <1>4, AppendedItem
<1>6. \A n \in 1 .. k : e[n].type = "kleft"
  <2>1. \A n \in 1 .. k : n \in 1 .. Len(d)
    BY <1>1
  <2> QED
    BY <1>5, <2>1 DEF Stacked
<1>7. ASSUME NEW n \in 1 .. Len(u)
      PROVE  e[k + n] = u[n]
  <2>1. CASE n = Len(t) + 1
    <3>1. k + n = Len(d) + 1
      BY <1>1, <2>1
    <3> QED
      BY <1>3, <1>5, <2>1, <3>1
  <2>2. CASE n # Len(t) + 1
    <3>1. n \in 1 .. Len(t) /\ k + n \in 1 .. Len(d)
      BY <1>1, <1>3, <2>2
    <3> QED
      BY <1>3, <1>5, <3>1 DEF Stacked
  <2> QED
    BY <2>1, <2>2
<1>8. Len(e) = k + Len(u)
  BY <1>1, <1>3, <1>5
<1> QED
  BY <1>2, <1>4, <1>5, <1>6, <1>7, <1>8 DEF Stacked

\* One more bracket.
LEMMA HoldsBracket ==
  ASSUME NEW d, NEW k \in Nat, Stacked(d, k, <<>>)
  PROVE  Stacked(Append(d, CNode("kleft")), k + 1, <<>>)
<1>1. d \in Seq(Pushable) /\ Len(d) = k /\ CNode("kleft") \in Pushable /\ CNode("kleft").type = "kleft"
  BY Terms DEF Stacked
<1>2. PICK y \in Pushable : y = CNode("kleft") /\ y.type = "kleft"
  BY <1>1
<1>3. PICK e : e = Append(d, y)
  OBVIOUS
<1>4. e \in Seq(Pushable) /\ Len(e) = k + 1 /\ e[k + 1] = y /\ \A n \in 1 .. k : e[n] = d[n]
  BY <1>1, <1>3, AppendedItem
<1>5. \A n \in 1 .. k + 1 : n \in 1 .. k \/ n = k + 1
  OBVIOUS
<1>6. \A n \in 1 .. k + 1 : e[n].type = "kleft"
  BY <1>2, <1>4, <1>5 DEF Stacked
<1>7. Len(<<>>) = 0 /\ Len(e) = (k + 1) + 0
  BY <1>4
<1> QED
  BY <1>2, <1>3, <1>4, <1>6, <1>7 DEF Stacked

\* The top, and what is below it.
LEMMA HoldsTop ==
  ASSUME NEW d, NEW k \in Nat, NEW r \in Seq(Term), NEW y \in Term, Stacked(d, k, Append(r, y))
  PROVE  d # <<>> /\ Len(d) = k + Len(r) + 1 /\ Last(d) = y
<1>1. PICK t : t = Append(r, y)
  OBVIOUS
<1>2. Len(t) = Len(r) + 1 /\ t[Len(r) + 1] = y /\ Len(r) \in Nat
  BY <1>1
<1>3. d \in Seq(Pushable) /\ Len(d) = k + Len(t) /\ \A n \in 1 .. Len(t) : d[k + n] = t[n]
  BY <1>1 DEF Stacked
<1>4. Len(t) \in 1 .. Len(t)
  BY <1>2
<1>5. d[Len(d)] = y
  BY <1>2, <1>3, <1>4
<1>6. Len(d) # 0 /\ Len(d) = k + Len(r) + 1
  BY <1>2, <1>3
<1> QED
  BY <1>3, <1>5, <1>6, EmptySeq DEF Last

\* The first places of what d holds.
LEMMA HoldsFirst ==
  ASSUME NEW d, NEW k \in Nat, NEW t \in Seq(Term), Stacked(d, k, t), NEW m \in Nat,
         NEW u \in Seq(Term), NEW l \in Nat, m = l + Len(u), m <= Len(d), l <= k,
         l = k \/ Len(u) = 0, \A n \in 1 .. Len(u) : n <= Len(t) /\ u[n] = t[n]
  PROVE  Stacked(SubSeq(d, 1, m), l, u)
<1>1. d \in Seq(Pushable) /\ Len(d) \in Nat /\ Len(u) \in Nat /\ Len(t) \in Nat
  BY DEF Stacked
<1>2. PICK p : p = SubSeq(d, 1, m)
  OBVIOUS
<1>3. p \in Seq(Pushable) /\ Len(p) = m /\ \A n \in 1 .. m : p[n] = d[n]
  <2>1. \A n \in 1 .. m : d[n] \in Pushable
    BY <1>1
  <2>2. /\ p \in Seq(Pushable)
        /\ Len(p) = IF 1 <= m THEN m - 1 + 1 ELSE 0
        /\ \A n \in 1 .. m - 1 + 1 : p[n] = d[1 + n - 1]
    BY <1>2, <2>1, SubSeqProperties
  <2>3. m - 1 + 1 = m /\ \A n \in 1 .. m : 1 + n - 1 = n
    OBVIOUS
  <2> QED
    BY <2>2, <2>3
<1>4. \A n \in 1 .. l : n \in 1 .. k /\ n \in 1 .. m
  BY <1>1
<1>5. \A n \in 1 .. l : p[n].type = "kleft"
  BY <1>3, <1>4 DEF Stacked
<1>6. ASSUME NEW n \in 1 .. Len(u)
      PROVE  p[l + n] = u[n]
  <2>1. l = k /\ n \in 1 .. Len(t) /\ k + n \in 1 .. m
    BY <1>1
  <2> QED
    BY <1>3, <2>1 DEF Stacked
<1> QED
  BY <1>2, <1>3, <1>5, <1>6 DEF Stacked

\* A number with an operator after it is taken off.
LEMMA HoldsPopped ==
  ASSUME NEW d, NEW k \in Nat, NEW r \in Seq(Term), NEW y \in Term, NEW z \in Term,
         Stacked(d, k, Append(Append(r, y), z))
  PROVE  Stacked(Popped(d, 2), k, r) /\ d[Len(d) - 1] = y /\ Len(d) > 1
<1>0. Append(r, y) \in Seq(Term)
  OBVIOUS
<1>1. PICK q \in Seq(Term) : q = Append(r, y)
  BY <1>0
<1>00. Append(q, z) \in Seq(Term)
  OBVIOUS
<1>2. PICK t \in Seq(Term) : t = Append(q, z)
  BY <1>00
<1>3. Len(r) \in Nat /\ Len(q) = Len(r) + 1 /\ q[Len(r) + 1] = y /\ \A n \in 1 .. Len(r) : q[n] = r[n]
  BY <1>1
<1>4. Len(t) = Len(q) + 1 /\ \A n \in 1 .. Len(q) : t[n] = q[n]
  BY <1>2
<1>5. Len(t) = Len(r) + 2 /\ t[Len(r) + 1] = y /\ \A n \in 1 .. Len(r) : n <= Len(t) /\ t[n] = r[n]
  BY <1>3, <1>4
<1>6. Stacked(d, k, t)
  BY <1>1, <1>2
<1>7. PICK m \in Nat : m = k + Len(r)
  BY <1>3
<1>8. Len(d) = m + 2 /\ m <= Len(d) /\ Len(d) - 2 = m /\ Len(d) - 1 = k + (Len(r) + 1)
  BY <1>3, <1>5, <1>6, <1>7 DEF Stacked
<1>9. Stacked(SubSeq(d, 1, m), k, r)
  BY <1>5, <1>6, <1>7, <1>8, HoldsFirst
<1>10. Popped(d, 2) = SubSeq(d, 1, m)
  BY <1>8 DEF Popped
<1>11. d[k + (Len(r) + 1)] = y
  <2>1. Len(r) + 1 \in 1 .. Len(t)
    BY <1>3, <1>5
  <2> QED
    BY <1>5, <1>6, <2>1 DEF Stacked
<1>12. d[Len(d) - 1] = y /\ Len(d) > 1
  BY <1>7, <1>8, <1>11
<1> QED
  BY <1>9, <1>10, <1>12

\* The last bracket is the one below the terms.
LEMMA OpeningAt ==
  ASSUME NEW d, NEW k \in Nat \ {0}, NEW t \in Seq(Term), Stacked(d, k, t)
  PROVE  Opening(d) = k
<1> DEFINE I == {n \in 1 .. Len(d) : d[n].type = "kleft"}
<1>1. d \in Seq(Pushable) /\ Len(d) = k + Len(t) /\ Len(t) \in Nat /\ Len(d) \in Nat
  BY DEF Stacked
<1>2. k \in I
  <2>1. k \in 1 .. k /\ k \in 1 .. Len(d)
    BY <1>1
  <2> QED
    BY <2>1 DEF Stacked
<1>3. \A n \in I : n <= k
  <2> SUFFICES ASSUME NEW n \in I, n > k PROVE FALSE
    BY <1>1
  <2>1. PICK m \in 1 .. Len(t) : n = k + m
    <3>1. n - k \in 1 .. Len(t) /\ n = k + (n - k)
      BY <1>1
    <3> QED
      BY <3>1
  <2>2. d[n] = t[m] /\ t[m] \in Term
    BY <2>1 DEF Stacked
  <2>3. t[m].type # "kleft"
    BY <2>2 DEF Term, FourTypes
  <2> QED
    BY <2>2, <2>3
<1>4. I \in SUBSET (1 .. Len(d)) /\ I # {}
  BY <1>2
<1>5. Opening(d) = Max(I)
  BY <1>4 DEF Opening, SelectLastInSeq
<1> HIDE DEF I
<1>6. Max(I) \in I /\ \A n \in I : Max(I) >= n
  BY <1>1, <1>4, MaxIsIn
<1>7. Max(I) \in Int /\ Max(I) <= k /\ Max(I) >= k
  <2>1. Max(I) \in 1 .. Len(d)
    BY <1>4, <1>6
  <2> QED
    BY <1>2, <1>3, <1>6, <2>1
<1> QED
  BY <1>5, <1>7

\* What a closing bracket takes off, and what it leaves.
LEMMA HoldsClosed ==
  ASSUME NEW d, NEW k \in Nat \ {0}, NEW t \in Seq(Term), Stacked(d, k, t)
  PROVE  Within(d) = t /\ Stacked(Below(d), k - 1, <<>>)
<1>1. Opening(d) = k /\ Len(t) \in Nat
  BY OpeningAt
<1>2. Below(d) = SubSeq(d, 1, k - 1) /\ Within(d) = SubSeq(d, k + 1, Len(d))
  BY <1>1 DEF Below, Within
<1>3. PICK m \in Nat : m = k - 1 /\ m <= k
  <2>1. k - 1 \in Nat /\ k - 1 <= k
    OBVIOUS
  <2> QED
    BY <2>1
<1>4. d \in Seq(Pushable) /\ Len(d) = k + Len(t) /\ m <= Len(d)
  BY <1>1, <1>3 DEF Stacked
<1>5. Stacked(SubSeq(d, 1, m), m, <<>>)
  <2>1. <<>> \in Seq(Term) /\ Len(<<>>) = 0
    OBVIOUS
  <2>2. PICK u \in Seq(Term) : u = <<>> /\ Len(u) = 0
    BY <2>1
  <2>3. /\ k \in Nat /\ m = m + Len(u) /\ m <= Len(d) /\ m <= k /\ (m = k \/ Len(u) = 0)
        /\ \A n \in 1 .. Len(u) : n <= Len(t) /\ u[n] = t[n]
    BY <1>3, <1>4, <2>2
  <2>4. Stacked(SubSeq(d, 1, m), m, u)
    BY <2>3, HoldsFirst
  <2> QED
    BY <2>2, <2>4
<1>6. PICK w : w = SubSeq(d, k + 1, Len(d))
  OBVIOUS
<1>7. w \in Seq(Pushable) /\ Len(w) = Len(t) /\ \A n \in 1 .. Len(t) : w[n] = t[n]
  <2>1. PICK l \in Nat : l = Len(d)
    BY <1>4
  <2>2. \A n \in k + 1 .. l : d[n] \in Pushable
    BY <1>4, <2>1
  <2>3. /\ w \in Seq(Pushable)
        /\ Len(w) = IF k + 1 <= l THEN l - (k + 1) + 1 ELSE 0
        /\ \A n \in 1 .. l - (k + 1) + 1 : w[n] = d[(k + 1) + n - 1]
    BY <1>6, <2>1, <2>2, SubSeqProperties
  <2>4. l - (k + 1) + 1 = Len(t) /\ Len(w) = Len(t)
    BY <1>1, <1>4, <2>1, <2>3
  <2>5. \A n \in 1 .. Len(t) : (k + 1) + n - 1 = k + n
    OBVIOUS
  <2> QED
    BY <2>3, <2>4, <2>5 DEF Stacked
<1>8. w = t
  BY <1>7, SeqEqual
<1> QED
  BY <1>2, <1>3, <1>5, <1>6, <1>8

\* A number is put on open brackets, or on an operator that does not bind.
LEMMA PushedOnBrackets ==
  ASSUME NEW d, NEW k \in Nat, Stacked(d, k, <<>>), NEW y
  PROVE  ~PushUndefined(d, y) /\ PushNumber(d, y) = Append(d, CNumber(y))
<1>1. d \in Seq(Pushable) /\ Len(d) = k
  BY DEF Stacked
<1>2. ~EndsWith(d, Binding)
  <2>1. Len(d) > 0 => Len(d) \in 1 .. k
    BY <1>1
  <2>2. d # <<>> => Last(d).type = "kleft"
    BY <1>1, <2>1, EmptySeq DEF Stacked, Last
  <2> QED
    BY <2>2 DEF EndsWith, Binding
<1> QED
  BY <1>2 DEF PushUndefined, PushNumber, Binds

-----------------------------------------------------------------------------
(* What the terms above the brackets are worth. *)

\* Above k brackets r is the sum M with its operator, and x the product P;
\* where the product is all, r is nothing.
Parts(s, k, c, M, P, r, x) ==
  /\ r \in Seq(Term) /\ x \in Num /\ x = P /\ Folded(r).v \in Num
  /\ IF c = k + 1 THEN r = <<>>
     ELSE Folded(r).v = M /\ Folded(r).add = (s[c - 1].type = "kadd")

\* So the sum of both is the total.
LEMMA PartsTotal ==
  ASSUME NEW s, NEW k, NEW c, NEW M, NEW P, NEW r, NEW x, Parts(s, k, c, M, P, r, x),
         c = k + 1 \/ s[c - 1].type \in {"kadd", "minus"}
  PROVE  /\ Sum(Append(r, CNumber(x))) = Folded(Append(r, CNumber(x))).v
         /\ Sum(Append(r, CNumber(x))) \in Num
         /\ Sum(Append(r, CNumber(x))) = Total(s, k, c, M, P)
<1>1. r \in Seq(Term) /\ x \in Num /\ x = P /\ Folded(r).v \in Num
  BY DEF Parts
<1>2. CNumber(x) \in Term /\ CNumber(x).type = "kdouble" /\ CNumber(x).v = x
  BY <1>1, Terms
<1>3. Folded(Append(r, CNumber(x))) = Summed(Folded(r), CNumber(x))
  BY <1>1, <1>2, FoldedStep
<1>4. PICK z : z = Folded(Append(r, CNumber(x))).v
  OBVIOUS
<1>5. z = IF Folded(r).add THEN Plus(Folded(r).v, x) ELSE Less(Folded(r).v, x)
  BY <1>2, <1>3, <1>4 DEF Summed
<1>6. Sum(Append(r, CNumber(x))) = z
  BY <1>4 DEF Sum, Folded, Begin
<1>7. CASE c = k + 1
  <2>1. Folded(r) = Begin
    BY <1>7, FoldedNothing DEF Parts
  <2>2. z = Plus(Int2Num(0), x)
    BY <1>5, <2>1 DEF Begin
  <2>3. z = x
    BY <1>1, <2>2, PlusZero
  <2> QED
    BY <1>1, <1>4, <1>6, <1>7, <2>3 DEF Total
<1>8. CASE c # k + 1
  <2>1. Folded(r).v = M /\ Folded(r).add = (s[c - 1].type = "kadd")
    BY <1>8 DEF Parts
  <2>2. PICK a \in Num : a = Folded(r).v /\ a = M
    BY <1>1, <2>1
  <2>3. /\ Plus(a, x) \in Num /\ Less(a, x) \in Num
        /\ Plus(a, x) = Plus(M, P) /\ Less(a, x) = Less(M, P)
    BY <1>1, <2>2, Arithmetic
  <2>4. CASE s[c - 1].type = "kadd"
    <3>1. z = Plus(a, x) /\ Total(s, k, c, M, P) = Plus(M, P)
      BY <1>5, <1>8, <2>1, <2>2, <2>4 DEF Total, Apply
    <3> QED
      BY <1>4, <1>6, <2>3, <3>1
  <2>5. CASE s[c - 1].type = "minus"
    <3>1. z = Less(a, x) /\ Total(s, k, c, M, P) = Less(M, P)
      BY <1>5, <1>8, <2>1, <2>2, <2>5 DEF Total, Apply
    <3> QED
      BY <1>4, <1>6, <2>3, <3>1
  <2> QED
    BY <1>8, <2>4, <2>5
<1> QED
  BY <1>7, <1>8

\* A sign after them is the operator that is to be applied next.
OpNode(y) == IF y = "minus" THEN "ksub" ELSE y

\* Their sum is the sum that the sign is applied to.
LEMMA PartsSigned ==
  ASSUME NEW r \in Seq(Term), NEW x \in Num, NEW y \in {"kadd", "minus"},
         NEW z, z = Sum(Append(r, CNumber(x)))
  PROVE  LET u == Append(Append(r, CNumber(x)), CNode(OpNode(y)))
         IN u \in Seq(Term) /\ Folded(u).v = z /\ Folded(u).add = (y = "kadd")
<1>1. CNumber(x) \in Term
  BY Terms
<1>2. PICK q : q = Append(r, CNumber(x))
  OBVIOUS
<1>3. q \in Seq(Term)
  BY <1>1, <1>2
<1>4. OpNode(y) \in {"kadd", "ksub"} /\ (OpNode(y) = "kadd" <=> y = "kadd")
  BY DEF OpNode
<1>5. PICK e \in Term : e = CNode(OpNode(y)) /\ e.type = OpNode(y)
  BY <1>4, Terms DEF FourTypes
<1>6. Folded(Append(q, e)) = Summed(Folded(q), e)
  BY <1>3, FoldedStep
<1>7. Summed(Folded(q), e).v = Folded(q).v /\ Summed(Folded(q), e).add = (y = "kadd")
  BY <1>4, <1>5 DEF Summed
<1>8. Folded(q).v = z
  BY <1>2 DEF Sum, Folded, Begin
<1>9. Append(q, e) \in Seq(Term)
  BY <1>3
<1> QED
  BY <1>2, <1>5, <1>6, <1>7, <1>8, <1>9

-----------------------------------------------------------------------------
(* One step of formula_compute. *)

\* Above k open brackets: the value of the places since, or that and an operator.
DigitOn(s, v, d, i, k) ==
  /\ s[i].type \in Operand
  /\ \E c \in k + 1 .. i : \E M, P, r, x :
       /\ Derived(s, v, k, i, c, M, P) /\ Parts(s, k, c, M, P, r, x)
       /\ Stacked(d, k, Append(r, CNumber(x)))
OptOn(s, v, d, i, k) ==
  /\ s[i].type \in Operators
  /\ \E c \in k + 1 .. i - 1 : \E M, P, r, x :
       /\ Derived(s, v, k, i - 1, c, M, P) /\ Parts(s, k, c, M, P, r, x)
       /\ Stacked(d, k, Append(Append(r, CNumber(x)), CNode(OpNode(s[i].type))))
ComputedAt(s, v, d, i, k) ==
  \/ i = k /\ Stacked(d, k, <<>>)
  \/ DigitOn(s, v, d, i, k)
  \/ OptOn(s, v, d, i, k)
Computed(s, v, d, i) == \E k \in Nat : Level(s, i, k) /\ ComputedAt(s, v, d, i, k)

\* What may follow in a text that is not refused.
LEMMA MayFollow ==
  ASSUME NEW s \in Seq(Lexeme), ~Doomed(s), NEW x \in Node, NEW i \in 0 .. Len(s),
         NEW j \in 0 .. Len(s), MapsNode(s, x, i, j)
  PROVE  /\ IsOperand(x) \/ IsFour(x) \/ x.type \in {"kleft", "kright"}
         /\ (i = 0 \/ s[i].type = "kleft") => IsOperand(x) \/ x.type = "kleft"
         /\ i >= 1 /\ s[i].type \in Operators => IsOperand(x)
         /\ i >= 1 /\ s[i].type \in Operand => IsFour(x) \/ x.type = "kright"
<1>0. /\ j \in i + 1 .. i + 2 /\ i + 1 \in 1 .. Len(s) /\ i < Len(s)
      /\ i >= 1 => i \in 1 .. Len(s)
  <2>1. j \in i + 1 .. i + 2 /\ i + 1 \in 1 .. Len(s)
    BY Forms
  <2> QED
    BY <2>1
<1>1. IsOperand(x) \/ IsFour(x) \/ x.type \in {"kleft", "kright"}
  BY DoomedNode
<1>2. IsFour(x) \/ x.type = "kright" => i >= 1 /\ s[i].type \notin Operators \cup {"kleft"}
  BY DoomedFirst
<1>3. x.type = "kleft" /\ i >= 1 => s[i].type \notin Operators /\ s[i].type \notin Operand
  <2> SUFFICES ASSUME x.type = "kleft", i >= 1
               PROVE  s[i].type \notin Operators /\ s[i].type \notin Operand
    OBVIOUS
  <2>1. s[i + 1].type = "kleft"
    BY BracketPlace
  <2>2. s[i].type \notin Operators
    BY <1>0, <2>1, DoomedDeparture
  <2>3. Adjacent(s[i].type, s[i + 1].type)
    BY <1>0, DoomedPair
  <2> QED
    BY <2>1, <2>2, <2>3 DEF Adjacent, Operators, Binding
<1>4. IsOperand(x) /\ i >= 1 => s[i].type \notin Operand
  <2> SUFFICES ASSUME IsOperand(x), i >= 1, s[i].type \in Operand
               PROVE  FALSE
    OBVIOUS
  <2>1. CASE j = i + 1 /\ s[j].type \in {"kint8", "kname"}
    <3>1. ~Adjacent(s[i].type, s[i + 1].type)
      BY <2>1 DEF Adjacent, Operators, Binding
    <3> QED
      BY <1>0, <3>1, DoomedPair
  <2>2. CASE s[i + 1].type = "minus" /\ ~(i >= 1 /\ s[i].type \in NameOrBracket)
    <3>1. s[i].type = "kint8"
      BY <2>2 DEF Operand, NameOrBracket
    <3> QED
      BY <1>0, <2>2, <3>1, DoomedDeparture
  <2> QED
    BY <2>1, <2>2, Forms
<1>5. i >= 1 \/ i = 0
  OBVIOUS
<1> QED
  BY <1>1, <1>2, <1>3, <1>4, <1>5

\* An opening bracket is one more on the stack.
LEMMA Opens ==
  ASSUME NEW s \in Seq(Lexeme), ~Doomed(s), NEW v, NEW x \in Node, NEW i \in 0 .. Len(s),
         NEW j \in 0 .. Len(s), MapsNode(s, x, i, j), NEW d, Computed(s, v, d, i),
         x.type = "kleft"
  PROVE  Computed(s, v, Append(d, CNode("kleft")), j)
<1>1. PICK k \in Nat : Level(s, i, k) /\ ComputedAt(s, v, d, i, k)
  BY DEF Computed
<1>2. ~IsOperand(x) /\ ~IsFour(x) /\ x.type # "kright"
  BY NodeKinds
<1>3. i = k /\ Stacked(d, k, <<>>)
  <2>1. ~(i >= 1 /\ s[i].type \in Operand) /\ ~(i >= 1 /\ s[i].type \in Operators)
    BY <1>2, MayFollow
  <2>2. ~DigitOn(s, v, d, i, k)
    BY <2>1 DEF DigitOn
  <2>3. ~OptOn(s, v, d, i, k)
    BY <2>1 DEF OptOn
  <2> QED
    BY <1>1, <2>2, <2>3 DEF ComputedAt
<1>4. j = i + 1 /\ s[j].type = "kleft" /\ i \in 0 .. Len(s) - 1
  BY BracketPlace
<1>5. Level(s, j, k + 1)
  <2>1. Delta(s[i + 1].type) = 1
    BY <1>4 DEF Delta
  <2>2. \A h : Nested(s, h, 1, Len(s)) => h[i + 1] = k + 1
    BY <1>1, <1>4, <2>1, LevelAt
  <2>3. \A n \in 1 .. k + 1 : n \in 1 .. k \/ n = j
    BY <1>3, <1>4
  <2>4. \A n \in 1 .. k + 1 : s[n].type = "kleft"
    BY <1>1, <1>4, <2>3 DEF Level
  <2> QED
    BY <1>4, <2>2, <2>4 DEF Level
<1>6. Stacked(Append(d, CNode("kleft")), k + 1, <<>>)
  BY <1>3, HoldsBracket
<1>7. j = k + 1 /\ k + 1 \in Nat
  BY <1>3, <1>4
<1> QED
  BY <1>5, <1>6, <1>7 DEF Computed, ComputedAt

\* An operator is put on the stack.
LEMMA Operates ==
  ASSUME NEW s \in Seq(Lexeme), ~Doomed(s), NEW v, NEW x \in Node, NEW i \in 0 .. Len(s),
         NEW j \in 0 .. Len(s), MapsNode(s, x, i, j), NEW d, Computed(s, v, d, i), IsFour(x)
  PROVE  Computed(s, v, Append(d, CNode(x.type)), j)
<1>1. PICK k \in Nat : Level(s, i, k) /\ ComputedAt(s, v, d, i, k)
  BY DEF Computed
<1>2. ~IsOperand(x) /\ x.type # "kleft"
  BY NodeKinds
<1>3. i # 0 /\ s[i].type # "kleft" /\ s[i].type \notin Operators
  <2>1. i >= 1 \/ i = 0
    OBVIOUS
  <2> QED
    BY <1>2, <2>1, MayFollow
<1>4. DigitOn(s, v, d, i, k)
  <2>1. ~(i = k /\ Stacked(d, k, <<>>))
    <3>1. i = k => i \in 1 .. k
      BY <1>3
    <3> QED
      BY <1>1, <1>3, <3>1 DEF Level
  <2> QED
    BY <1>1, <1>3, <2>1 DEF ComputedAt, OptOn
<1>5. PICK c, M, P, r, y :
        /\ c \in k + 1 .. i /\ Derived(s, v, k, i, c, M, P) /\ Parts(s, k, c, M, P, r, y)
        /\ Stacked(d, k, Append(r, CNumber(y)))
  BY <1>4 DEF DigitOn
<1>6. j = i + 1 /\ s[j].type \in Operators /\ j - 1 = i /\ i \in 0 .. Len(s) - 1
  <2>1. j = i + 1 /\ s[j].type \in Operators
    BY Forms
  <2> QED
    BY <2>1
<1>7. OpNode(s[j].type) = x.type
  <2>1. /\ s[j].type # "minus" => x = s[j]
        /\ s[j].type = "minus" => x.type = "ksub"
    BY Forms
  <2> QED
    BY <2>1 DEF OpNode, Token
<1>8. Level(s, j, k)
  BY <1>1, <1>6, LevelOperator
<1>9. Stacked(Append(d, CNode(x.type)), k, Append(Append(r, CNumber(y)), CNode(x.type)))
  <2>1. r \in Seq(Term) /\ CNumber(y) \in Term /\ CNode(x.type) \in Term
    BY <1>5, Terms DEF Parts, IsFour
  <2>2. PICK q : q = Append(r, CNumber(y))
    OBVIOUS
  <2>3. q \in Seq(Term)
    BY <2>1, <2>2
  <2> QED
    BY <1>5, <2>1, <2>2, <2>3, HoldsMore
<1>10. OptOn(s, v, Append(d, CNode(x.type)), j, k)
  BY <1>5, <1>6, <1>7, <1>9 DEF OptOn
<1> QED
  BY <1>8, <1>10 DEF Computed, ComputedAt

\* An operand is pushed.
LEMMA PushesOperand ==
  ASSUME NEW s \in Seq(Lexeme), ~Doomed(s), NEW v, NEW x \in Node, NEW i \in 0 .. Len(s),
         NEW j \in 0 .. Len(s), MapsNode(s, x, i, j), NEW d, Computed(s, v, d, i),
         IsOperand(x), NEW Q, Q = NumberOf(x, v), Q \in Num, ~PushUndefined(d, Q)
  PROVE  Computed(s, v, PushNumber(d, Q), j)
<1>0. /\ j \in i + 1 .. i + 2 /\ i + 1 \in 1 .. Len(s) /\ Len(s) \in Nat /\ j \in 1 .. Len(s)
      /\ s[j].type \in Operand
  <2>1. j \in i + 1 .. i + 2 /\ i + 1 \in 1 .. Len(s)
    BY Forms
  <2>2. s[j].type \in Operand
    BY Forms DEF Operand
  <2> QED
    BY <2>1, <2>2
<1>1. PICK k \in Nat : Level(s, i, k) /\ ComputedAt(s, v, d, i, k)
  BY DEF Computed
<1>2. Level(s, j, k)
  BY <1>1, LevelOperand
<1>3. CNumber(Q) \in Term /\ Reading(0, i + 1, j, Q) \in Made(s, v)[0] /\ Q = Q
  BY Terms, OperandRead
<1>4. ~DigitOn(s, v, d, i, k)
  <2>1. ~IsFour(x) /\ x.type # "kright"
    BY NodeKinds
  <2>2. ~(i >= 1 /\ s[i].type \in Operand)
    BY <2>1, MayFollow
  <2> QED
    BY <2>2 DEF DigitOn
<1>5. CASE i = k /\ Stacked(d, k, <<>>)
  <2>1. PushNumber(d, Q) = Append(d, CNumber(Q))
    BY <1>5, PushedOnBrackets
  <2>2. <<>> \in Seq(Term)
    OBVIOUS
  <2>3. Stacked(PushNumber(d, Q), k, Append(<<>>, CNumber(Q)))
    BY <1>3, <1>5, <2>1, <2>2, HoldsMore
  <2>4. Parts(s, k, k + 1, Q, Q, <<>>, Q)
    <3>1. Folded(<<>>).v = Int2Num(0)
      BY FoldedNothing DEF Begin
    <3> QED
      BY <1>3, <2>2, <3>1, IntIsNum DEF Parts
  <2>5. Derived(s, v, k, j, k + 1, Q, Q) /\ k + 1 \in k + 1 .. j
    BY <1>0, <1>3, <1>5, DerivedFirst
  <2>6. DigitOn(s, v, PushNumber(d, Q), j, k)
    BY <1>0, <2>3, <2>4, <2>5 DEF DigitOn
  <2> QED
    BY <1>2, <2>6 DEF Computed, ComputedAt
<1>6. CASE OptOn(s, v, d, i, k)
  <2>1. PICK c, M, P, r, y :
          /\ c \in k + 1 .. i - 1 /\ Derived(s, v, k, i - 1, c, M, P)
          /\ Parts(s, k, c, M, P, r, y)
          /\ Stacked(d, k, Append(Append(r, CNumber(y)), CNode(OpNode(s[i].type))))
    BY <1>6 DEF OptOn
  <2>2. s[i].type \in Operators
    BY <1>6 DEF OptOn
  <2>3. PICK n \in 1 .. Len(s) : n = i - 1 /\ n + 1 = i /\ n + 2 = i + 1
    <3>1. i - 1 \in 1 .. Len(s) /\ (i - 1) + 1 = i /\ (i - 1) + 2 = i + 1
      BY <2>1
    <3> QED
      BY <3>1
  <2>4. c \in k + 1 .. n /\ c \in 1 .. n /\ Derived(s, v, k, n, c, M, P) /\ j \in n + 2 .. Len(s)
        /\ Reading(0, n + 2, j, Q) \in Made(s, v)[0]
    BY <1>0, <1>3, <2>1, <2>3
  <2>5. PICK o \in FourTypes : o = OpNode(s[i].type)
    BY <2>2 DEF OpNode, Operators, Binding, FourTypes
  <2>6. r \in Seq(Term) /\ y \in Num /\ CNumber(y) \in Term /\ CNode(o) \in Term
        /\ CNumber(y).v = y /\ CNode(o).type = o /\ y = P
    BY <2>1, Terms DEF Parts
  <2>7. PICK a \in Term, b \in Term : a = CNumber(y) /\ b = CNode(o) /\ a.v = y /\ b.type = o
    BY <2>6
  <2>8. Stacked(d, k, Append(Append(r, a), b))
    BY <2>1, <2>5, <2>7
  <2>9. d # <<>> /\ Last(d) = b
    <3>1. PICK q : q = Append(r, a)
      OBVIOUS
    <3>2. q \in Seq(Term)
      BY <2>6, <2>7, <3>1
    <3> QED
      BY <2>8, <3>1, <3>2, HoldsTop
  <2>10. Stacked(Popped(d, 2), k, r) /\ d[Len(d) - 1] = a /\ Len(d) > 1
    BY <2>6, <2>8, HoldsPopped
  <2>11. CASE s[i].type \in Binding
    <3>1. o = s[i].type /\ o \in Binding
      BY <2>5, <2>11 DEF OpNode, Binding
    <3>2. Binds(d)
      BY <2>7, <2>9, <2>10, <3>1 DEF Binds, EndsWith
    <3>3. PushNumber(d, Q) = Append(Popped(d, 2), CNumber(Bound(o, y, Q)))
      BY <2>7, <2>9, <2>10, <3>2 DEF PushNumber
    <3>4. o = "kmod" => HasModulo(y, Q)
      BY <2>7, <2>9, <2>10, <3>2 DEF PushUndefined
    <3>5. PICK z \in Num : z = Bound(o, y, Q) /\ z = Apply(o, P, Q)
      BY <1>3, <2>6, <3>1, <3>4, BoundApplies
    <3>6. Stacked(PushNumber(d, Q), k, Append(r, CNumber(z)))
      BY <2>6, <2>10, <3>3, <3>5, Terms, HoldsMore
    <3>7. Derived(s, v, k, j, c, M, Apply(o, P, Q))
      <4>1. s[n + 1].type \in Binding /\ s[n + 1].type = o
        BY <2>3, <2>11, <3>1
      <4> QED
        BY <2>4, <4>1, DerivedBinding
    <3>8. Parts(s, k, c, M, Apply(o, P, Q), r, z)
      BY <2>1, <3>5 DEF Parts
    <3>9. c \in k + 1 .. j
      BY <2>4
    <3>10. DigitOn(s, v, PushNumber(d, Q), j, k)
      BY <1>0, <3>6, <3>7, <3>8, <3>9 DEF DigitOn
    <3> QED
      BY <1>2, <3>10 DEF Computed, ComputedAt
  <2>12. CASE s[i].type \in {"kadd", "minus"}
    <3>1. o \in {"kadd", "ksub"}
      BY <2>5, <2>12 DEF OpNode
    <3>2. ~Binds(d)
      BY <2>7, <2>9, <3>1 DEF Binds, EndsWith, Binding
    <3>3. PushNumber(d, Q) = Append(d, CNumber(Q))
      BY <3>2 DEF PushNumber
    <3>4. PICK u \in Seq(Term) : /\ u = Append(Append(r, a), b)
                                /\ Folded(u).v = Sum(Append(r, CNumber(y)))
                                /\ Folded(u).add = (s[i].type = "kadd")
      <4>1. PICK f : f = Append(Append(r, a), b)
        OBVIOUS
      <4>2. /\ f \in Seq(Term) /\ Folded(f).v = Sum(Append(r, CNumber(y)))
            /\ Folded(f).add = (s[i].type = "kadd")
        BY <2>5, <2>6, <2>7, <2>12, <4>1, PartsSigned
      <4> QED
        BY <4>1, <4>2
    <3>5. Stacked(PushNumber(d, Q), k, Append(u, CNumber(Q)))
      BY <1>3, <2>8, <3>3, <3>4, HoldsMore
    <3>6. Derived(s, v, k, j, n + 2, Total(s, k, c, M, P), Q)
      <4>1. s[n + 1].type \in {"kadd", "minus"}
        BY <2>3, <2>12
      <4> QED
        BY <2>4, <4>1, DerivedAdditive
    <3>7. PICK T, e : T = Total(s, k, c, M, P) /\ e = n + 2
      OBVIOUS
    <3>8. Parts(s, k, e, T, Q, u, Q)
      <4>1. c = k + 1 \/ s[c - 1].type \in {"kadd", "minus"}
        BY <2>1 DEF Derived
      <4>2. /\ Sum(Append(r, CNumber(y))) \in Num
            /\ Sum(Append(r, CNumber(y))) = T
        BY <2>1, <3>7, <4>1, PartsTotal
      <4>3. e # k + 1 /\ e - 1 = i
        BY <2>3, <2>4, <3>7
      <4> QED
        BY <1>3, <3>4, <4>2, <4>3 DEF Parts
    <3>9. e \in k + 1 .. j
      BY <2>3, <2>4, <3>7
    <3>10. DigitOn(s, v, PushNumber(d, Q), j, k)
      BY <1>0, <3>5, <3>6, <3>7, <3>8, <3>9 DEF DigitOn
    <3> QED
      BY <1>2, <3>10 DEF Computed, ComputedAt
  <2> QED
    BY <2>2, <2>11, <2>12 DEF Operators
<1> QED
  BY <1>1, <1>4, <1>5, <1>6 DEF ComputedAt

\* A closing bracket makes a number of what is above the opening one.
LEMMA Closes ==
  ASSUME NEW s \in Seq(Lexeme), ~Doomed(s), NEW v, NEW x \in Node, NEW i \in 0 .. Len(s),
         NEW j \in 0 .. Len(s), MapsNode(s, x, i, j), NEW d, Computed(s, v, d, i),
         x.type = "kright"
  PROVE  Computed(s, v, PushNumber(Below(d), Sum(Within(d))), j)
<1>1. PICK k \in Nat : Level(s, i, k) /\ ComputedAt(s, v, d, i, k)
  BY DEF Computed
<1>2. ~IsOperand(x) /\ x.type # "kleft"
  BY NodeKinds
<1>3. i # 0 /\ s[i].type # "kleft" /\ s[i].type \notin Operators
  <2>1. i >= 1 \/ i = 0
    OBVIOUS
  <2> QED
    BY <1>2, <2>1, MayFollow
<1>4. DigitOn(s, v, d, i, k)
  <2>1. ~(i = k /\ Stacked(d, k, <<>>))
    <3>1. i = k => i \in 1 .. k
      BY <1>3
    <3> QED
      BY <1>1, <1>3, <3>1 DEF Level
  <2> QED
    BY <1>1, <1>3, <2>1 DEF ComputedAt, OptOn
<1>5. PICK c, M, P, r, y :
        /\ c \in k + 1 .. i /\ Derived(s, v, k, i, c, M, P) /\ Parts(s, k, c, M, P, r, y)
        /\ Stacked(d, k, Append(r, CNumber(y)))
  BY <1>4 DEF DigitOn
<1>6. /\ j = i + 1 /\ s[j].type = "kright" /\ i \in 0 .. Len(s) - 1 /\ j \in 1 .. Len(s)
      /\ i < Len(s) /\ i \in 1 .. Len(s)
  <2>1. j = i + 1 /\ s[j].type = "kright"
    BY BracketPlace
  <2> QED
    BY <1>3, <2>1
<1>7. \A h : Nested(s, h, 1, Len(s)) => h[j] = k - 1
  <2>1. Delta(s[i + 1].type) = 0 - 1 /\ k + (0 - 1) = k - 1
    BY <1>6 DEF Delta
  <2> QED
    BY <1>1, <1>6, <2>1, LevelAt
<1>8. k # 0
  <2>1. PICK h : Nested(s, h, 1, Len(s))
    BY DEF Doomed, Sound
  <2>2. h[j] \in Nat
    <3>1. j \in 1 - 1 .. Len(s)
      BY <1>6
    <3> QED
      BY <2>1, <3>1 DEF Nested
  <2> QED
    BY <1>7, <2>1, <2>2
<1>9. PICK m \in Nat : m = k - 1 /\ m + 1 = k
  <2>1. k - 1 \in Nat /\ (k - 1) + 1 = k
    BY <1>8
  <2> QED
    BY <2>1
<1>10. Level(s, j, m)
  <2>1. \A n \in 1 .. m : n \in 1 .. k
    BY <1>9
  <2> QED
    BY <1>1, <1>7, <1>9, <2>1 DEF Level
<1>11. PICK T : T = Total(s, k, c, M, P)
  OBVIOUS
<1>12. PICK z \in Num : z = Sum(Append(r, CNumber(y))) /\ z = T
  <2>1. c = k + 1 \/ s[c - 1].type \in {"kadd", "minus"}
    BY <1>5 DEF Derived
  <2> QED
    BY <1>5, <1>11, <2>1, PartsTotal
<1>13. Within(d) = Append(r, CNumber(y)) /\ Stacked(Below(d), m, <<>>)
  <2>1. r \in Seq(Term) /\ CNumber(y) \in Term
    BY <1>5, Terms DEF Parts
  <2>2. Append(r, CNumber(y)) \in Seq(Term)
    BY <2>1
  <2>3. k \in Nat \ {0}
    BY <1>8
  <2> QED
    BY <1>5, <1>9, <2>2, <2>3, HoldsClosed
<1>14. PushNumber(Below(d), z) = Append(Below(d), CNumber(z))
  BY <1>13, PushedOnBrackets
<1>15. Stacked(PushNumber(Below(d), z), m, Append(<<>>, CNumber(z)))
  <2>1. <<>> \in Seq(Term) /\ CNumber(z) \in Term
    BY Terms
  <2> QED
    BY <1>13, <1>14, <2>1, HoldsMore
<1>16. Parts(s, m, k, M, T, <<>>, z)
  <2>1. Folded(<<>>).v = Int2Num(0) /\ <<>> \in Seq(Term)
    BY FoldedNothing DEF Begin
  <2> QED
    BY <1>9, <1>12, <2>1, IntIsNum DEF Parts
<1>17. Derived(s, v, m, j, k, M, T)
  <2>1. k \in Nat \ {0} /\ s[k].type = "kleft"
    <3>1. k \in Nat \ {0} /\ k \in 1 .. k
      BY <1>8
    <3> QED
      BY <1>1, <3>1 DEF Level
  <2> QED
    BY <1>5, <1>6, <1>9, <1>11, <2>1, DerivedClosed
<1>18. DigitOn(s, v, PushNumber(Below(d), z), j, m)
  <2>1. k \in m + 1 .. j /\ s[j].type \in Operand
    BY <1>5, <1>6, <1>9 DEF Operand
  <2> QED
    BY <1>15, <1>16, <1>17, <2>1 DEF DigitOn
<1> QED
  BY <1>10, <1>12, <1>13, <1>18 DEF Computed, ComputedAt

\* What is left is a meaning of the text.
LEMMA ComputedEnd ==
  ASSUME NEW s \in Seq(Lexeme), ~Doomed(s), NEW v, NEW d, Computed(s, v, d, Len(s))
  PROVE  (\E m \in Meanings(s, v) : Sum(d) = m) /\ Sum(d) \in Num
<1>1. PICK k \in Nat : Level(s, Len(s), k) /\ ComputedAt(s, v, d, Len(s), k)
  BY DEF Computed
<1>2. Len(s) \in Nat \ {0} /\ s[Len(s)].type \in Operand
  BY DEF Doomed, Sound
<1>3. k = 0
  <2>1. PICK h : Nested(s, h, 1, Len(s))
    BY DEF Doomed, Sound
  <2> QED
    BY <1>1, <2>1 DEF Level, Nested
<1>4. DigitOn(s, v, d, Len(s), 0)
  <2>1. s[Len(s)].type \notin Operators
    BY <1>2 DEF Operators, Binding, Operand
  <2> QED
    BY <1>1, <1>2, <1>3, <2>1 DEF ComputedAt, OptOn
<1>5. PICK c, M, P, r, y :
        /\ c \in 0 + 1 .. Len(s) /\ Derived(s, v, 0, Len(s), c, M, P) /\ Parts(s, 0, c, M, P, r, y)
        /\ Stacked(d, 0, Append(r, CNumber(y)))
  BY <1>4 DEF DigitOn
<1>6. d = Append(r, CNumber(y))
  <2>1. r \in Seq(Term) /\ CNumber(y) \in Term /\ Term \subseteq Pushable
    BY <1>5, Terms DEF Parts
  <2>2. PICK t : t = Append(r, CNumber(y))
    OBVIOUS
  <2>3. t \in Seq(Term)
    BY <2>1, <2>2
  <2>4. t \in Seq(Pushable) /\ Len(t) \in Nat
    BY <2>1, <2>3
  <2>5. d \in Seq(Pushable) /\ Len(d) = 0 + Len(t) /\ \A n \in 1 .. Len(t) : d[0 + n] = t[n]
    BY <1>5, <2>2 DEF Stacked
  <2>6. Len(d) = Len(t) /\ \A n \in 1 .. Len(t) : d[n] = t[n]
    BY <2>4, <2>5
  <2> QED
    BY <2>2, <2>4, <2>5, <2>6, SeqEqual
<1>7. Total(s, 0, c, M, P) \in Meanings(s, v)
  <2>1. c \in 1 .. Len(s) /\ Len(s) # 0
    BY <1>2, <1>5
  <2> QED
    BY <1>5, <2>1, DerivedMeaning
<1>8. Sum(d) = Total(s, 0, c, M, P) /\ Sum(d) \in Num
  <2>1. c = 0 + 1 \/ s[c - 1].type \in {"kadd", "minus"}
    BY <1>5 DEF Derived
  <2> QED
    BY <1>5, <1>6, <2>1, PartsTotal
<1> QED
  BY <1>7, <1>8

\* Before the first node.
LEMMA ComputedBegin ==
  ASSUME NEW s \in Seq(Lexeme), NEW v
  PROVE  Computed(s, v, <<>>, 0)
<1>1. Level(s, 0, 0)
  BY DEF Level, Nested
<1>2. Stacked(<<>>, 0, <<>>)
  BY DEF Stacked
<1>3. 0 \in Nat
  OBVIOUS
<1> QED
  BY <1>1, <1>2, <1>3 DEF Computed, ComputedAt

-----------------------------------------------------------------------------
(* A text has one meaning at most. *)

\* How a reading comes from others.
RaisedFrom(q, r) == r.level < 2 /\ q = Reading(r.level + 1, r.from, r.to, r.number)
BracketOf(s, q, r) ==
  /\ r.level = 2 /\ r.from > 1 /\ r.to < Len(s)
  /\ s[r.from - 1].type = "kleft" /\ s[r.to + 1].type = "kright"
  /\ q = Reading(0, r.from - 1, r.to + 1, r.number)
JoinOf(s, q, l, r) ==
  /\ r.level = l.level - 1 /\ r.from = l.to + 2 /\ s[l.to + 1].type \in OperatorsOf(l.level)
  /\ q = Reading(l.level, l.from, r.to, Apply(s[l.to + 1].type, l.number, r.number))

\* Further is made of these three.
LEMMA FurtherKinds ==
  ASSUME NEW s, NEW R, NEW q
  PROVE  q \in Further(s, R) <=>
           \/ \E r \in R : RaisedFrom(q, r)
           \/ \E r \in R : BracketOf(s, q, r)
           \/ \E l \in R, r \in R : JoinOf(s, q, l, r)
BY DEF Further, RaisedFrom, BracketOf, JoinOf

\* Every reading is simple or comes from readings of the text.
LEMMA Origins ==
  ASSUME NEW S, NEW s \in Seq(S), NEW v, NEW q \in Made(s, v)[3 * Len(s)]
  PROVE  q \in Simple(s, v) \cup Further(s, Made(s, v)[3 * Len(s)])
<1>1. PICK g : g = Made(s, v)
  OBVIOUS
<1>2. PICK N \in Nat : N = 3 * Len(s)
  OBVIOUS
<1>3. PICK G : G = g[N]
  OBVIOUS
<1> DEFINE T == {k \in 0 .. N : g[k] \subseteq Simple(s, v) \cup Further(s, G)}
<1>4. 0 \in T
  BY <1>1, <1>2, MadeStep
<1>5. ASSUME NEW k \in 0 .. N - 1, k \in T
      PROVE  k + 1 \in T
  <2>1. g[k + 1] = g[k] \cup Further(s, g[k])
    BY <1>1, <1>2, MadeStep
  <2>2. g[k] \subseteq G
    <3>1. k \in 0 .. N /\ N \in 0 .. N
      OBVIOUS
    <3> QED
      BY <1>1, <1>2, <1>3, <3>1, MadeGrows
  <2>3. ASSUME NEW x \in Further(s, g[k])
        PROVE  x \in Further(s, G)
    BY <2>2, FurtherKinds
  <2>4. k + 1 \in 0 .. N
    OBVIOUS
  <2> QED
    BY <1>5, <2>1, <2>3, <2>4
<1> HIDE DEF T
<1>6. \A k \in 0 .. N : k \in T
  BY <1>4, <1>5, Climb
<1>7. N \in T
  BY <1>6
<1> QED
  BY <1>1, <1>2, <1>3, <1>7 DEF T

\* Where h counts the brackets that are open, a primary has operators only inside its
\* brackets, and a product signs that add or subtract.
Rises(s, h, r) ==
  /\ r.level \in 0 .. 2 /\ r.from \in 1 .. Len(s) /\ r.to \in r.from .. Len(s)
  /\ h[r.to] = h[r.from - 1] /\ \A i \in r.from .. r.to : h[i] >= h[r.from - 1]
  /\ r.level = 0 => \A i \in r.from + 1 .. r.to : s[i].type \in Operators => h[i] > h[r.from - 1]
  /\ r.level = 1 =>
       \A i \in r.from + 1 .. r.to :
         s[i].type \in {"kadd", "minus"} /\ s[i - 1].type \in Operand => h[i] > h[r.from - 1]

\* h at one place and the next.
LEMMA HeightAt ==
  ASSUME NEW s, Len(s) \in Nat, NEW h, Nested(s, h, 1, Len(s)), NEW i \in 1 .. Len(s)
  PROVE  /\ h[i] \in Nat /\ h[i - 1] \in Nat /\ h[i] = h[i - 1] + Delta(s[i].type)
         /\ s[i].type \notin {"kleft", "kright"} => h[i] = h[i - 1]
<1>1. h \in [0 .. Len(s) -> Nat] /\ h[i] = h[i - 1] + Delta(s[i].type)
  BY DEF Nested
<1>2. i \in 0 .. Len(s) /\ i - 1 \in 0 .. Len(s)
  OBVIOUS
<1>3. h[i] \in Nat /\ h[i - 1] \in Nat
  BY <1>1, <1>2
<1>4. s[i].type \notin {"kleft", "kright"} => Delta(s[i].type) = 0
  BY DEF Delta
<1> QED
  BY <1>1, <1>3, <1>4

\* Simple readings.
LEMMA SimpleRises ==
  ASSUME NEW S, NEW s \in Seq(S), NEW v, NEW h, Nested(s, h, 1, Len(s)), NEW r \in Simple(s, v)
  PROVE  Rises(s, h, r)
<1>0. Len(s) \in Nat /\ DOMAIN s = 1 .. Len(s)
  OBVIOUS
<1>1. \/ \E n \in 1 .. Len(s) : /\ s[n].type \in {"kint8", "kname"}
                                /\ r.level = 0 /\ r.from = n /\ r.to = n
      \/ \E n \in 1 .. Len(s) : /\ s[n].type = "minus" /\ n + 1 \in 1 .. Len(s)
                                /\ s[n + 1].type = "kint8"
                                /\ r.level = 0 /\ r.from = n /\ r.to = n + 1
  BY <1>0 DEF Simple, Reading, Glued
<1>2. ASSUME NEW n \in 1 .. Len(s), s[n].type \in {"kint8", "kname"},
             r.level = 0, r.from = n, r.to = n
      PROVE  Rises(s, h, r)
  <2>1. h[n] = h[n - 1] /\ h[n] \in Nat
    BY <1>0, <1>2, HeightAt
  <2> QED
    BY <1>0, <1>2, <2>1 DEF Rises
<1>3. ASSUME NEW n \in 1 .. Len(s), s[n].type = "minus", n + 1 \in 1 .. Len(s),
             s[n + 1].type = "kint8", r.level = 0, r.from = n, r.to = n + 1
      PROVE  Rises(s, h, r)
  <2>1. h[n] = h[n - 1] /\ h[n] \in Nat
    BY <1>0, <1>3, HeightAt
  <2>2. h[n + 1] = h[(n + 1) - 1] /\ (n + 1) - 1 = n
    BY <1>0, <1>3, HeightAt
  <2>3. \A i \in n .. n + 1 : i = n \/ i = n + 1
    OBVIOUS
  <2>4. s[n + 1].type \notin Operators
    BY <1>3 DEF Operators, Binding
  <2>5. \A i \in n + 1 .. n + 1 : i = n + 1
    OBVIOUS
  <2> QED
    BY <1>0, <1>3, <2>1, <2>2, <2>3, <2>4, <2>5 DEF Rises
<1> QED
  BY <1>1, <1>2, <1>3

\* A bracket around a sum.
LEMMA BracketRises ==
  ASSUME NEW s, Len(s) \in Nat, NEW h, Nested(s, h, 1, Len(s)), NEW q, NEW r,
         Rises(s, h, r), BracketOf(s, q, r)
  PROVE  Rises(s, h, q)
<1>1. PICK a, b : a = r.from /\ b = r.to
  OBVIOUS
<1>2. /\ a \in 1 .. Len(s) /\ b \in a .. Len(s) /\ h[b] = h[a - 1]
      /\ \A i \in a .. b : h[i] >= h[a - 1]
  BY <1>1 DEF Rises
<1>3. /\ a > 1 /\ b < Len(s) /\ s[a - 1].type = "kleft" /\ s[b + 1].type = "kright"
      /\ q.level = 0 /\ q.from = a - 1 /\ q.to = b + 1
  BY <1>1 DEF BracketOf, Reading
<1>4. a - 1 \in 1 .. Len(s) /\ b + 1 \in 1 .. Len(s) /\ a \in Nat /\ b \in Nat
  BY <1>2, <1>3
<1>5. h[a - 1] = h[(a - 1) - 1] + 1 /\ h[a - 1] \in Nat /\ h[(a - 1) - 1] \in Nat
  BY <1>3, <1>4, HeightAt DEF Delta
<1>6. h[b + 1] = h[(b + 1) - 1] - 1 /\ (b + 1) - 1 = b
  BY <1>3, <1>4, HeightAt DEF Delta
<1>7. h[b + 1] = h[(a - 1) - 1]
  BY <1>2, <1>5, <1>6
<1>8. ASSUME NEW i \in a - 1 .. b + 1
      PROVE  h[i] >= h[(a - 1) - 1]
  <2>1. i = a - 1 \/ i = b + 1 \/ i \in a .. b
    BY <1>4
  <2>2. i \in a .. b => h[i] \in Nat /\ h[i] >= h[a - 1]
    BY <1>2, HeightAt
  <2> QED
    BY <1>5, <1>7, <2>1, <2>2
<1>9. ASSUME NEW i \in (a - 1) + 1 .. b + 1, s[i].type \in Operators
      PROVE  h[i] > h[(a - 1) - 1]
  <2>1. i = b + 1 \/ i \in a .. b
    BY <1>4
  <2>2. i # b + 1
    BY <1>3, <1>9 DEF Operators, Binding
  <2>3. i \in a .. b => h[i] \in Nat /\ h[i] >= h[a - 1]
    BY <1>2, HeightAt
  <2> QED
    BY <1>5, <2>1, <2>2, <2>3
<1>10. a - 1 \in 1 .. Len(s) /\ b + 1 \in a - 1 .. Len(s)
  BY <1>2, <1>3, <1>4
<1> QED
  BY <1>3, <1>7, <1>8, <1>9, <1>10 DEF Rises

\* Two parts and an operator.
LEMMA JoinRises ==
  ASSUME NEW s, Len(s) \in Nat, NEW h, Nested(s, h, 1, Len(s)), NEW q, NEW l, NEW r,
         Rises(s, h, l), Rises(s, h, r), JoinOf(s, q, l, r)
  PROVE  /\ Rises(s, h, q) /\ l.level \in 1 .. 2
         /\ h[l.to + 1] = h[l.from - 1] /\ h[r.from - 1] = h[l.from - 1]
<1>1. PICK a, b, c, d : a = l.from /\ b = l.to /\ c = r.from /\ d = r.to
  OBVIOUS
<1>2. /\ a \in 1 .. Len(s) /\ b \in a .. Len(s) /\ h[b] = h[a - 1]
      /\ \A i \in a .. b : h[i] >= h[a - 1]
  BY <1>1 DEF Rises
<1>3. /\ c \in 1 .. Len(s) /\ d \in c .. Len(s) /\ h[d] = h[c - 1]
      /\ \A i \in c .. d : h[i] >= h[c - 1]
  BY <1>1 DEF Rises
<1>4. /\ c = b + 2 /\ s[b + 1].type \in OperatorsOf(l.level)
      /\ q.level = l.level /\ q.from = a /\ q.to = d /\ l.level \in 1 .. 2 /\ r.level = l.level - 1
  BY <1>1 DEF JoinOf, Reading, Rises
<1>5. s[b + 1].type \notin {"kleft", "kright"} /\ s[b + 1].type \notin Operand
  BY <1>4 DEF OperatorsOf, Binding, Operand
<1>6. b + 1 \in 1 .. Len(s) /\ (b + 1) - 1 = b /\ c - 1 = b + 1
  BY <1>2, <1>3, <1>4
<1>7. h[b + 1] = h[b]
  BY <1>5, <1>6, HeightAt
<1>8. ASSUME NEW i \in a .. d
      PROVE  i \in a .. b \/ i = b + 1 \/ i \in c .. d
  BY <1>2, <1>3, <1>4
<1>9. ASSUME NEW i \in a .. d
      PROVE  h[i] >= h[a - 1]
  <2>1. h[a - 1] \in Nat
    BY <1>2, HeightAt
  <2> QED
    BY <1>2, <1>3, <1>6, <1>7, <1>8, <2>1
<1>10. ASSUME l.level = 1, NEW i \in a + 1 .. d, s[i].type \in {"kadd", "minus"},
              s[i - 1].type \in Operand
       PROVE  h[i] > h[a - 1]
  <2>1. i \in a .. d /\ i # a
    BY <1>2
  <2>2. CASE i \in a .. b
    <3>1. i \in a + 1 .. b
      BY <1>2, <2>1, <2>2
    <3> QED
      BY <1>1, <1>10, <3>1 DEF Rises
  <2>3. CASE i = b + 1
    BY <1>4, <1>10, <2>3 DEF OperatorsOf, Binding
  <2>4. CASE i \in c .. d
    <3>1. i # c
      BY <1>5, <1>6, <1>10
    <3>2. i \in c + 1 .. d
      BY <1>3, <2>4, <3>1
    <3>3. s[i].type \in Operators
      BY <1>10 DEF Operators
    <3>4. h[i] > h[c - 1]
      BY <1>1, <1>4, <1>10, <3>2, <3>3 DEF Rises
    <3> QED
      BY <1>2, <1>6, <1>7, <3>4
  <2> QED
    BY <1>8, <2>1, <2>2, <2>3, <2>4
<1>11. h[d] = h[a - 1] /\ d \in a .. Len(s)
  BY <1>2, <1>3, <1>4, <1>6, <1>7
<1>12. Rises(s, h, q)
  BY <1>2, <1>4, <1>9, <1>10, <1>11 DEF Rises
<1> QED
  BY <1>1, <1>2, <1>4, <1>6, <1>7, <1>12

\* All readings.
LEMMA ReadingsRise ==
  ASSUME NEW S, NEW s \in Seq(S), NEW v, NEW h, Nested(s, h, 1, Len(s)),
         NEW n \in 0 .. 3 * Len(s), NEW r \in Made(s, v)[n]
  PROVE  Rises(s, h, r)
<1>1. PICK g : g = Made(s, v)
  OBVIOUS
<1>2. PICK N \in Nat : N = 3 * Len(s) /\ Len(s) \in Nat
  OBVIOUS
<1> DEFINE T == {k \in 0 .. N : \A q \in g[k] : Rises(s, h, q)}
<1>3. 0 \in T
  BY <1>1, <1>2, MadeStep, SimpleRises
<1>4. ASSUME NEW k \in 0 .. N - 1, k \in T
      PROVE  k + 1 \in T
  <2>1. g[k + 1] = g[k] \cup Further(s, g[k])
    BY <1>1, <1>2, MadeStep
  <2>2. \A q \in g[k] : Rises(s, h, q)
    BY <1>4
  <2>3. ASSUME NEW q \in Further(s, g[k])
        PROVE  Rises(s, h, q)
    <3>1. ASSUME NEW x \in g[k], RaisedFrom(q, x)
          PROVE  Rises(s, h, q)
      <4>1. Rises(s, h, x)
        BY <2>2
      <4>2. x.level < 2 /\ q.level = x.level + 1 /\ q.from = x.from /\ q.to = x.to
        BY <3>1 DEF RaisedFrom, Reading
      <4>3. q.level \in 0 .. 2 /\ q.level # 0 /\ (q.level = 1 => x.level = 0)
        BY <4>1, <4>2 DEF Rises
      <4> QED
        BY <4>1, <4>2, <4>3 DEF Rises, Operators
    <3>2. ASSUME NEW x \in g[k], BracketOf(s, q, x)
          PROVE  Rises(s, h, q)
      <4>1. Rises(s, h, x)
        BY <2>2
      <4> QED
        BY <1>2, <3>2, <4>1, BracketRises
    <3>3. ASSUME NEW l \in g[k], NEW x \in g[k], JoinOf(s, q, l, x)
          PROVE  Rises(s, h, q)
      <4>1. Rises(s, h, l) /\ Rises(s, h, x)
        BY <2>2
      <4> QED
        BY <1>2, <3>3, <4>1, JoinRises
    <3> QED
      BY <2>3, <3>1, <3>2, <3>3, FurtherKinds
  <2>4. \A q \in g[k + 1] : Rises(s, h, q)
    BY <2>1, <2>2, <2>3
  <2>5. k + 1 \in 0 .. N
    OBVIOUS
  <2> QED
    BY <2>4, <2>5
<1> HIDE DEF T
<1>5. \A k \in 0 .. N : k \in T
  BY <1>3, <1>4, Climb
<1> QED
  BY <1>1, <1>2, <1>5 DEF T

\* No reading has in it an operator of the next level, with a number before it and
\* as many brackets open as at its beginning.
LEMMA NoSplit ==
  ASSUME NEW s, NEW h, NEW q, Rises(s, h, q), q.level \in 0 .. 1, NEW i \in q.from + 1 .. q.to,
         s[i].type \in OperatorsOf(q.level + 1), s[i - 1].type \in Operand,
         h[i] = h[q.from - 1], h[i] \in Nat
  PROVE  FALSE
<1>1. CASE q.level = 0
  <2>1. s[i].type \in Operators
    BY <1>1 DEF OperatorsOf, Operators, Binding
  <2>2. h[i] > h[q.from - 1]
    BY <1>1, <2>1 DEF Rises
  <2> QED
    BY <2>2
<1>2. CASE q.level = 1
  <2>1. s[i].type \in {"kadd", "minus"}
    BY <1>2 DEF OperatorsOf
  <2>2. h[i] > h[q.from - 1]
    BY <1>2, <2>1 DEF Rises
  <2> QED
    BY <2>2
<1> QED
  BY <1>1, <1>2

Extent(q, r) == q.level = r.level /\ q.from = r.from /\ q.to = r.to

\* What two parts make of a place and an operator is not also one part.
LEMMA JoinNoPart ==
  ASSUME NEW s, Len(s) \in Nat, NEW h, Nested(s, h, 1, Len(s)), NEW q, NEW l, NEW r, NEW x,
         Rises(s, h, l), Rises(s, h, r), JoinOf(s, q, l, r), Sound(s, l.from, l.to),
         Rises(s, h, x), x.level = l.level - 1, x.from = l.from, x.to = r.to
  PROVE  FALSE
<1>1. /\ l.level \in 1 .. 2 /\ h[l.to + 1] = h[l.from - 1]
  BY JoinRises
<1>2. /\ r.from = l.to + 2 /\ s[l.to + 1].type \in OperatorsOf(l.level)
  BY DEF JoinOf
<1>3. /\ l.from \in 1 .. Len(s) /\ l.to \in l.from .. Len(s)
      /\ r.from \in 1 .. Len(s) /\ r.to \in r.from .. Len(s)
  BY DEF Rises
<1>4. PICK i : i = l.to + 1
  OBVIOUS
<1>5. i \in x.from + 1 .. x.to /\ i - 1 = l.to /\ i \in 1 .. Len(s)
  BY <1>2, <1>3, <1>4
<1>6. h[i] \in Nat
  BY <1>5, HeightAt
<1>7. s[i - 1].type \in Operand
  BY <1>5 DEF Sound
<1>8. x.level \in 0 .. 1 /\ x.level + 1 = l.level
  BY <1>1
<1>9. s[i].type \in OperatorsOf(x.level + 1) /\ h[i] = h[x.from - 1]
  BY <1>1, <1>2, <1>4, <1>8
<1> QED
  BY <1>5, <1>6, <1>7, <1>8, <1>9, NoSplit

\* Two parts that make the same end at the same places.
LEMMA JoinsAlike ==
  ASSUME NEW s, Len(s) \in Nat, NEW h, Nested(s, h, 1, Len(s)), NEW q, NEW l, NEW r,
         NEW u, NEW m, NEW x,
         Rises(s, h, l), Rises(s, h, r), JoinOf(s, q, l, r), Sound(s, l.from, l.to),
         Rises(s, h, m), Rises(s, h, x), JoinOf(s, u, m, x), Sound(s, m.from, m.to),
         m.level = l.level, m.from = l.from, x.to = r.to
  PROVE  ~(l.to < m.to)
<1> SUFFICES ASSUME l.to < m.to PROVE FALSE
  OBVIOUS
<1>1. /\ l.level \in 1 .. 2 /\ h[r.from - 1] = h[l.from - 1]
  BY JoinRises
<1>2. h[m.to + 1] = h[m.from - 1]
  BY JoinRises
<1>3. /\ r.from = l.to + 2 /\ s[l.to + 1].type \in OperatorsOf(l.level)
      /\ r.level = l.level - 1
      /\ x.from = m.to + 2 /\ s[m.to + 1].type \in OperatorsOf(m.level)
  BY DEF JoinOf
<1>4. /\ l.from \in 1 .. Len(s) /\ l.to \in l.from .. Len(s)
      /\ r.from \in 1 .. Len(s) /\ r.to \in r.from .. Len(s)
      /\ m.from \in 1 .. Len(s) /\ m.to \in m.from .. Len(s)
      /\ x.from \in 1 .. Len(s) /\ x.to \in x.from .. Len(s)
  BY DEF Rises
<1>5. PICK i : i = m.to + 1
  OBVIOUS
<1>6. s[m.to].type \in Operand
  BY DEF Sound
<1>7. m.to # l.to + 1
  BY <1>3, <1>6 DEF OperatorsOf, Binding, Operand
<1>8. i \in r.from + 1 .. r.to /\ i - 1 = m.to /\ i \in 1 .. Len(s)
  <2>1. l.to \in Nat /\ m.to \in Nat
    BY <1>4
  <2>2. PICK b \in Nat, d \in Nat : b = l.to /\ d = m.to
    BY <2>1
  <2>3. b < d /\ d # b + 1 /\ r.from = b + 2 /\ x.from = d + 2 /\ i = d + 1
    BY <1>3, <1>5, <1>7, <2>2
  <2>4. d + 2 <= r.to /\ r.to \in Nat /\ r.to <= Len(s)
    BY <1>4, <2>3
  <2>5. d >= b + 2 /\ Len(s) \in Nat
    BY <2>2, <2>3
  <2>6. PICK N \in Nat, t \in Nat : N = Len(s) /\ t = r.to
    BY <2>4, <2>5
  <2>7. d + 2 <= t /\ t <= N
    BY <2>4, <2>6
  <2>8. d + 1 \in b + 3 .. t /\ d + 1 \in 1 .. N /\ (d + 1) - 1 = d /\ (b + 2) + 1 = b + 3
    BY <2>5, <2>7
  <2> QED
    BY <2>2, <2>3, <2>6, <2>8
<1>9. h[i] \in Nat
  BY <1>8, HeightAt
<1>10. r.level \in 0 .. 1 /\ r.level + 1 = l.level
  BY <1>1, <1>3
<1>11. s[i].type \in OperatorsOf(r.level + 1) /\ h[i] = h[r.from - 1] /\ s[i - 1].type \in Operand
  BY <1>1, <1>2, <1>3, <1>5, <1>6, <1>8, <1>10
<1> QED
  BY <1>8, <1>9, <1>10, <1>11, NoSplit

\* Two simple readings of the same place.
LEMMA SimpleAlike ==
  ASSUME NEW s, NEW v, NEW q \in Simple(s, v), NEW r \in Simple(s, v), Extent(q, r)
  PROVE  q.number = r.number
<1>1. ASSUME NEW x \in Simple(s, v)
      PROVE  /\ s[x.from].type \in {"kint8", "kname", "minus"} /\ x.level = 0
             /\ s[x.from].type = "kint8" => x.number = Int2Num(s[x.from].v)
             /\ s[x.from].type = "kname" => x.number = Int2Num(v[s[x.from].v])
             /\ s[x.from].type = "minus" => x.number = Int2Num(0 - s[x.from + 1].v)
  BY DEF Simple, Reading
<1> QED
  BY <1>1 DEF Extent

\* What is known of readings, and of those of them that come from few steps.
Settled(s, h, G) == \A x \in G : Rises(s, h, x) /\ Sound(s, x.from, x.to)
Numbered(R, G) == \A x \in R, y \in G : Extent(x, y) => x.number = y.number

\* A reading and one that comes from others.
LEMMA FurtherAlike ==
  ASSUME NEW S, NEW s \in Seq(S), NEW v, NEW h, Nested(s, h, 1, Len(s)), NEW R, NEW G,
         R \subseteq G, Settled(s, h, G), Numbered(R, G),
         NEW q \in Further(s, R), NEW r \in Simple(s, v) \cup Further(s, G), Extent(q, r)
  PROVE  q.number = r.number
<1>0. Len(s) \in Nat
  OBVIOUS
<1>a. \A x \in G : Rises(s, h, x) /\ Sound(s, x.from, x.to)
  BY DEF Settled
<1>b. \A x \in R, y \in G : Extent(x, y) => x.number = y.number
  BY DEF Numbered
<1>1. ASSUME NEW x \in Simple(s, v)
      PROVE  x.level = 0 /\ s[x.from].type # "kleft"
  BY DEF Simple, Reading
<1>2. ASSUME NEW x, NEW y \in G, RaisedFrom(x, y)
      PROVE  /\ x.level \in 1 .. 2 /\ y.level = x.level - 1 /\ y.from = x.from /\ y.to = x.to
             /\ x.number = y.number
  <2>1. /\ y.level < 2 /\ x.level = y.level + 1 /\ x.from = y.from /\ x.to = y.to
        /\ x.number = y.number
    BY <1>2 DEF RaisedFrom, Reading
  <2>2. y.level \in 0 .. 2
    BY <1>a DEF Rises
  <2> QED
    BY <2>1, <2>2
<1>3. ASSUME NEW x, NEW y \in G, BracketOf(s, x, y)
      PROVE  /\ x.level = 0 /\ x.from = y.from - 1 /\ x.to = y.to + 1 /\ y.level = 2
             /\ s[x.from].type = "kleft" /\ x.number = y.number
             /\ y.from \in Int /\ y.to \in Int
  <2>1. y.from \in 1 .. Len(s) /\ y.to \in y.from .. Len(s)
    BY <1>a DEF Rises
  <2> QED
    BY <1>0, <1>3, <2>1 DEF BracketOf, Reading
<1>4. ASSUME NEW x, NEW y \in G, NEW z \in G, JoinOf(s, x, y, z)
      PROVE  /\ x.level \in 1 .. 2 /\ y.level = x.level /\ y.from = x.from /\ z.to = x.to
             /\ z.level = y.level - 1 /\ z.from = y.to + 2 /\ y.to \in Int
             /\ x.number = Apply(s[y.to + 1].type, y.number, z.number)
  <2>1. x.level = y.level /\ y.from = x.from /\ z.to = x.to
        /\ z.level = y.level - 1 /\ z.from = y.to + 2
        /\ x.number = Apply(s[y.to + 1].type, y.number, z.number)
    BY <1>4 DEF JoinOf, Reading
  <2>2. Rises(s, h, y) /\ Rises(s, h, z)
    BY <1>a
  <2>3. y.level \in 1 .. 2
    BY <1>0, <1>4, <2>2, JoinRises
  <2>4. y.to \in Int
    <3>1. y.from \in 1 .. Len(s) /\ y.to \in y.from .. Len(s)
      BY <2>2 DEF Rises
    <3> QED
      BY <1>0, <3>1
  <2> QED
    BY <2>1, <2>3, <2>4
<1>5. ASSUME NEW x, NEW l \in G, NEW z \in G, JoinOf(s, x, l, z), NEW y, NEW w \in G,
             RaisedFrom(y, w), Extent(x, y)
      PROVE  FALSE
  <2>1. w.level = l.level - 1 /\ w.from = l.from /\ w.to = z.to
    BY <1>2, <1>4, <1>5 DEF Extent
  <2>2. Rises(s, h, l) /\ Rises(s, h, z) /\ Rises(s, h, w) /\ Sound(s, l.from, l.to)
    BY <1>a
  <2> QED
    BY <1>0, <1>5, <2>1, <2>2, JoinNoPart
<1>6. CASE \E x \in R : RaisedFrom(q, x)
  <2>1. PICK x \in R : RaisedFrom(q, x)
    BY <1>6
  <2>2. x \in G
    OBVIOUS
  <2>3. r.level \in 1 .. 2 /\ r \notin Simple(s, v)
    BY <1>1, <1>2, <2>1, <2>2 DEF Extent
  <2>4. ASSUME NEW y \in G, RaisedFrom(r, y)
        PROVE  q.number = r.number
    <3>1. Extent(x, y)
      BY <1>2, <2>1, <2>2, <2>4 DEF Extent
    <3> QED
      BY <1>b, <1>2, <2>1, <2>2, <2>4, <3>1
  <2>5. ASSUME NEW y \in G, NEW z \in G, JoinOf(s, r, y, z)
        PROVE  FALSE
    <3>1. Extent(r, q)
      BY DEF Extent
    <3> QED
      BY <1>5, <2>1, <2>2, <2>5, <3>1
  <2>6. ~ \E y \in G : BracketOf(s, r, y)
    BY <1>3, <2>3
  <2> QED
    BY <2>3, <2>4, <2>5, <2>6, FurtherKinds
<1>7. CASE \E x \in R : BracketOf(s, q, x)
  <2>1. PICK x \in R : BracketOf(s, q, x)
    BY <1>7
  <2>2. x \in G
    OBVIOUS
  <2>3. r.level = 0 /\ s[r.from].type = "kleft"
    BY <1>3, <2>1, <2>2 DEF Extent
  <2>4. PICK y \in G : BracketOf(s, r, y)
    BY <1>1, <1>2, <1>4, <2>3, FurtherKinds
  <2>5. Extent(x, y)
    BY <1>3, <2>1, <2>2, <2>4 DEF Extent
  <2> QED
    BY <1>b, <1>3, <2>1, <2>2, <2>4, <2>5
<1>8. CASE \E l \in R, x \in R : JoinOf(s, q, l, x)
  <2>1. PICK l \in R, x \in R : JoinOf(s, q, l, x)
    BY <1>8
  <2>2. l \in G /\ x \in G
    OBVIOUS
  <2>3. r.level \in 1 .. 2 /\ r \notin Simple(s, v)
    BY <1>1, <1>4, <2>1, <2>2 DEF Extent
  <2>4. ~ \E y \in G : BracketOf(s, r, y)
    BY <1>3, <2>3
  <2>5. ~ \E y \in G : RaisedFrom(r, y)
    BY <1>5, <2>1, <2>2
  <2>6. PICK m \in G, y \in G : JoinOf(s, r, m, y)
    BY <2>3, <2>4, <2>5, FurtherKinds
  <2>7. m.level = l.level /\ m.from = l.from /\ y.to = x.to
    BY <1>4, <2>1, <2>2, <2>6 DEF Extent
  <2>8. Rises(s, h, l) /\ Rises(s, h, x) /\ Sound(s, l.from, l.to)
    BY <1>a, <2>2
  <2>9. Rises(s, h, m) /\ Rises(s, h, y) /\ Sound(s, m.from, m.to)
    BY <1>a
  <2>10. ~(l.to < m.to)
    BY <1>0, <2>1, <2>6, <2>7, <2>8, <2>9, JoinsAlike
  <2>11. ~(m.to < l.to)
    BY <1>0, <2>1, <2>6, <2>7, <2>8, <2>9, JoinsAlike
  <2>12. l.to = m.to
    <3>1. l.to \in Int
      BY <1>4, <2>1, <2>2
    <3>2. m.to \in Int
      BY <1>4, <2>6
    <3> QED
      BY <2>10, <2>11, <3>1, <3>2
  <2>13. Extent(l, m) /\ Extent(x, y)
    BY <1>4, <2>1, <2>2, <2>6, <2>7, <2>12 DEF Extent
  <2>14. l.number = m.number /\ x.number = y.number
    BY <1>b, <2>13
  <2> QED
    BY <1>4, <2>1, <2>2, <2>6, <2>12, <2>14
<1> QED
  BY <1>6, <1>7, <1>8, FurtherKinds

\* So readings of the same places have the same number.
LEMMA OneNumber ==
  ASSUME NEW S, NEW s \in Seq(S), NEW v, NEW h, Nested(s, h, 1, Len(s)),
         NEW q \in Made(s, v)[3 * Len(s)], NEW r \in Made(s, v)[3 * Len(s)], Extent(q, r)
  PROVE  q.number = r.number
<1>1. PICK g : g = Made(s, v)
  OBVIOUS
<1>2. PICK N \in Nat : N = 3 * Len(s) /\ Len(s) \in Nat
  OBVIOUS
<1>3. PICK G : G = g[N]
  OBVIOUS
<1>4. \A x \in G : Rises(s, h, x) /\ Sound(s, x.from, x.to)
  <2>1. N \in 0 .. N
    OBVIOUS
  <2> QED
    BY <1>1, <1>2, <1>3, <2>1, ReadingsRise, ReadingsSound
<1>5. \A x \in G : x \in Simple(s, v) \cup Further(s, G)
  BY <1>1, <1>2, <1>3, Origins
<1> DEFINE T == {k \in 0 .. N : \A x \in g[k], y \in G : Extent(x, y) => x.number = y.number}
<1>6. 0 \in T
  <2>1. g[0] = Simple(s, v)
    BY <1>1, <1>2, MadeStep
  <2>2. ASSUME NEW x \in Simple(s, v), NEW y \in G, Extent(x, y)
        PROVE  x.number = y.number
    <3>1. x.level = 0 /\ s[x.from].type # "kleft"
      BY DEF Simple, Reading
    <3>2. y.level = 0 /\ s[y.from].type # "kleft"
      BY <2>2, <3>1 DEF Extent
    <3>3. ASSUME NEW z \in G, RaisedFrom(y, z)
          PROVE  FALSE
      <4>1. z.level \in 0 .. 2 /\ y.level = z.level + 1
        BY <1>4, <3>3 DEF Rises, RaisedFrom, Reading
      <4> QED
        BY <3>2, <4>1
    <3>4. ASSUME NEW z \in G, BracketOf(s, y, z)
          PROVE  FALSE
      BY <3>2, <3>4 DEF BracketOf, Reading
    <3>5. ASSUME NEW z \in G, NEW w \in G, JoinOf(s, y, z, w)
          PROVE  FALSE
      <4>1. Rises(s, h, z) /\ Rises(s, h, w)
        BY <1>4
      <4>2. z.level \in 1 .. 2
        BY <1>2, <3>5, <4>1, JoinRises
      <4>3. y.level = z.level
        BY <3>5 DEF JoinOf, Reading
      <4> QED
        BY <3>2, <4>2, <4>3
    <3>6. y \in Simple(s, v)
      BY <1>5, <3>3, <3>4, <3>5, FurtherKinds
    <3> QED
      BY <2>2, <3>6, SimpleAlike
  <2>3. 0 \in 0 .. N
    OBVIOUS
  <2> QED
    BY <2>1, <2>2, <2>3
<1>7. ASSUME NEW k \in 0 .. N - 1, k \in T
      PROVE  k + 1 \in T
  <2>1. g[k + 1] = g[k] \cup Further(s, g[k])
    BY <1>1, <1>2, MadeStep
  <2>2. g[k] \subseteq G
    <3>1. k \in 0 .. N /\ N \in 0 .. N
      OBVIOUS
    <3> QED
      BY <1>1, <1>2, <1>3, <3>1, MadeGrows
  <2>3. \A x \in g[k], y \in G : Extent(x, y) => x.number = y.number
    BY <1>7
  <2>4. PICK R : R = g[k]
    OBVIOUS
  <2>5. ASSUME NEW x \in Further(s, R), NEW y \in G, Extent(x, y)
        PROVE  x.number = y.number
    <3>1. y \in Simple(s, v) \cup Further(s, G)
      BY <1>5
    <3>2. R \subseteq G /\ Numbered(R, G) /\ Settled(s, h, G)
      BY <1>4, <2>2, <2>3, <2>4 DEF Numbered, Settled
    <3> HIDE DEF T
    <3> QED
      BY <2>5, <3>1, <3>2, FurtherAlike
  <2>6. \A x \in g[k + 1], y \in G : Extent(x, y) => x.number = y.number
    BY <2>1, <2>3, <2>4, <2>5
  <2>7. k + 1 \in 0 .. N
    OBVIOUS
  <2> QED
    BY <2>6, <2>7
<1> HIDE DEF T
<1>8. \A k \in 0 .. N : k \in T
  BY <1>6, <1>7, Climb
<1>9. N \in T
  BY <1>8
<1> QED
  BY <1>1, <1>2, <1>3, <1>9 DEF T

\* A text has one meaning at most.
LEMMA OneMeaning ==
  ASSUME NEW S, NEW s \in Seq(S), NEW v, NEW m \in Meanings(s, v), NEW n \in Meanings(s, v)
  PROVE  m = n
<1>1. PICK q \in Made(s, v)[3 * Len(s)] : Whole(s, q) /\ q.number = m
  BY MeaningsMade
<1>2. PICK r \in Made(s, v)[3 * Len(s)] : Whole(s, r) /\ r.number = n
  BY MeaningsMade
<1>3. Sound(s, 1, Len(s))
  BY MeaningfulSound
<1>4. PICK h : Nested(s, h, 1, Len(s))
  BY <1>3 DEF Sound
<1>5. Extent(q, r)
  BY <1>1, <1>2 DEF Whole, Extent
<1> QED
  BY <1>1, <1>2, <1>4, <1>5, OneNumber

-----------------------------------------------------------------------------

\* What the stack of check_logical holds.
Mark == {"left", "opt", "expr"}

-----------------------------------------------------------------------------
(* Folds, and the induction on which everything rests. *)

\* What the library calls a minimum of numbers is one.
LEMMA MinIsIn ==
  ASSUME NEW T \in SUBSET Nat, T # {}
  PROVE  Min(T) \in T /\ \A y \in T : Min(T) <= y
BY LeastNumber DEF Min

\* g is the recursion by which the library folds NodeChecked over s.
WalkedBy(s, g) ==
  g = [t \in SUBSET (DOMAIN s) |->
         IF t = {} THEN <<>> ELSE LET x == Max(t) IN NodeChecked(g[t \ {x}], s[x])]

\* The stack of check_logical behind the nodes s.
Walk(s) == FoldLeft(NodeChecked, <<>>, s)

\* Walk is the value of that recursion at the whole of s.
LEMMA WalkIsFold ==
  ASSUME NEW s
  PROVE  Walk(s) = (CHOOSE g : WalkedBy(s, g))[DOMAIN s]
BY DEF Walk, FoldLeft, MapThenFoldSet, WalkedBy

\* One step of the recursion.
LEMMA FoldAt ==
  ASSUME NEW s, NEW g, WalkedBy(s, g), NEW t \in SUBSET (DOMAIN s)
  PROVE  g[t] = IF t = {} THEN <<>> ELSE NodeChecked(g[t \ {Max(t)}], s[Max(t)])
<1>1. g = [u \in SUBSET (DOMAIN s) |->
         IF u = {} THEN <<>> ELSE LET x == Max(u) IN NodeChecked(g[u \ {x}], s[x])]
  BY DEF WalkedBy
<1> QED
  BY <1>1

\* Where two sequences agree their recursions do.
LEMMA FoldUnique ==
  ASSUME NEW S, NEW s \in Seq(S), NEW r \in Seq(S), Len(s) <= Len(r),
         \A i \in 1 .. Len(s) : r[i] = s[i],
         NEW g, NEW h, WalkedBy(s, g), WalkedBy(r, h)
  PROVE  \A t \in SUBSET (1 .. Len(s)) : g[t] = h[t]
<1> DEFINE Odd == {n \in Nat : n <= Len(s) /\ \E t \in SUBSET (1 .. n) : g[t] # h[t]}
<1>1. SUFFICES ASSUME Odd # {}
               PROVE  FALSE
  OBVIOUS
<1>2. PICK n \in Odd : \A m \in Odd : n <= m
  BY <1>1, LeastNumber
<1>3. PICK t \in SUBSET (1 .. n) : g[t] # h[t]
  BY <1>2
<1>4. t \in SUBSET (DOMAIN s) /\ t \in SUBSET (DOMAIN r)
  OBVIOUS
<1>5. t # {}
  BY <1>3, <1>4, FoldAt
<1> DEFINE m == Max(t)
<1>6. m \in t /\ \A y \in t : m >= y
  BY <1>2, <1>5, MaxIsIn
<1> HIDE DEF m
<1>7. m \in 1 .. n /\ t \ {m} \in SUBSET (1 .. m - 1)
  <2>1. \A y \in t : y \in 1 .. n
    BY <1>3
  <2>2. m \in 1 .. n /\ n \in Nat
    BY <1>6, <2>1
  <2>3. \A y \in t \ {m} : y \in 1 .. m - 1
    BY <1>6, <2>1, <2>2
  <2> QED
    BY <2>2, <2>3
<1>8. g[t \ {m}] = h[t \ {m}]
  <2>1. m - 1 \in Nat /\ m - 1 < n /\ n <= Len(s)
    BY <1>2, <1>7
  <2>2. m - 1 \notin Odd
    BY <1>2, <2>1
  <2> QED
    BY <1>7, <2>1, <2>2
<1>9. g[t] = NodeChecked(g[t \ {m}], s[m]) /\ h[t] = NodeChecked(h[t \ {m}], r[m])
  BY <1>4, <1>5, FoldAt DEF m
<1> QED
  BY <1>2, <1>3, <1>7, <1>8, <1>9

\* g folds the function step over s, on sets of its first n places.
Unfolds(g, n, T, base, step, s) ==
  /\ g \in [SUBSET (1 .. n) -> T]
  /\ \A t \in SUBSET (1 .. n) :
       g[t] = IF t = {} THEN base ELSE step[g[t \ {Max(t)}]][s[Max(t)]]

\* A fold over n places can be carried one place further.
LEMMA UnfoldsMore ==
  ASSUME NEW T, NEW X, NEW base \in T, NEW step \in [T -> [X -> T]], NEW s \in Seq(X),
         NEW n \in Nat, n + 1 <= Len(s), NEW g, Unfolds(g, n, T, base, step, s)
  PROVE  \E h : Unfolds(h, n + 1, T, base, step, s)
<1> DEFINE h == [t \in SUBSET (1 .. n + 1) |->
                   IF n + 1 \in t THEN step[g[t \ {n + 1}]][s[n + 1]] ELSE g[t]]
<1>1. s[n + 1] \in X
  OBVIOUS
<1>2. /\ g \in [SUBSET (1 .. n) -> T]
      /\ \A t \in SUBSET (1 .. n) :
           g[t] = IF t = {} THEN base ELSE step[g[t \ {Max(t)}]][s[Max(t)]]
  BY DEF Unfolds
<1>3. ASSUME NEW t \in SUBSET (1 .. n + 1)
      PROVE  h[t] \in T
             /\ h[t] = IF t = {} THEN base ELSE step[h[t \ {Max(t)}]][s[Max(t)]]
  <2>1. CASE n + 1 \in t
    <3>1. t \ {n + 1} \in SUBSET (1 .. n) /\ n + 1 \notin t \ {n + 1}
          /\ t \ {n + 1} \in SUBSET (1 .. n + 1)
      OBVIOUS
    <3>2. Max(t) = n + 1
      <4>1. n + 1 \in Nat /\ t # {}
        BY <2>1
      <4>2. Max(t) \in t /\ Max(t) >= n + 1
        BY <2>1, <4>1, MaxIsIn
      <4>3. Max(t) \in 1 .. n + 1
        BY <4>2
      <4> QED
        BY <4>2, <4>3
    <3>3. h[t] = step[g[t \ {n + 1}]][s[n + 1]] /\ h[t \ {n + 1}] = g[t \ {n + 1}]
      BY <2>1, <3>1
    <3>4. g[t \ {n + 1}] \in T
      BY <1>2, <3>1
    <3>5. step[g[t \ {n + 1}]][s[n + 1]] \in T
      BY <1>1, <3>4
    <3> HIDE DEF h
    <3> QED
      BY <2>1, <3>2, <3>3, <3>5
  <2>2. CASE n + 1 \notin t
    <3>1. t \in SUBSET (1 .. n)
      <4>1. \A i \in t : i \in 1 .. n
        BY <2>2
      <4> QED
        BY <4>1
    <3>2. t \ {Max(t)} \in SUBSET (1 .. n)
      BY <3>1
    <3>3. h[t] = g[t] /\ h[t \ {Max(t)}] = g[t \ {Max(t)}]
      BY <2>2
    <3>4. g[t] = IF t = {} THEN base ELSE step[g[t \ {Max(t)}]][s[Max(t)]]
      BY <1>2, <3>1
    <3> HIDE DEF h
    <3> QED
      BY <1>2, <3>1, <3>3, <3>4
  <2> QED
    BY <2>1, <2>2
<1>4. h \in [SUBSET (1 .. n + 1) -> T]
  BY <1>3
<1> HIDE DEF h
<1>5. Unfolds(h, n + 1, T, base, step, s)
  BY <1>3, <1>4 DEF Unfolds
<1> QED
  BY <1>5

\* A function can be folded over any sequence.
LEMMA FoldOfFunction ==
  ASSUME NEW T, NEW X, NEW base \in T, NEW step \in [T -> [X -> T]], NEW s \in Seq(X)
  PROVE  \E g : Unfolds(g, Len(s), T, base, step, s)
<1> DEFINE None == {n \in Nat : n <= Len(s) /\ ~ \E g : Unfolds(g, n, T, base, step, s)}
<1>1. ASSUME None # {}
      PROVE  FALSE
  <2>1. PICK m \in None : \A k \in None : m <= k
    BY <1>1, LeastNumber
  <2>2. CASE m = 0
    <3> DEFINE e == [t \in SUBSET (1 .. 0) |-> base]
    <3>1. 1 .. 0 = {}
      OBVIOUS
    <3>2. Unfolds(e, 0, T, base, step, s)
      BY <3>1 DEF Unfolds
    <3> QED
      BY <2>1, <2>2, <3>2
  <2>3. CASE m # 0
    <3>1. PICK n : n = m - 1
      OBVIOUS
    <3>2. n \in Nat /\ m = n + 1 /\ n + 1 <= Len(s) /\ n <= Len(s) /\ ~(m <= n)
      BY <2>1, <2>3, <3>1
    <3>3. \E g : Unfolds(g, n, T, base, step, s)
      BY <2>1, <3>2
    <3>4. \E h : Unfolds(h, n + 1, T, base, step, s)
      BY <3>2, <3>3, UnfoldsMore
    <3> QED
      BY <2>1, <3>2, <3>4
  <2> QED
    BY <2>2, <2>3
<1>2. Len(s) \in Nat /\ Len(s) <= Len(s)
  OBVIOUS
<1> QED
  BY <1>1, <1>2

\* A node checked leaves a sequence of marks.
LEMMA NodeCheckedMarks ==
  ASSUME NEW s \in Seq(Mark), NEW x
  PROVE  NodeChecked(s, x) \in Seq(Mark)
<1>1. \A u \in Seq(Mark) : Popped(u, 2) \in Seq(Mark)
  BY DEF Popped
<1>2. \A u \in Seq(Mark) : PushExpr(u) \in Seq(Mark)
  BY <1>1 DEF PushExpr, Mark
<1>3. Merged(s) \in Seq(Mark)
  BY <1>1 DEF Merged
<1>4. Append(s, "left") \in Seq(Mark) /\ Append(s, "opt") \in Seq(Mark)
  BY DEF Mark
<1> QED
  BY <1>1, <1>2, <1>3, <1>4 DEF NodeChecked

\* So there is a recursion by which NodeChecked is folded over s.
LEMMA FoldExists ==
  ASSUME NEW S, NEW s \in Seq(S)
  PROVE  \E g : WalkedBy(s, g)
<1> DEFINE step == [u \in Seq(Mark) |-> [x \in S |-> NodeChecked(u, x)]]
<1>1. step \in [Seq(Mark) -> [S -> Seq(Mark)]] /\ <<>> \in Seq(Mark)
  BY NodeCheckedMarks
<1> HIDE DEF step
<1>2. PICK g : Unfolds(g, Len(s), Seq(Mark), <<>>, step, s)
  BY <1>1, FoldOfFunction
<1>0. DOMAIN s = 1 .. Len(s) /\ Len(s) \in Nat
  OBVIOUS
<1>3. ASSUME NEW t \in SUBSET (DOMAIN s)
      PROVE  g[t] = IF t = {} THEN <<>> ELSE NodeChecked(g[t \ {Max(t)}], s[Max(t)])
  <2>1. CASE t = {}
    BY <1>0, <1>2, <2>1 DEF Unfolds
  <2>2. CASE t # {}
    <3>1. Max(t) \in DOMAIN s /\ s[Max(t)] \in S
      <4>1. Max(t) \in t
        BY <1>0, <2>2, MaxIsIn
      <4> QED
        BY <4>1
    <3>2. g[t \ {Max(t)}] \in Seq(Mark)
      BY <1>0, <1>2 DEF Unfolds
    <3>3. g[t] = step[g[t \ {Max(t)}]][s[Max(t)]]
      BY <1>0, <1>2, <2>2 DEF Unfolds
    <3> QED
      BY <2>2, <3>1, <3>2, <3>3 DEF step
  <2> QED
    BY <2>1, <2>2
<1>4. g = [t \in SUBSET (DOMAIN s) |->
             IF t = {} THEN <<>> ELSE LET x == Max(t) IN NodeChecked(g[t \ {x}], s[x])]
  <2>1. g = [t \in SUBSET (DOMAIN s) |-> g[t]]
    BY <1>0, <1>2 DEF Unfolds
  <2> QED
    BY <1>3, <2>1
<1> QED
  BY <1>4 DEF WalkedBy

\* check_logical begins with an empty stack.
LEMMA WalkOfNothing ==
  Walk(<<>>) = <<>>
<1> DEFINE g == CHOOSE f : WalkedBy(<<>>, f)
<1>0. <<>> \in Seq(Nat) /\ DOMAIN <<>> = {}
  OBVIOUS
<1>1. WalkedBy(<<>>, g)
  BY <1>0, FoldExists
<1> HIDE DEF g
<1>2. g[{}] = <<>>
  BY <1>1, FoldAt
<1> QED
  BY <1>0, <1>2, WalkIsFold DEF g

\* ... and goes on from the stack behind the nodes before.
LEMMA WalkStep ==
  ASSUME NEW S, NEW s \in Seq(S), NEW x \in S
  PROVE  Walk(Append(s, x)) = NodeChecked(Walk(s), x)
<1> DEFINE r == Append(s, x)
           n == Len(s)
<1>1. r \in Seq(S) /\ Len(r) = n + 1 /\ DOMAIN r = 1 .. n + 1 /\ DOMAIN s = 1 .. n /\ n \in Nat
      /\ r[n + 1] = x /\ \A i \in 1 .. n : r[i] = s[i]
  OBVIOUS
<1>2. PICK g : WalkedBy(s, g) /\ Walk(s) = g[1 .. n]
  BY <1>1, FoldExists, WalkIsFold
<1> HIDE DEF r
<1>3. PICK h : WalkedBy(r, h) /\ Walk(r) = h[1 .. n + 1]
  BY <1>1, FoldExists, WalkIsFold
<1>4. Max(1 .. n + 1) = n + 1
  <2>1. Max(1 .. n + 1) \in 1 .. n + 1 /\ Max(1 .. n + 1) >= n + 1
    <3>1. n + 1 \in Nat /\ (1 .. n + 1) \in SUBSET (1 .. n + 1) /\ n + 1 \in 1 .. n + 1
      BY <1>1
    <3>2. (1 .. n + 1) # {}
      BY <3>1
    <3> QED
      BY <3>1, <3>2, MaxIsIn
  <2> QED
    BY <2>1, <1>1
<1>5. (1 .. n + 1) # {} /\ (1 .. n + 1) \ {n + 1} = 1 .. n
  BY <1>1
<1>6. h[1 .. n + 1] = NodeChecked(h[1 .. n], x)
  <2>1. PICK t : t = 1 .. n + 1
    OBVIOUS
  <2>2. t \in SUBSET (DOMAIN r) /\ t # {}
    BY <1>1, <1>5, <2>1
  <2>3. h[t] = NodeChecked(h[t \ {Max(t)}], r[Max(t)])
    BY <1>3, <2>2, FoldAt
  <2> QED
    BY <1>1, <1>4, <1>5, <2>1, <2>3
<1>7. h[1 .. n] = g[1 .. n]
  BY <1>1, <1>2, <1>3, FoldUnique
<1> QED
  BY <1>2, <1>3, <1>6, <1>7 DEF r

-----------------------------------------------------------------------------
(* The shape of the stack of check_logical. *)

\* An operator on the stack has an expression before it and, unless it is the last,
\* a bracket behind it; so it waits for what is above it.
Formed(s) ==
  \A i \in 1 .. Len(s) :
    s[i] = "opt" => i > 1 /\ s[i - 1] = "expr" /\ (i < Len(s) => s[i + 1] = "left")

\* No expression but the last has anything but an operator behind it.
Tight(s) == \A i \in 1 .. Len(s) - 1 : s[i] = "expr" => s[i + 1] = "opt"

\* The brackets that are open.
Lefts(s) == Cardinality({i \in DOMAIN s : s[i] = "left"})

\* A set of numbers up to n has one element more with n + 1.
LEMMA PlusOne ==
  ASSUME NEW n \in Nat, NEW I \in SUBSET (1 .. n)
  PROVE  /\ IsFiniteSet(I) /\ Cardinality(I) \in Nat
         /\ IsFiniteSet(I \cup {n + 1}) /\ Cardinality(I \cup {n + 1}) = Cardinality(I) + 1
<1>1. IsFiniteSet(1 .. n)
  BY FS_Interval
<1>2. IsFiniteSet(I)
  BY <1>1, FS_Subset
<1>3. n + 1 \notin I
  OBVIOUS
<1> QED
  BY <1>2, <1>3, FS_AddElement, FS_CardinalityType

\* What appending a mark does to the open brackets.
LEMMA LeftsAppend ==
  ASSUME NEW s \in Seq(Mark), NEW x \in Mark
  PROVE  /\ Lefts(s) \in Nat
         /\ Lefts(Append(s, x)) = Lefts(s) + (IF x = "left" THEN 1 ELSE 0)
<1> DEFINE n == Len(s)
           r == Append(s, x)
           I == {i \in 1 .. n : s[i] = "left"}
<1>1. n \in Nat /\ DOMAIN s = 1 .. n /\ DOMAIN r = 1 .. n + 1 /\ r[n + 1] = x
      /\ \A i \in 1 .. n : r[i] = s[i]
  OBVIOUS
<1>2. {i \in DOMAIN r : r[i] = "left"} = IF x = "left" THEN I \cup {n + 1} ELSE I
  BY <1>1
<1>3. Cardinality(I) \in Nat /\ Cardinality(I \cup {n + 1}) = Cardinality(I) + 1
  BY <1>1, PlusOne
<1>4. Lefts(s) = Cardinality(I)
  BY <1>1 DEF Lefts
<1>5. Lefts(r) = Cardinality(IF x = "left" THEN I \cup {n + 1} ELSE I)
  BY <1>2 DEF Lefts
<1> QED
  BY <1>3, <1>4, <1>5

\* What appending a node does to the count of a type.
LEMMA CountAppend ==
  ASSUME NEW S, NEW s \in Seq(S), NEW x \in S, NEW t
  PROVE  /\ Count(s, t) \in Nat
         /\ Count(Append(s, x), t) = Count(s, t) + (IF x.type = t THEN 1 ELSE 0)
<1> DEFINE n == Len(s)
           r == Append(s, x)
           I == {i \in 1 .. n : s[i].type = t}
<1>1. n \in Nat /\ DOMAIN s = 1 .. n /\ DOMAIN r = 1 .. n + 1 /\ r[n + 1] = x
      /\ \A i \in 1 .. n : r[i] = s[i]
  OBVIOUS
<1>2. {i \in DOMAIN r : r[i].type = t} = IF x.type = t THEN I \cup {n + 1} ELSE I
  BY <1>1
<1>3. Cardinality(I) \in Nat /\ Cardinality(I \cup {n + 1}) = Cardinality(I) + 1
  BY <1>1, PlusOne
<1>4. Count(s, t) = Cardinality(I)
  BY <1>1 DEF Count
<1>5. Count(r, t) = Cardinality(IF x.type = t THEN I \cup {n + 1} ELSE I)
  BY <1>2 DEF Count
<1> QED
  BY <1>3, <1>4, <1>5

\* A stack without its last mark.
LEMMA PopOne ==
  ASSUME NEW s \in Seq(Mark), s # <<>>
  PROVE  LET u == SubSeq(s, 1, Len(s) - 1) IN
         /\ u \in Seq(Mark) /\ Len(u) = Len(s) - 1 /\ s = Append(u, s[Len(s)])
         /\ \A i \in 1 .. Len(s) - 1 : u[i] = s[i]
         /\ Lefts(u) \in Nat
         /\ Lefts(s) = Lefts(u) + (IF s[Len(s)] = "left" THEN 1 ELSE 0)
<1> DEFINE u == SubSeq(s, 1, Len(s) - 1)
<1>0. Len(s) \in Nat /\ Len(s) >= 1
  OBVIOUS
<1>1. u \in Seq(Mark) /\ Len(u) = Len(s) - 1
  BY <1>0
<1>2. \A i \in 1 .. Len(s) - 1 : u[i] = s[i]
  BY <1>0
<1>3. s = Append(u, s[Len(s)])
  BY <1>0, <1>1, <1>2
<1>4. s[Len(s)] \in Mark
  BY <1>0
<1> HIDE DEF u
<1>5. /\ Lefts(u) \in Nat
      /\ Lefts(Append(u, s[Len(s)])) = Lefts(u) + (IF s[Len(s)] = "left" THEN 1 ELSE 0)
  BY <1>1, <1>4, LeftsAppend
<1> QED
  BY <1>1, <1>2, <1>3, <1>5 DEF u

\* A stack without its last two, which is what Popped and Top look at.
LEMMA PopTwo ==
  ASSUME NEW s \in Seq(Mark), Len(s) >= 2
  PROVE  /\ Popped(s, 2) \in Seq(Mark) /\ Len(Popped(s, 2)) = Len(s) - 2
         /\ \A i \in 1 .. Len(s) - 2 : Popped(s, 2)[i] = s[i]
         /\ Lefts(Popped(s, 2)) \in Nat
         /\ Lefts(s) = Lefts(Popped(s, 2)) + (IF s[Len(s) - 1] = "left" THEN 1 ELSE 0)
                                           + (IF s[Len(s)] = "left" THEN 1 ELSE 0)
         /\ Top(s, 2) = <<s[Len(s) - 1], s[Len(s)]>>
<1> DEFINE u == SubSeq(s, 1, Len(s) - 1)
           v == SubSeq(u, 1, Len(u) - 1)
<1>0. Len(s) \in Nat /\ s # <<>>
  OBVIOUS
<1>1. /\ u \in Seq(Mark) /\ Len(u) = Len(s) - 1
      /\ \A i \in 1 .. Len(s) - 1 : u[i] = s[i]
      /\ Lefts(s) = Lefts(u) + (IF s[Len(s)] = "left" THEN 1 ELSE 0)
  BY <1>0, PopOne
<1> HIDE DEF u
<1>2. Len(u) \in Nat /\ Len(u) >= 1 /\ u # <<>>
  BY <1>0, <1>1
<1>3. /\ v \in Seq(Mark) /\ Len(v) = Len(u) - 1
      /\ \A i \in 1 .. Len(u) - 1 : v[i] = u[i]
      /\ Lefts(v) \in Nat
      /\ Lefts(u) = Lefts(v) + (IF u[Len(u)] = "left" THEN 1 ELSE 0)
  BY <1>1, <1>2, PopOne
<1>4. Popped(s, 2) = v
  BY <1>0, <1>1 DEF Popped, u
<1>5. Top(s, 2) = <<s[Len(s) - 1], s[Len(s)]>>
  <2>1. Len(s) - 2 + 1 = Len(s) - 1
    BY <1>0
  <2> DEFINE w == SubSeq(s, Len(s) - 1, Len(s))
  <2>2. w \in Seq(Mark) /\ Len(w) = 2 /\ w[1] = s[Len(s) - 1] /\ w[2] = s[Len(s)]
    BY <1>0
  <2>3. Top(s, 2) = w
    BY <2>1 DEF Top
  <2> HIDE DEF w
  <2>4. w = <<w[1], w[2]>>
    BY <2>2
  <2> QED
    BY <2>2, <2>3, <2>4
<1> HIDE DEF v
<1>6. u[Len(u)] = s[Len(s) - 1] /\ \A i \in 1 .. Len(s) - 2 : i \in 1 .. Len(s) - 1
  BY <1>0, <1>1, <1>2
<1> QED
  BY <1>0, <1>1, <1>3, <1>4, <1>5, <1>6

\* Merged takes away an operator with the expression before it, or nothing, and
\* leaves no operator at the top.
LEMMA MergedShape ==
  ASSUME NEW s \in Seq(Mark), Formed(s)
  PROVE  LET m == Merged(s) IN
         /\ m \in Seq(Mark) /\ Len(m) <= Len(s) /\ \A i \in 1 .. Len(m) : m[i] = s[i]
         /\ Len(m) # 0 => m[Len(m)] # "opt"
         /\ Lefts(m) = Lefts(s) /\ Lefts(m) \in Nat
         /\ \/ m = s
            \/ /\ Len(s) >= 2 /\ Len(m) = Len(s) - 2
               /\ s[Len(s) - 1] = "expr" /\ s[Len(s)] = "opt"
<1> DEFINE m == Merged(s)
<1>0. Len(s) \in Nat
  OBVIOUS
<1>1. CASE IsTop(s, "opt")
  <2>1. s # <<>> /\ s[Len(s)] = "opt"
    BY <1>1 DEF IsTop, Last
  <2>2. Len(s) >= 2 /\ s[Len(s) - 1] = "expr"
    BY <1>0, <2>1 DEF Formed
  <2>3. m = Popped(s, 2)
    BY <1>1 DEF Merged
  <2>4. /\ m \in Seq(Mark) /\ Len(m) = Len(s) - 2
        /\ \A i \in 1 .. Len(s) - 2 : m[i] = s[i]
        /\ Lefts(m) \in Nat
        /\ Lefts(s) = Lefts(m)
    BY <2>1, <2>2, <2>3, PopTwo
  <2> HIDE DEF m
  <2>5. ASSUME Len(m) # 0, m[Len(m)] = "opt"
        PROVE  FALSE
    <3>1. Len(s) - 2 \in 1 .. Len(s) /\ s[Len(s) - 2] = "opt"
      BY <1>0, <2>4, <2>5
    <3>2. s[Len(s) - 2 + 1] = "left"
      BY <1>0, <3>1 DEF Formed
    <3> QED
      BY <1>0, <2>2, <3>2
  <2> QED
    BY <1>0, <2>1, <2>2, <2>4, <2>5 DEF m
<1>2. CASE ~IsTop(s, "opt")
  <2>1. m = s
    BY <1>2 DEF Merged
  <2>2. Len(s) # 0 => s[Len(s)] # "opt"
    BY <1>2 DEF IsTop, Last
  <2>3. Lefts(s) \in Nat
    BY LeftsAppend, "left" \in Mark DEF Mark
  <2> QED
    BY <1>0, <2>1, <2>2, <2>3
<1> QED
  BY <1>1, <1>2

\* push_expr is Merged and an expression, whether Merged was done before or not.
LEMMA PushExprShape ==
  ASSUME NEW s \in Seq(Mark), Formed(s)
  PROVE  /\ PushExpr(s) = Append(Merged(s), "expr")
         /\ PushExpr(Merged(s)) = Append(Merged(s), "expr")
<1> DEFINE m == Merged(s)
<1>0. Len(s) \in Nat
  OBVIOUS
<1>1. m \in Seq(Mark) /\ Len(m) \in Nat /\ (Len(m) # 0 => m[Len(m)] # "opt")
  BY MergedShape
<1>2. PushExpr(s) = Append(m, "expr")
  <2>1. CASE IsTop(s, "opt")
    <3>1. s # <<>> /\ s[Len(s)] = "opt"
      BY <2>1 DEF IsTop, Last
    <3>2. Len(s) > 1 /\ s[Len(s) - 1] = "expr"
      BY <1>0, <3>1 DEF Formed
    <3>3. Top(s, 2) = <<"expr", "opt">>
      BY <3>1, <3>2, <1>0, PopTwo
    <3> QED
      BY <2>1, <3>2, <3>3 DEF PushExpr, Merged
  <2>2. CASE ~IsTop(s, "opt")
    <3>1. ASSUME Len(s) > 1, Top(s, 2) = <<"expr", "opt">>
          PROVE  FALSE
      <4>1. Top(s, 2) = <<s[Len(s) - 1], s[Len(s)]>>
        BY <1>0, <3>1, PopTwo
      <4> QED
        BY <1>0, <2>2, <3>1, <4>1 DEF IsTop, Last
    <3> QED
      BY <2>2, <3>1 DEF PushExpr, Merged
  <2> QED
    BY <2>1, <2>2
<1>3. PushExpr(m) = Append(m, "expr")
  <2> HIDE DEF m
  <2>1. ASSUME Len(m) > 1, Top(m, 2) = <<"expr", "opt">>
        PROVE  FALSE
    <3>1. Top(m, 2) = <<m[Len(m) - 1], m[Len(m)]>>
      BY <1>1, <2>1, PopTwo
    <3> QED
      BY <1>1, <2>1, <3>1
  <2> QED
    BY <2>1 DEF PushExpr
<1> QED
  BY <1>2, <1>3

\* An expression pushed keeps the stack formed and no bracket more or less.
LEMMA PushedFormed ==
  ASSUME NEW s \in Seq(Mark), Formed(s)
  PROVE  LET r == Append(Merged(s), "expr") IN
         r \in Seq(Mark) /\ Formed(r) /\ Lefts(r) = Lefts(s) /\ Lefts(s) \in Nat
<1>1. PICK m : m = Merged(s)
  OBVIOUS
<1>2. /\ m \in Seq(Mark) /\ Len(m) \in Nat /\ Len(s) \in Nat /\ Len(m) <= Len(s)
      /\ \A i \in 1 .. Len(m) : m[i] = s[i]
      /\ Len(m) # 0 => m[Len(m)] # "opt"
      /\ Lefts(m) = Lefts(s) /\ Lefts(m) \in Nat
  BY <1>1, MergedShape
<1>3. PICK r : r = Append(m, "expr")
  OBVIOUS
<1>4. /\ r \in Seq(Mark) /\ Len(r) = Len(m) + 1 /\ r[Len(m) + 1] = "expr"
      /\ \A i \in 1 .. Len(m) : r[i] = m[i]
  BY <1>2, <1>3 DEF Mark
<1>5. Formed(r)
  <2> SUFFICES ASSUME NEW i \in 1 .. Len(r), r[i] = "opt"
               PROVE  i > 1 /\ r[i - 1] = "expr" /\ (i < Len(r) => r[i + 1] = "left")
    BY DEF Formed
  <2>1. i \in 1 .. Len(m) /\ i # Len(m)
    BY <1>2, <1>4
  <2>2. i \in 1 .. Len(s) /\ s[i] = "opt" /\ i < Len(s)
    BY <1>2, <1>4, <2>1
  <2>3. i > 1 /\ s[i - 1] = "expr" /\ s[i + 1] = "left"
    BY <2>2 DEF Formed
  <2>4. i - 1 \in 1 .. Len(m) /\ i + 1 \in 1 .. Len(m)
    BY <1>2, <2>1, <2>3
  <2> QED
    BY <1>2, <1>4, <2>3, <2>4
<1>6. Lefts(r) = Lefts(m)
  <2>1. "expr" \in Mark
    BY DEF Mark
  <2> QED
    BY <1>2, <1>3, <2>1, LeftsAppend
<1> QED
  BY <1>1, <1>2, <1>3, <1>4, <1>5, <1>6

\* A formed stack is formed at each height.
LEMMA PrefixFormed ==
  ASSUME NEW s \in Seq(Mark), Formed(s), NEW u \in Seq(Mark), Len(u) <= Len(s),
         \A i \in 1 .. Len(u) : u[i] = s[i]
  PROVE  Formed(u)
<1>0. Len(s) \in Nat /\ Len(u) \in Nat
  OBVIOUS
<1> SUFFICES ASSUME NEW i \in 1 .. Len(u), u[i] = "opt"
             PROVE  i > 1 /\ u[i - 1] = "expr" /\ (i < Len(u) => u[i + 1] = "left")
  BY DEF Formed
<1>1. i \in 1 .. Len(s) /\ s[i] = "opt"
  BY <1>0
<1>2. i > 1 /\ s[i - 1] = "expr" /\ (i < Len(s) => s[i + 1] = "left")
  BY <1>1 DEF Formed
<1>3. i - 1 \in 1 .. Len(u)
  BY <1>0, <1>2
<1> QED
  BY <1>0, <1>2, <1>3

\* What a node that fits finds on the stack and what is done with it.
LEMMA FitsCases ==
  ASSUME NEW s \in Seq(Mark), NEW x, NodeFits(s, x)
  PROVE  \/ x.type = "kleft" /\ NodeChecked(s, x) = Append(s, "left")
         \/ /\ x.type = "kright" /\ Len(s) >= 2
            /\ s[Len(s) - 1] = "left" /\ s[Len(s)] = "expr"
            /\ NodeChecked(s, x) = PushExpr(Popped(s, 2))
         \/ /\ x.type \in Joins /\ s # <<>> /\ s[Len(s)] = "expr"
            /\ NodeChecked(s, x) = Append(s, "opt")
         \/ IsComparison(x) /\ NodeChecked(s, x) = PushExpr(Merged(s))
<1>1. CASE x.type = "kleft"
  <2>1. NodeChecked(s, x) = Append(s, "left")
    BY <1>1 DEF NodeChecked, Joins
  <2> QED
    BY <1>1, <2>1
<1>2. CASE x.type = "kright" /\ Len(s) >= 2 /\ Top(s, 2) = <<"left", "expr">>
  <2>1. Top(s, 2) = <<s[Len(s) - 1], s[Len(s)]>>
    BY <1>2, PopTwo
  <2>2. NodeChecked(s, x) = PushExpr(Popped(s, 2))
    BY <1>2 DEF NodeChecked, Joins
  <2> QED
    BY <1>2, <2>1, <2>2
<1>3. CASE x.type \in Joins /\ IsTop(s, "expr")
  BY <1>3 DEF NodeChecked, Joins, IsTop, Last
<1>4. CASE IsComparison(x)
  BY <1>4 DEF NodeChecked, Joins, IsComparison, CompareTypes, LikeTypes
<1> QED
  BY <1>1, <1>2, <1>3, <1>4 DEF NodeFits

\* Every node that fits keeps the stack formed, and a bracket is on it from the
\* node that opens it to the one that closes it.
LEMMA StepShape ==
  ASSUME NEW s \in Seq(Mark), Formed(s), NEW x, NodeFits(s, x)
  PROVE  LET r == NodeChecked(s, x) IN
         /\ r \in Seq(Mark) /\ Formed(r)
         /\ Lefts(s) \in Nat /\ Lefts(r) \in Nat
         /\ Lefts(r) = Lefts(s) + (IF x.type = "kleft" THEN 1 ELSE 0)
                                - (IF x.type = "kright" THEN 1 ELSE 0)
<1>0. Len(s) \in Nat /\ "left" \in Mark /\ "opt" \in Mark
  BY DEF Mark
<1>1. CASE x.type = "kleft" /\ NodeChecked(s, x) = Append(s, "left")
  <2>1. PICK r : r = Append(s, "left")
    OBVIOUS
  <2>2. /\ r \in Seq(Mark) /\ Len(r) = Len(s) + 1 /\ r[Len(s) + 1] = "left"
        /\ \A i \in 1 .. Len(s) : r[i] = s[i]
    BY <1>0, <2>1
  <2>3. ASSUME NEW i \in 1 .. Len(r), r[i] = "opt"
        PROVE  i > 1 /\ r[i - 1] = "expr" /\ (i < Len(r) => r[i + 1] = "left")
    <3>1. i \in 1 .. Len(s) /\ s[i] = "opt"
      BY <1>0, <2>2, <2>3
    <3>2. i > 1 /\ s[i - 1] = "expr" /\ (i < Len(s) => s[i + 1] = "left")
      BY <3>1 DEF Formed
    <3>3. i - 1 \in 1 .. Len(s)
      BY <1>0, <3>1, <3>2
    <3> QED
      BY <1>0, <2>2, <3>1, <3>2, <3>3
  <2>4. Formed(r)
    BY <2>3 DEF Formed
  <2>5. Lefts(s) \in Nat /\ Lefts(r) = Lefts(s) + 1
    BY <1>0, <2>1, LeftsAppend
  <2> QED
    BY <1>1, <2>1, <2>2, <2>4, <2>5
<1>2. CASE /\ x.type = "kright" /\ Len(s) >= 2
           /\ s[Len(s) - 1] = "left" /\ s[Len(s)] = "expr"
           /\ NodeChecked(s, x) = PushExpr(Popped(s, 2))
  <2>1. PICK v : v = Popped(s, 2)
    OBVIOUS
  <2>2. /\ v \in Seq(Mark) /\ Len(v) = Len(s) - 2
        /\ \A i \in 1 .. Len(s) - 2 : v[i] = s[i]
        /\ Lefts(v) \in Nat
        /\ Lefts(s) = Lefts(v) + 1
    BY <1>2, <2>1, PopTwo
  <2>3. Formed(v)
    BY <1>0, <2>2, PrefixFormed
  <2>4. NodeChecked(s, x) = Append(Merged(v), "expr")
    BY <1>2, <2>1, <2>2, <2>3, PushExprShape
  <2>5. PICK r : r = NodeChecked(s, x)
    OBVIOUS
  <2>6. r \in Seq(Mark) /\ Formed(r) /\ Lefts(r) = Lefts(v)
    BY <2>2, <2>3, <2>4, <2>5, PushedFormed
  <2>7. x.type # "kleft"
    BY <1>2
  <2> QED
    BY <1>2, <2>2, <2>5, <2>6, <2>7
<1>3. CASE /\ x.type \in Joins /\ s # <<>> /\ s[Len(s)] = "expr"
           /\ NodeChecked(s, x) = Append(s, "opt")
  <2>1. PICK r : r = Append(s, "opt")
    OBVIOUS
  <2>2. /\ r \in Seq(Mark) /\ Len(r) = Len(s) + 1 /\ r[Len(s) + 1] = "opt"
        /\ \A i \in 1 .. Len(s) : r[i] = s[i]
    BY <1>0, <2>1
  <2>3. ASSUME NEW i \in 1 .. Len(r), r[i] = "opt"
        PROVE  i > 1 /\ r[i - 1] = "expr" /\ (i < Len(r) => r[i + 1] = "left")
    <3>1. CASE i \in 1 .. Len(s)
      <4>1. s[i] = "opt" /\ i # Len(s) /\ i < Len(s)
        BY <1>0, <1>3, <2>2, <2>3, <3>1
      <4>2. i > 1 /\ s[i - 1] = "expr" /\ s[i + 1] = "left"
        BY <3>1, <4>1 DEF Formed
      <4>3. i - 1 \in 1 .. Len(s) /\ i + 1 \in 1 .. Len(s)
        BY <3>1, <4>1, <4>2
      <4> QED
        BY <2>2, <4>2, <4>3
    <3>2. CASE i = Len(s) + 1
      BY <1>0, <1>3, <2>2, <3>2
    <3> QED
      BY <1>0, <2>2, <3>1, <3>2
  <2>4. Formed(r)
    BY <2>3 DEF Formed
  <2>5. Lefts(s) \in Nat /\ Lefts(r) = Lefts(s)
    BY <1>0, <2>1, LeftsAppend
  <2> QED
    BY <1>3, <2>1, <2>2, <2>4, <2>5 DEF Joins
<1>4. CASE IsComparison(x) /\ NodeChecked(s, x) = PushExpr(Merged(s))
  <2>1. NodeChecked(s, x) = Append(Merged(s), "expr")
    BY <1>4, PushExprShape
  <2>2. x.type # "kleft" /\ x.type # "kright"
    BY <1>4 DEF IsComparison, CompareTypes, LikeTypes
  <2> QED
    BY <2>1, <2>2, PushedFormed
<1> QED
  BY <1>1, <1>2, <1>3, <1>4, FitsCases

\* An expression pushed makes a stack tight only if it was before, and did not end
\* in an expression already.
LEMMA TightUnderExpr ==
  ASSUME NEW s \in Seq(Mark), Formed(s), Tight(Append(Merged(s), "expr"))
  PROVE  Tight(s) /\ (Len(s) # 0 => s[Len(s)] # "expr")
<1>1. PICK m : m = Merged(s)
  OBVIOUS
<1>2. /\ m \in Seq(Mark) /\ Len(m) \in Nat /\ Len(s) \in Nat /\ Len(m) <= Len(s)
      /\ \A i \in 1 .. Len(m) : m[i] = s[i]
      /\ \/ m = s
         \/ /\ Len(s) >= 2 /\ Len(m) = Len(s) - 2
            /\ s[Len(s) - 1] = "expr" /\ s[Len(s)] = "opt"
  BY <1>1, MergedShape
<1>3. PICK r : r = Append(m, "expr")
  OBVIOUS
<1>4. /\ r \in Seq(Mark) /\ Len(r) = Len(m) + 1 /\ r[Len(m) + 1] = "expr"
      /\ \A i \in 1 .. Len(m) : r[i] = m[i]
  BY <1>2, <1>3 DEF Mark
<1>5. \A i \in 1 .. Len(m) : r[i] = "expr" => r[i + 1] = "opt"
  BY <1>1, <1>2, <1>3, <1>4 DEF Tight
<1>6. Len(m) # 0 => m[Len(m)] # "expr"
  BY <1>2, <1>4, <1>5
<1>7. ASSUME NEW i \in 1 .. Len(s) - 1, s[i] = "expr"
      PROVE  s[i + 1] = "opt"
  <2>1. CASE i < Len(m)
    <3>1. i \in 1 .. Len(m) /\ i + 1 \in 1 .. Len(m)
      BY <1>2, <2>1
    <3> QED
      BY <1>2, <1>4, <1>5, <1>7, <3>1
  <2>2. CASE i = Len(m)
    BY <1>2, <1>6, <1>7, <2>2
  <2>3. CASE i > Len(m)
    BY <1>2, <1>7, <2>3
  <2> QED
    BY <1>2, <2>1, <2>2, <2>3
<1> QED
  BY <1>2, <1>6, <1>7 DEF Tight

\* Nothing makes a stack tight that is not: an expression without an operator
\* behind it is never got rid of.
LEMMA TightBack ==
  ASSUME NEW s \in Seq(Mark), Formed(s), NEW x, NodeFits(s, x), Tight(NodeChecked(s, x))
  PROVE  Tight(s)
<1>0. Len(s) \in Nat /\ "left" \in Mark /\ "opt" \in Mark
  BY DEF Mark
<1>1. ASSUME NEW y \in Mark, Tight(Append(s, y))
      PROVE  Tight(s)
  <2>1. PICK r : r = Append(s, y)
    OBVIOUS
  <2>2. Len(r) = Len(s) + 1 /\ \A i \in 1 .. Len(s) : r[i] = s[i]
    BY <1>0, <2>1
  <2>3. \A i \in 1 .. Len(s) : r[i] = "expr" => r[i + 1] = "opt"
    BY <1>0, <1>1, <2>1, <2>2 DEF Tight
  <2>4. \A i \in 1 .. Len(s) - 1 : i \in 1 .. Len(s) /\ i + 1 \in 1 .. Len(s)
    BY <1>0
  <2> QED
    BY <2>2, <2>3, <2>4 DEF Tight
<1>2. CASE /\ x.type = "kright" /\ Len(s) >= 2
           /\ s[Len(s) - 1] = "left" /\ s[Len(s)] = "expr"
           /\ NodeChecked(s, x) = PushExpr(Popped(s, 2))
  <2>1. PICK v : v = Popped(s, 2)
    OBVIOUS
  <2>2. /\ v \in Seq(Mark) /\ Len(v) = Len(s) - 2
        /\ \A i \in 1 .. Len(s) - 2 : v[i] = s[i]
    BY <1>2, <2>1, PopTwo
  <2>3. Formed(v)
    BY <1>0, <2>2, PrefixFormed
  <2>4. NodeChecked(s, x) = Append(Merged(v), "expr")
    BY <1>2, <2>1, <2>2, <2>3, PushExprShape
  <2>5. Tight(v) /\ (Len(v) # 0 => v[Len(v)] # "expr")
    BY <2>2, <2>3, <2>4, TightUnderExpr
  <2>6. ASSUME NEW i \in 1 .. Len(s) - 1, s[i] = "expr"
        PROVE  s[i + 1] = "opt"
    <3>1. i # Len(s) - 1
      BY <1>2, <2>6
    <3>2. i \in 1 .. Len(v) /\ v[i] = "expr"
      BY <1>0, <2>2, <2>6, <3>1
    <3>3. i # Len(v)
      BY <2>5, <3>2
    <3>4. i \in 1 .. Len(v) - 1 /\ i + 1 \in 1 .. Len(s) - 2
      BY <1>0, <2>2, <3>2, <3>3
    <3>5. v[i + 1] = "opt"
      BY <2>5, <3>2, <3>4 DEF Tight
    <3> QED
      BY <2>2, <3>4, <3>5
  <2> QED
    BY <2>6 DEF Tight
<1>3. CASE IsComparison(x) /\ NodeChecked(s, x) = PushExpr(Merged(s))
  BY <1>3, PushExprShape, TightUnderExpr
<1> QED
  BY <1>0, <1>1, <1>2, <1>3, FitsCases

\* What lies above the last bracket.
Room(x) == CASE x = "left" -> 0 [] x = "expr" -> 1 [] x = "opt" -> 2

\* A tight stack has at most three marks for each open bracket, an expression, an
\* operator and the bracket, and an expression and an operator more.
LEMMA TightIsShallow ==
  ASSUME NEW s \in Seq(Mark), Formed(s), Tight(s)
  PROVE  Len(s) <= 3 * Lefts(s) + 2
<1> DEFINE IsFlat(r) == r # <<>> => Len(r) <= 3 * Lefts(r) + Room(r[Len(r)])
           Deep == {n \in Nat : \E r \in Seq(Mark) :
                      Len(r) = n /\ Formed(r) /\ Tight(r) /\ ~IsFlat(r)}
<1>1. ASSUME Deep # {}
      PROVE  FALSE
  <2>1. PICK n \in Deep : \A m \in Deep : n <= m
    BY <1>1, LeastNumber
  <2>2. PICK r \in Seq(Mark) : Len(r) = n /\ Formed(r) /\ Tight(r) /\ ~IsFlat(r)
    BY <2>1
  <2>3. r # <<>> /\ n \in Nat /\ n >= 1
    BY <2>2
  <2>4. PICK u : u = SubSeq(r, 1, Len(r) - 1)
    OBVIOUS
  <2>5. /\ u \in Seq(Mark) /\ Len(u) = n - 1
        /\ \A i \in 1 .. n - 1 : u[i] = r[i]
        /\ Lefts(u) \in Nat
        /\ Lefts(r) = Lefts(u) + (IF r[n] = "left" THEN 1 ELSE 0)
    BY <2>2, <2>3, <2>4, PopOne
  <2>6. Formed(u)
    BY SMTT(30), <2>2, <2>3, <2>5, PrefixFormed
  <2>7. Tight(u)
    <3>1. \A i \in 1 .. n - 2 : i \in 1 .. n - 1 /\ i + 1 \in 1 .. n - 1
      BY <2>3
    <3> QED
      BY <2>2, <2>3, <2>5, <3>1 DEF Tight
  <2>8. n - 1 \in Nat /\ n - 1 \notin Deep
    BY <2>1, <2>3
  <2>9. IsFlat(u)
    BY <2>5, <2>6, <2>7, <2>8
  <2>10. r[n] \in Mark
    BY <2>2, <2>3
  <2>11. CASE n = 1
    <3>1. r[n] # "opt"
      BY <2>2, <2>11 DEF Formed
    <3> QED
      BY <2>2, <2>3, <2>5, <2>10, <2>11, <3>1 DEF Room, Mark
  <2>12. CASE n > 1
    <3>1. n - 1 \in 1 .. n - 1 /\ u[n - 1] = r[n - 1] /\ u # <<>>
      BY <2>3, <2>5, <2>12
    <3>2. n - 1 <= 3 * Lefts(u) + Room(r[n - 1])
      BY <2>5, <2>9, <3>1
    <3>3. r[n - 1] \in Mark /\ n - 1 \in 1 .. n /\ n \in 1 .. n
      BY <2>2, <2>3, <2>12
    <3>4. r[n] = "opt" => r[n - 1] = "expr"
      BY <2>2, <3>3 DEF Formed
    <3>5. r[n] = "expr" => r[n - 1] = "left"
      <4>1. r[n - 1] = "opt" => r[n - 1 + 1] = "left"
        BY <2>2, <2>12, <3>3 DEF Formed
      <4>2. r[n - 1] = "expr" => r[n - 1 + 1] = "opt"
        BY <2>2, <3>1 DEF Tight
      <4>3. n - 1 + 1 = n
        BY <2>3
      <4> QED
        BY <3>3, <4>1, <4>2, <4>3 DEF Mark
    <3>6. ~(n <= 3 * Lefts(r) + Room(r[n]))
      BY <2>2, <2>3
    <3>7. Room("left") = 0 /\ Room("expr") = 1 /\ Room("opt") = 2
      BY DEF Room
    <3> QED
      BY SMTT(30), <2>3, <2>5, <2>10, <3>2, <3>3, <3>4, <3>5, <3>6, <3>7 DEF Mark
  <2> QED
    BY <2>3, <2>11, <2>12
<1>2. IsFlat(s)
  BY <1>1
<1>3. CASE s = <<>>
  <2>1. Lefts(s) \in Nat /\ Len(s) = 0
    BY <1>3, LeftsAppend, "left" \in Mark DEF Mark
  <2> QED
    BY <2>1
<1>4. CASE s # <<>>
  <2>1. Lefts(s) \in Nat
    BY <1>4, PopOne
  <2>2. s[Len(s)] \in Mark /\ Len(s) \in Nat
    BY <1>4
  <2> QED
    BY <1>2, <1>4, <2>1, <2>2 DEF Room, Mark
<1> QED
  BY <1>3, <1>4

-----------------------------------------------------------------------------
(* The stack of compute_logical. *)

\* The characters of lg_stack_.
Code == {"(", "A", "O", "T", "F"}
\* The marks that they stand for.
Kinds(s) == [i \in DOMAIN s |-> Kind(s[i])]

\* Kinds gives one mark for each character.
LEMMA KindsShape ==
  ASSUME NEW s \in Seq(Code)
  PROVE  /\ Kinds(s) \in Seq(Mark) /\ Len(Kinds(s)) = Len(s)
         /\ \A i \in 1 .. Len(s) : Kinds(s)[i] = Kind(s[i]) /\ Kind(s[i]) \in Mark
<1>1. \A c \in Code : Kind(c) \in Mark
  BY DEF Kind, Code, Mark
<1> QED
  BY <1>1 DEF Kinds

\* The results of a comparison.
Two == {"T", "F"}
\* g is the recursion of PutStack on s.
Put(s, g) ==
  g = [n \in 0 .. Len(s) |-> [r \in Two |->
         IF n = 0 \/ s[n] \notin {"A", "O"} THEN Append(SubSeq(s, 1, n), r)
         ELSE g[n - 2][Joined(s[n], s[n - 1], r)]]]

\* PutStack is its value at the whole of s.
LEMMA PutStackIsPut ==
  ASSUME NEW s, NEW c
  PROVE  PutStack(s, c) = (CHOOSE g : Put(s, g))[Len(s)][c]
BY DEF PutStack, Put, Two

\* An operator to be joined has its operand before it, and no operator before that:
\* the recursion goes no deeper than one join.
LEMMA JoinPlace ==
  ASSUME NEW s \in Seq(Code), Formed(Kinds(s)),
         NEW n \in 0 .. Len(s), NEW r \in Two, n # 0, s[n] \in {"A", "O"}
  PROVE  /\ n - 2 \in 0 .. Len(s) /\ (n - 2 = 0 \/ s[n - 2] \notin {"A", "O"})
         /\ Joined(s[n], s[n - 1], r) \in Two
<1>0. Len(s) \in Nat
  OBVIOUS
<1>1. Kinds(s)[n] = "opt" /\ n \in 1 .. Len(Kinds(s)) /\ Len(Kinds(s)) = Len(s)
  BY <1>0, KindsShape DEF Kind
<1>2. n > 1 /\ Kinds(s)[n - 1] = "expr"
  BY <1>1 DEF Formed
<1>3. ASSUME n - 2 # 0, s[n - 2] \in {"A", "O"}
      PROVE  FALSE
  <2>1. n - 2 \in 1 .. Len(Kinds(s)) /\ n - 2 < Len(Kinds(s))
    BY <1>0, <1>1, <1>2, <1>3
  <2>2. Kinds(s)[n - 2] = "opt"
    BY <1>1, <1>3, <2>1, KindsShape DEF Kind
  <2>3. Kinds(s)[n - 2 + 1] = "left" /\ n - 2 + 1 = n - 1
    BY <2>1, <2>2 DEF Formed
  <2> QED
    BY <1>2, <2>3
<1> QED
  BY <1>0, <1>1, <1>2, <1>3 DEF Joined, Truth, Two

\* So there is such a recursion.
LEMMA PutExists ==
  ASSUME NEW s \in Seq(Code), Formed(Kinds(s))
  PROVE  \E g : Put(s, g)
<1>0. Len(s) \in Nat
  OBVIOUS
<1> DEFINE h == [n \in 0 .. Len(s) |-> [r \in Two |->
                   IF n = 0 \/ s[n] \notin {"A", "O"} THEN Append(SubSeq(s, 1, n), r)
                   ELSE Append(SubSeq(s, 1, n - 2), Joined(s[n], s[n - 1], r))]]
<1>2. ASSUME NEW n \in 0 .. Len(s)
      PROVE  h[n] = [r \in Two |->
                       IF n = 0 \/ s[n] \notin {"A", "O"} THEN Append(SubSeq(s, 1, n), r)
                       ELSE h[n - 2][Joined(s[n], s[n - 1], r)]]
  <2>1. CASE n = 0 \/ s[n] \notin {"A", "O"}
    BY <2>1
  <2>2. CASE n # 0 /\ s[n] \in {"A", "O"}
    <3>1. ASSUME NEW r \in Two
          PROVE  h[n - 2][Joined(s[n], s[n - 1], r)]
                   = Append(SubSeq(s, 1, n - 2), Joined(s[n], s[n - 1], r))
      BY <1>0, <2>2, JoinPlace
    <3> QED
      BY <2>2, <3>1
  <2> QED
    BY <2>1, <2>2
<1>3. h = [n \in 0 .. Len(s) |-> h[n]]
  OBVIOUS
<1> HIDE DEF h
<1>4. Put(s, h)
  BY <1>2, <1>3 DEF Put
<1> QED
  BY <1>4

\* One step of it.
LEMMA PutAt ==
  ASSUME NEW s, NEW g, Put(s, g), NEW n \in 0 .. Len(s), NEW r \in Two
  PROVE  g[n][r] = IF n = 0 \/ s[n] \notin {"A", "O"} THEN Append(SubSeq(s, 1, n), r)
                   ELSE g[n - 2][Joined(s[n], s[n - 1], r)]
<1>1. g = [m \in 0 .. Len(s) |-> [q \in Two |->
         IF m = 0 \/ s[m] \notin {"A", "O"} THEN Append(SubSeq(s, 1, m), q)
         ELSE g[m - 2][Joined(s[m], s[m - 1], q)]]]
  BY DEF Put
<1>2. g[n] = [q \in Two |->
         IF n = 0 \/ s[n] \notin {"A", "O"} THEN Append(SubSeq(s, 1, n), q)
         ELSE g[n - 2][Joined(s[n], s[n - 1], q)]]
  BY <1>1
<1> QED
  BY <1>2

\* The marks of part of a stack with one more character.
LEMMA KindsAppend ==
  ASSUME NEW s \in Seq(Code), NEW n \in 0 .. Len(s), NEW c \in Code
  PROVE  LET r == Append(SubSeq(s, 1, n), c) IN
         /\ r \in Seq(Code) /\ Kinds(r) \in Seq(Mark) /\ Len(Kinds(r)) = n + 1
         /\ \A i \in 1 .. n : Kinds(r)[i] = Kinds(s)[i]
         /\ Kinds(r)[n + 1] = Kind(c)
<1>1. PICK r : r = Append(SubSeq(s, 1, n), c)
  OBVIOUS
<1>2. /\ r \in Seq(Code) /\ Len(r) = n + 1 /\ r[n + 1] = c /\ \A i \in 1 .. n : r[i] = s[i]
      /\ n \in Nat /\ Len(s) \in Nat
  BY <1>1
<1>3. /\ Kinds(r) \in Seq(Mark) /\ Len(Kinds(r)) = n + 1
      /\ \A i \in 1 .. n + 1 : Kinds(r)[i] = Kind(r[i])
      /\ \A i \in 1 .. Len(s) : Kinds(s)[i] = Kind(s[i])
  BY <1>2, KindsShape
<1> QED
  BY <1>1, <1>2, <1>3

\* put_stack does to the marks what push_expr does.
LEMMA PutShape ==
  ASSUME NEW s \in Seq(Code), Formed(Kinds(s)), NEW c \in Two
  PROVE  /\ PutStack(s, c) \in Seq(Code)
         /\ Kinds(PutStack(s, c)) = Append(Merged(Kinds(s)), "expr")
<1>0. PICK k : k = Kinds(s)
  OBVIOUS
<1>1. /\ Len(s) \in Nat /\ k \in Seq(Mark) /\ Len(k) = Len(s)
      /\ \A i \in 1 .. Len(s) : k[i] = Kind(s[i])
  BY <1>0, KindsShape
<1>2. PICK g : Put(s, g) /\ PutStack(s, c) = g[Len(s)][c]
  BY PutExists, PutStackIsPut
<1>3. PICK m : m = Merged(k)
  OBVIOUS
<1>4. /\ m \in Seq(Mark) /\ Len(m) \in Nat /\ Len(m) <= Len(s)
      /\ \A i \in 1 .. Len(m) : m[i] = k[i]
  BY <1>0, <1>1, <1>3, MergedShape
<1>5. Len(m) \in 0 .. Len(s) /\ Len(s) \in 0 .. Len(s) /\ Two \subseteq Code
  BY <1>1, <1>4 DEF Two, Code
<1>6. \E d \in Two : PutStack(s, c) = Append(SubSeq(s, 1, Len(m)), d)
  <2>1. CASE Len(s) = 0 \/ s[Len(s)] \notin {"A", "O"}
    <3>1. PutStack(s, c) = Append(SubSeq(s, 1, Len(s)), c)
      <4>1. PICK n : n = Len(s)
        OBVIOUS
      <4>2. g[n][c] = IF n = 0 \/ s[n] \notin {"A", "O"} THEN Append(SubSeq(s, 1, n), c)
                      ELSE g[n - 2][Joined(s[n], s[n - 1], c)]
        BY <1>2, <1>5, <4>1, PutAt
      <4> QED
        BY <1>2, <2>1, <4>1, <4>2
    <3>2. k # <<>> => k[Len(k)] # "opt"
      BY <1>1, <2>1 DEF Kind
    <3>3. m = k
      BY <1>3, <3>2 DEF Merged, IsTop, Last
    <3> QED
      BY <1>1, <3>1, <3>3
  <2>2. CASE Len(s) # 0 /\ s[Len(s)] \in {"A", "O"}
    <3>1. PICK n : n = Len(s)
      OBVIOUS
    <3>2. PICK d : d = Joined(s[n], s[n - 1], c)
      OBVIOUS
    <3>3. n - 2 \in 0 .. Len(s) /\ (n - 2 = 0 \/ s[n - 2] \notin {"A", "O"}) /\ d \in Two
      BY <1>5, <2>2, <3>1, <3>2, JoinPlace
    <3>4. g[n][c] = g[n - 2][d]
      BY <1>2, <1>5, <2>2, <3>1, <3>2, PutAt
    <3>5. g[n - 2][d] = Append(SubSeq(s, 1, n - 2), d)
      <4>1. PICK l : l = n - 2
        OBVIOUS
      <4>2. g[l][d] = IF l = 0 \/ s[l] \notin {"A", "O"} THEN Append(SubSeq(s, 1, l), d)
                      ELSE g[l - 2][Joined(s[l], s[l - 1], d)]
        BY <1>2, <3>3, <4>1, PutAt
      <4> QED
        BY <3>3, <4>1, <4>2
    <3>6. k # <<>> /\ k[Len(k)] = "opt" /\ Len(k) >= 2
      BY <1>1, <2>2, <3>1, <3>3 DEF Kind
    <3>7. m = Popped(k, 2)
      BY <1>3, <3>6 DEF Merged, IsTop, Last
    <3>8. Len(m) = n - 2
      BY <1>1, <3>1, <3>6, <3>7, PopTwo
    <3> QED
      BY <1>2, <3>1, <3>3, <3>4, <3>5, <3>8
  <2> QED
    BY <2>1, <2>2
<1>7. PICK d \in Two : PutStack(s, c) = Append(SubSeq(s, 1, Len(m)), d)
  BY <1>6
<1>8. PICK r : r = PutStack(s, c)
  OBVIOUS
<1>9. /\ r \in Seq(Code) /\ Kinds(r) \in Seq(Mark) /\ Len(Kinds(r)) = Len(m) + 1
      /\ \A i \in 1 .. Len(m) : Kinds(r)[i] = Kinds(s)[i]
      /\ Kinds(r)[Len(m) + 1] = Kind(d)
  BY <1>5, <1>7, <1>8, KindsAppend
<1>10. Kind(d) = "expr"
  BY DEF Kind, Two
<1>11. PICK q : q = Append(m, "expr")
  OBVIOUS
<1>12. /\ q \in Seq(Mark) /\ Len(q) = Len(m) + 1 /\ q[Len(m) + 1] = "expr"
       /\ \A i \in 1 .. Len(m) : q[i] = m[i]
  BY <1>4, <1>11 DEF Mark
<1>13. Kinds(r) = q
  BY <1>0, <1>4, <1>9, <1>10, <1>12
<1> QED
  BY <1>0, <1>3, <1>8, <1>9, <1>11, <1>13

\* What Evaluated does if a comparison is told to be t.
Told(s, x, t) ==
  CASE x.type \in Joins \cup {"kleft"} -> Append(s, Char(x))
    [] x.type = "kright" -> PutStack(Popped(s, 2), Last(s))
    [] OTHER -> PutStack(s, t)

\* A node that fits the marks of the stack does to them what NodeChecked does to
\* the marks: neither put_stack nor the pops of a closing bracket meet anything else
\* than they look for.
LEMMA ToldShape ==
  ASSUME NEW s \in Seq(Code), Formed(Kinds(s)), NEW x, NodeFits(Kinds(s), x), NEW t \in Two
  PROVE  Told(s, x, t) \in Seq(Code) /\ Kinds(Told(s, x, t)) = NodeChecked(Kinds(s), x)
<1>0. PICK k : k = Kinds(s)
  OBVIOUS
<1>1. /\ Len(s) \in Nat /\ k \in Seq(Mark) /\ Len(k) = Len(s)
      /\ \A i \in 1 .. Len(s) : k[i] = Kind(s[i])
  BY <1>0, KindsShape
<1>2. ASSUME x.type \in Joins \cup {"kleft"}
      PROVE  /\ Told(s, x, t) \in Seq(Code)
             /\ Kinds(Told(s, x, t)) = Append(k, Kind(Char(x)))
  <2>1. Told(s, x, t) = Append(s, Char(x)) /\ Char(x) \in Code
    BY <1>2 DEF Told, Char, Joins, Code
  <2>2. Len(s) \in 0 .. Len(s) /\ SubSeq(s, 1, Len(s)) = s
    BY <1>1
  <2>3. PICK r : r = Append(s, Char(x))
    OBVIOUS
  <2>4. /\ r \in Seq(Code) /\ Kinds(r) \in Seq(Mark) /\ Len(Kinds(r)) = Len(s) + 1
        /\ \A i \in 1 .. Len(s) : Kinds(r)[i] = Kinds(s)[i]
        /\ Kinds(r)[Len(s) + 1] = Kind(Char(x))
    <3>1. PICK n : n = Len(s)
      OBVIOUS
    <3>2. PICK c : c = Char(x)
      OBVIOUS
    <3>3. n \in 0 .. Len(s) /\ c \in Code /\ r = Append(SubSeq(s, 1, n), c)
      BY <2>1, <2>2, <2>3, <3>1, <3>2
    <3>4. /\ r \in Seq(Code) /\ Kinds(r) \in Seq(Mark) /\ Len(Kinds(r)) = n + 1
          /\ \A i \in 1 .. n : Kinds(r)[i] = Kinds(s)[i]
          /\ Kinds(r)[n + 1] = Kind(c)
      BY <3>3, KindsAppend
    <3> QED
      BY <3>1, <3>2, <3>4
  <2>5. PICK q : q = Append(k, Kind(Char(x)))
    OBVIOUS
  <2>6. Kind(Char(x)) \in Mark
    BY <2>1 DEF Kind, Code, Mark
  <2>7. /\ q \in Seq(Mark) /\ Len(q) = Len(s) + 1 /\ q[Len(s) + 1] = Kind(Char(x))
        /\ \A i \in 1 .. Len(s) : q[i] = k[i]
    BY <1>1, <2>5, <2>6
  <2>8. Kinds(r) = q
    BY <1>0, <1>1, <2>4, <2>7
  <2> QED
    BY <2>1, <2>3, <2>4, <2>5, <2>8
<1>3. CASE x.type = "kleft" /\ NodeChecked(k, x) = Append(k, "left")
  <2>1. Kind(Char(x)) = "left"
    BY <1>3 DEF Kind, Char
  <2> QED
    BY <1>0, <1>2, <1>3, <2>1
<1>4. CASE /\ x.type \in Joins /\ NodeChecked(k, x) = Append(k, "opt")
  <2>1. Kind(Char(x)) = "opt"
    BY <1>4 DEF Kind, Char, Joins
  <2> QED
    BY <1>0, <1>2, <1>4, <2>1
<1>5. CASE /\ x.type = "kright" /\ Len(k) >= 2
           /\ k[Len(k) - 1] = "left" /\ k[Len(k)] = "expr"
           /\ NodeChecked(k, x) = PushExpr(Popped(k, 2))
  <2>1. PICK u : u = Popped(s, 2)
    OBVIOUS
  <2>2. u \in Seq(Code) /\ Len(u) = Len(s) - 2 /\ \A i \in 1 .. Len(s) - 2 : u[i] = s[i]
    BY <1>1, <1>5, <2>1 DEF Popped
  <2>3. PICK v : v = Popped(k, 2)
    OBVIOUS
  <2>4. v \in Seq(Mark) /\ Len(v) = Len(s) - 2 /\ \A i \in 1 .. Len(s) - 2 : v[i] = k[i]
    BY <1>1, <1>5, <2>3, PopTwo
  <2>5. Kinds(u) = v
    <3>1. /\ Kinds(u) \in Seq(Mark) /\ Len(Kinds(u)) = Len(u)
          /\ \A i \in 1 .. Len(u) : Kinds(u)[i] = Kind(u[i])
      BY <2>2, KindsShape
    <3>2. \A i \in 1 .. Len(s) - 2 : i \in 1 .. Len(s)
      BY <1>1
    <3>3. Len(s) - 2 \in Nat
      BY <1>1, <1>5
    <3>4. \A i \in 1 .. Len(s) - 2 : Kinds(u)[i] = v[i]
      BY <1>1, <2>2, <2>4, <3>1, <3>2
    <3>5. Len(Kinds(u)) = Len(v) /\ \A i \in 1 .. Len(Kinds(u)) : Kinds(u)[i] = v[i]
      BY <2>2, <2>4, <3>1, <3>4
    <3> QED
      BY <2>4, <3>1, <3>5, SeqEqual
  <2>6. Formed(v)
    <3>1. Len(v) <= Len(k)
      BY <1>1, <2>4
    <3> QED
      BY <1>0, <1>1, <2>4, <3>1, PrefixFormed
  <2>7. s[Len(s)] \in Code /\ Kind(s[Len(s)]) = "expr"
    BY <1>1, <1>5
  <2>8. Last(s) \in Two
    BY <2>7 DEF Kind, Code, Two, Last
  <2>9. Told(s, x, t) = PutStack(u, Last(s))
    BY <1>5, <2>1 DEF Told, Joins
  <2>10. NodeChecked(k, x) = Append(Merged(v), "expr")
    BY <1>5, <2>3, <2>4, <2>6, PushExprShape
  <2> QED
    BY <1>0, <2>2, <2>5, <2>6, <2>8, <2>9, <2>10, PutShape
<1>6. CASE IsComparison(x) /\ NodeChecked(k, x) = PushExpr(Merged(k))
  <2>2. Told(s, x, t) = PutStack(s, t)
    BY <1>6 DEF Told, Joins, IsComparison, CompareTypes, LikeTypes
  <2>4. NodeChecked(k, x) = Append(Merged(k), "expr")
    BY <1>0, <1>1, <1>6, PushExprShape
  <2> QED
    BY <1>0, <2>2, <2>4, PutShape
<1> QED
  BY <1>0, <1>1, <1>3, <1>4, <1>5, <1>6, FitsCases

-----------------------------------------------------------------------------
(* The check, node by node. *)

\* check_logical does not refuse one of the first n nodes.
Passes(l, n) == \A i \in 1 .. n : NodeFits(Walk(SubSeq(l, 1, i - 1)), l[i])

\* The stack behind i nodes is a step from the stack behind i - 1.
LEMMA PrefixStep ==
  ASSUME NEW S, NEW l \in Seq(S), NEW i \in 1 .. Len(l)
  PROVE  /\ SubSeq(l, 1, i - 1) \in Seq(S) /\ l[i] \in S
         /\ SubSeq(l, 1, i) = Append(SubSeq(l, 1, i - 1), l[i])
         /\ Walk(SubSeq(l, 1, i)) = NodeChecked(Walk(SubSeq(l, 1, i - 1)), l[i])
<1>1. Len(l) \in Nat
  OBVIOUS
<1>2. SubSeq(l, 1, i - 1) \in Seq(S) /\ l[i] \in S
  BY <1>1
<1>3. SubSeq(l, 1, i) = Append(SubSeq(l, 1, i - 1), l[i])
  BY <1>1, <1>2
<1> QED
  BY <1>2, <1>3, WalkStep

\* Where the check has passed, its stack is formed and holds the brackets open.
LEMMA WalkShape ==
  ASSUME NEW S, NEW l \in Seq(S), NEW n \in 0 .. Len(l), Passes(l, n), NEW i \in 0 .. n
  PROVE  LET w == Walk(SubSeq(l, 1, i)) IN
         w \in Seq(Mark) /\ Formed(w) /\ Lefts(w) \in Nat /\ Lefts(w) = Open(SubSeq(l, 1, i))
<1> DEFINE Shape(k) == LET w == Walk(SubSeq(l, 1, k)) IN
             /\ w \in Seq(Mark) /\ Formed(w) /\ Lefts(w) \in Nat
             /\ Lefts(w) = Open(SubSeq(l, 1, k))
           Odd == {k \in Nat : k <= n /\ ~Shape(k)}
<1>0. Len(l) \in Nat /\ n \in Nat
  OBVIOUS
<1>1. SUFFICES ASSUME Odd # {}
               PROVE  FALSE
  OBVIOUS
<1>2. PICK k \in Odd : \A j \in Odd : k <= j
  BY <1>1, LeastNumber
<1>3. CASE k = 0
  <2>1. SubSeq(l, 1, k) = <<>>
    BY <1>3
  <2>2. Walk(SubSeq(l, 1, k)) = <<>>
    BY <2>1, WalkOfNothing
  <2>3. Lefts(<<>>) = 0 /\ \A t : Count(<<>>, t) = 0
    BY FS_EmptySet DEF Lefts, Count
  <2>4. Formed(<<>>)
    BY DEF Formed
  <2>5. Shape(k)
    <3>1. Open(<<>>) = 0
      BY <2>3 DEF Open
    <3>2. <<>> \in Seq(Mark) /\ 0 \in Nat
      OBVIOUS
    <3>3. Lefts(<<>>) \in Nat /\ Lefts(<<>>) = Open(<<>>)
      BY <2>3, <3>1
    <3> QED
      BY <2>1, <2>2, <2>4, <3>2, <3>3
  <2> QED
    BY <1>2, <2>5
<1>4. CASE k # 0
  <2>1. k \in 1 .. Len(l) /\ k \in 1 .. n /\ k - 1 \in Nat /\ k - 1 <= n /\ k - 1 \notin Odd
    BY <1>0, <1>2, <1>4
  <2>2. PICK u : u = SubSeq(l, 1, k - 1)
    OBVIOUS
  <2>3. PICK w : w = Walk(u)
    OBVIOUS
  <2>4. w \in Seq(Mark) /\ Formed(w) /\ Lefts(w) \in Nat /\ Lefts(w) = Open(u)
    BY <2>1, <2>2, <2>3
  <2>5. NodeFits(w, l[k])
    BY <2>1, <2>2, <2>3 DEF Passes
  <2>6. /\ u \in Seq(S) /\ l[k] \in S /\ SubSeq(l, 1, k) = Append(u, l[k])
        /\ Walk(SubSeq(l, 1, k)) = NodeChecked(w, l[k])
    BY <2>1, <2>2, <2>3, PrefixStep
  <2>7. PICK r : r = NodeChecked(w, l[k])
    OBVIOUS
  <2>8. /\ r \in Seq(Mark) /\ Formed(r) /\ Lefts(r) \in Nat
        /\ Lefts(r) = Lefts(w) + (IF l[k].type = "kleft" THEN 1 ELSE 0)
                               - (IF l[k].type = "kright" THEN 1 ELSE 0)
    BY <2>4, <2>5, <2>7, StepShape
  <2>9. \A t : /\ Count(u, t) \in Nat
               /\ Count(SubSeq(l, 1, k), t) = Count(u, t) + (IF l[k].type = t THEN 1 ELSE 0)
    <3>1. PICK x : x = l[k]
      OBVIOUS
    <3>2. \A t : /\ Count(u, t) \in Nat
                 /\ Count(Append(u, x), t) = Count(u, t) + (IF x.type = t THEN 1 ELSE 0)
      BY <2>6, <3>1, CountAppend
    <3> QED
      BY <2>6, <3>1, <3>2
  <2>10. Lefts(r) = Open(SubSeq(l, 1, k))
    BY SMTT(30), <2>4, <2>8, <2>9 DEF Open
  <2> QED
    BY <1>2, <2>6, <2>7, <2>8, <2>10
<1> QED
  BY <1>3, <1>4

\* Where the check has accepted, its stack was tight all along, because it was in
\* the end.
LEMMA WalkTight ==
  ASSUME NEW S, NEW l \in Seq(S), Passes(l, Len(l)), Walk(l) = <<"expr">>,
         NEW i \in 0 .. Len(l)
  PROVE  Tight(Walk(SubSeq(l, 1, i)))
<1> DEFINE n == Len(l)
           Loose == {k \in Nat : k <= n /\ ~Tight(Walk(SubSeq(l, 1, n - k)))}
<1>0. n \in Nat /\ SubSeq(l, 1, n) = l
  OBVIOUS
<1>1. ASSUME Loose # {}
      PROVE  FALSE
  <2>2. PICK k \in Loose : \A j \in Loose : k <= j
    BY <1>1, LeastNumber
  <2>3. CASE k = 0
    <3>1. Walk(SubSeq(l, 1, n - k)) = <<"expr">>
      <4>1. n - k = n
        BY <1>0, <2>3
      <4> QED
        BY <1>0, <4>1
    <3>2. Tight(<<"expr">>)
      BY DEF Tight
    <3> QED
      BY <2>2, <3>1, <3>2
  <2>4. CASE k # 0
    <3>1. PICK j : j = n - k
      OBVIOUS
    <3>2. j \in 0 .. n /\ j + 1 \in 1 .. n /\ k - 1 \in Nat /\ k - 1 <= n /\ n - (k - 1) = j + 1
      BY <1>0, <2>2, <2>4, <3>1
    <3>3. k - 1 \notin Loose
      BY SMTT(30), <2>2, <3>2
    <3>4. Tight(Walk(SubSeq(l, 1, j + 1)))
      BY <3>2, <3>3
    <3>5. PICK w : w = Walk(SubSeq(l, 1, j))
      OBVIOUS
    <3>6. w \in Seq(Mark) /\ Formed(w)
      BY <1>0, <3>2, <3>5, WalkShape
    <3>7. j + 1 - 1 = j
      BY <3>2
    <3>8. NodeFits(w, l[j + 1])
      BY <3>2, <3>5, <3>7 DEF Passes
    <3>9. Walk(SubSeq(l, 1, j + 1)) = NodeChecked(w, l[j + 1])
      BY <3>2, <3>5, <3>7, PrefixStep
    <3>10. Tight(w)
      BY <3>4, <3>6, <3>8, <3>9, TightBack
    <3> QED
      BY <2>2, <3>1, <3>5, <3>10
  <2> QED
    BY <2>3, <2>4
<1>2. n - i \in Nat /\ n - i <= n /\ n - (n - i) = i
  BY <1>0
<1> QED
  BY <1>1, <1>2

-----------------------------------------------------------------------------
(* Conditions: each step of Logical. *)

\* The nodes of lg_.
Part == [type : NodeType, left : Seq(Node), right : Seq(Node)]

\* make_left_expression stays in the nodes kept.
LEMMA LeftEndIn ==
  ASSUME NEW S, NEW s \in Seq(S)
  PROVE  LeftEnd(s) \in 0 .. Len(s)
<1> DEFINE ends == {i \in DOMAIN s :
        \/ s[i].type \in Joins
        \/ s[i].type = "kleft" /\ Balanced(SubSeq(s, i + 1, Len(s)))}
<1>1. LeftEnd(s) = IF ends = {} THEN 0 ELSE Max(ends)
  BY DEF LeftEnd
<1>2. ends \in SUBSET (1 .. Len(s)) /\ Len(s) \in Nat
  OBVIOUS
<1> HIDE DEF ends
<1>3. ends # {} => Max(ends) \in 1 .. Len(s)
  BY <1>2, MaxIsIn
<1> QED
  BY <1>1, <1>2, <1>3

\* Nodes are taken over one by one.
LEMMA ConvertedIsSeq ==
  ASSUME NEW s \in Seq(Node)
  PROVE  Converted(s) \in Seq(Part) /\ Len(Converted(s)) = Len(s)
<1>1. \A x \in Node : Convert(x) \in Part
  BY DEF Convert, LogicalNode, Node, Part
<1> QED
  BY <1>1 DEF Converted

\* No node is a condition too.
LEMMA NoCondition == <<>> \in Condition
BY DEF Condition

-----------------------------------------------------------------------------
(* The two sides of a comparison, as texts of the grammar of formulas. *)

\* A part of a condition: a sign at another place than the first follows a field or
\* a bracket.
Signed(e) == \A i \in 2 .. Len(e) : e[i].type = "ksub" => e[i - 1].type \in {"kname", "kright"}

\* AsText(e) has the nodes of e, but for signs.
LEMMA TextAt ==
  ASSUME NEW e \in Seq(Node)
  PROVE  /\ AsText(e) \in Seq(Lexeme) /\ Len(AsText(e)) = Len(e)
         /\ \A i \in 1 .. Len(e) :
              AsText(e)[i] = IF e[i].type = "ksub" THEN Token("minus") ELSE e[i]
<1>1. DOMAIN e = 1 .. Len(e) /\ Len(e) \in Nat /\ \A i \in 1 .. Len(e) : e[i] \in Node
  OBVIOUS
<1>2. Token("minus") \in Lexeme
  BY DEF Token, Lexeme
<1>3. \A x \in Node : x.type # "ksub" => x \in Lexeme
  BY DEF Node, Lexeme
<1>4. \A i \in 1 .. Len(e) : (IF e[i].type = "ksub" THEN Token("minus") ELSE e[i]) \in Lexeme
  BY <1>1, <1>2, <1>3
<1>5. AsText(e) = [i \in 1 .. Len(e) |-> IF e[i].type = "ksub" THEN Token("minus") ELSE e[i]]
  BY <1>1 DEF AsText
<1> QED
  BY <1>1, <1>4, <1>5

\* Every node is one place of the text.
LEMMA TextMaps ==
  ASSUME NEW e \in Seq(Node), Signed(e), NEW i \in 1 .. Len(e), e[i].type = "ksub" => i > 1
  PROVE  MapsNode(AsText(e), e[i], i - 1, i)
<1>1. Len(e) \in Nat /\ e[i] \in Node
  OBVIOUS
<1>2. CASE e[i].type # "ksub"
  <2>1. AsText(e)[i] = e[i] /\ e[i].type # "minus"
    BY <1>1, <1>2, TextAt DEF Node, NodeType
  <2> QED
    BY <2>1 DEF MapsNode
<1>3. CASE e[i].type = "ksub"
  <2>1. i \in 2 .. Len(e) /\ i - 1 \in 1 .. Len(e) /\ i - 1 >= 1
    BY <1>1, <1>3
  <2>2. e[i - 1].type \in {"kname", "kright"}
    BY <1>3, <2>1 DEF Signed
  <2>3. AsText(e)[i - 1] = e[i - 1]
    BY <2>1, <2>2, TextAt
  <2>4. AsText(e)[i].type = "minus"
    BY <1>3, TextAt DEF Token
  <2> QED
    BY <1>3, <2>1, <2>2, <2>3, <2>4 DEF MapsNode, NameOrBracket
<1> QED
  BY <1>2, <1>3

\* The nodes of e up to n, and what check_expression has made of them.
FirstOf(e, n) == SubSeq(e, 1, n)
CheckAt(e, n) == Fold(Checks, FirstOf(e, n))
ComputeAt(e, row, n) == Fold(Computes(row), FirstOf(e, n))

\* One node after another.
LEMMA FirstStep ==
  ASSUME NEW e \in Seq(Node), NEW n \in 1 .. Len(e)
  PROVE  /\ CheckAt(e, n) = CheckStepped(CheckAt(e, n - 1), e[n])
         /\ \A row : ComputeAt(e, row, n) = ComputeStepped(ComputeAt(e, row, n - 1), e[n], row)
<1>1. /\ FirstOf(e, n - 1) \in Seq(Node) /\ e[n] \in Node
      /\ FirstOf(e, n) = Append(FirstOf(e, n - 1), e[n])
  BY PrefixStep DEF FirstOf
<1>2. PICK r \in Seq(Node) : r = FirstOf(e, n - 1)
  BY <1>1
<1>3. ASSUME NEW k
      PROVE  Fold(k, FirstOf(e, n)) = Stepped(k, Fold(k, FirstOf(e, n - 1)), e[n])
  BY <1>1, <1>2, FoldMore
<1>4. \A acc, x : Stepped(Checks, acc, x) = CheckStepped(acc, x)
  BY DEF Stepped, Checks
<1>5. \A row, acc, x : Stepped(Computes(row), acc, x) = ComputeStepped(acc, x, row)
  BY DEF Stepped, Computes
<1> QED
  BY <1>3, <1>4, <1>5 DEF CheckAt, ComputeAt

\* Before the first node, and behind the last.
LEMMA FirstEnds ==
  ASSUME NEW e \in Seq(Node)
  PROVE  /\ CheckAt(e, 0) = <<>> /\ \A row : ComputeAt(e, row, 0) = <<>>
         /\ CheckExpression(e) <=> CheckAt(e, Len(e)) = <<"digit">>
         /\ \A row : Computing(e, row) = ComputeAt(e, row, Len(e))
<1>1. FirstOf(e, 0) = <<>> /\ FirstOf(e, Len(e)) = e
  BY DEF FirstOf
<1>2. Base(Checks) = <<>> /\ \A row : Base(Computes(row)) = <<>>
  BY DEF Base, Checks, Computes
<1>3. ASSUME NEW row
      PROVE  ComputeAt(e, row, 0) = <<>>
  BY <1>1, <1>2, FoldNothing DEF ComputeAt
<1>4. CheckAt(e, 0) = <<>>
  BY <1>1, <1>2, FoldNothing DEF CheckAt
<1>5. ASSUME NEW row
      PROVE  Computing(e, row) = ComputeAt(e, row, Len(e))
  BY <1>1, ComputingIs DEF ComputeAt
<1>6. CheckExpression(e) <=> CheckAt(e, Len(e)) = <<"digit">>
  BY <1>1, CheckExpressionIs DEF CheckAt
<1> QED
  BY <1>3, <1>4, <1>5, <1>6

\* What check_expression accepts it accepts node by node.
LEMMA AllFit ==
  ASSUME NEW e \in Seq(Node), CheckExpression(e), NEW n \in 1 .. Len(e)
  PROVE  /\ CheckAt(e, n - 1) # Refused /\ Fits(CheckAt(e, n - 1), e[n])
         /\ CheckAt(e, n) = Checked(CheckAt(e, n - 1), e[n])
<1>0. PICK N \in Nat : N = Len(e)
  OBVIOUS
<1>1. CheckAt(e, N) # Refused
  <2>1. CheckAt(e, N) = <<"digit">>
    BY <1>0, FirstEnds
  <2>2. <<"digit">>[1] # Refused[1]
    BY DEF Refused
  <2> QED
    BY <2>1, <2>2
<1>2. CheckAt(e, n) # Refused
  <2> SUFFICES ASSUME CheckAt(e, n) = Refused PROVE FALSE
    OBVIOUS
  <2> DEFINE T == {m \in 0 .. N : n <= m => CheckAt(e, m) = Refused}
  <2>1. 0 \in T
    OBVIOUS
  <2>2. ASSUME NEW m \in 0 .. N - 1, m \in T
        PROVE  m + 1 \in T
    <3>1. m + 1 \in 1 .. Len(e) /\ (m + 1) - 1 = m /\ m + 1 \in 0 .. N
      BY <1>0
    <3>2. CheckAt(e, m + 1) = CheckStepped(CheckAt(e, m), e[m + 1])
      BY <3>1, FirstStep
    <3>3. n <= m + 1 => n <= m \/ n = m + 1
      OBVIOUS
    <3> QED
      BY <2>2, <3>1, <3>2, <3>3 DEF CheckStepped
  <2> HIDE DEF T
  <2>3. \A m \in 0 .. N : m \in T
    BY <2>1, <2>2, Climb
  <2>4. N \in T /\ n <= N
    BY <1>0, <2>3
  <2> QED
    BY <1>1, <2>4 DEF T
<1>3. CheckAt(e, n) = CheckStepped(CheckAt(e, n - 1), e[n])
  BY FirstStep
<1> QED
  BY <1>2, <1>3 DEF CheckStepped

\* On the way the stack is that of a text read so far, or it is spoilt.
LEMMA CheckWay ==
  ASSUME NEW e \in Seq(Node), Signed(e), CheckExpression(e), NEW v, NEW n \in 0 .. Len(e)
  PROVE  /\ Safe(CheckAt(e, n))
         /\ GoodStack(AsText(e), v, CheckAt(e, n), n) \/ BadStack(CheckAt(e, n))
<1>1. PICK s \in Seq(Lexeme) : s = AsText(e) /\ Len(s) = Len(e)
  BY TextAt
<1>2. PICK N \in Nat : N = Len(e)
  OBVIOUS
<1> DEFINE T == {m \in 0 .. N : /\ Safe(CheckAt(e, m))
                                /\ GoodStack(s, v, CheckAt(e, m), m) \/ BadStack(CheckAt(e, m))}
<1>3. 0 \in T
  <2>1. CheckAt(e, 0) = <<>>
    BY FirstEnds
  <2>2. Safe(<<>>)
    BY DEF Safe
  <2> QED
    BY <2>1, <2>2, GoodBegin
<1>4. ASSUME NEW m \in 0 .. N - 1, m \in T
      PROVE  m + 1 \in T
  <2>1. m + 1 \in 1 .. Len(e) /\ (m + 1) - 1 = m /\ m + 1 \in 0 .. N /\ m \in 0 .. Len(s)
        /\ m + 1 \in 0 .. Len(s)
    BY <1>1, <1>2
  <2>2. PICK now : now = CheckAt(e, m)
    OBVIOUS
  <2>3. PICK x \in Node : x = e[m + 1]
    BY <2>1
  <2>4. Fits(now, x) /\ CheckAt(e, m + 1) = Checked(now, x)
    BY <2>1, <2>2, <2>3, AllFit
  <2>5. Safe(now) /\ (GoodStack(s, v, now, m) \/ BadStack(now))
    BY <1>4, <2>2
  <2>6. Safe(Checked(now, x))
    BY <2>4, <2>5, CheckStep
  <2>7. CASE BadStack(now)
    <3>1. BadStack(Checked(now, x))
      BY <2>4, <2>5, <2>7, BadStays
    <3> QED
      BY <2>1, <2>4, <2>6, <3>1
  <2>8. CASE GoodStack(s, v, now, m)
    <3>1. x.type = "ksub" => m + 1 > 1
      <4>1. CASE m = 0
        <5>1. now = <<>>
          BY <2>2, <4>1, FirstEnds
        <5>2. ~IsTop(now, "digit")
          BY <5>1 DEF IsTop
        <5> QED
          BY <2>4, <5>2 DEF Fits, IsOperand, IsFour, FourTypes
      <4>2. CASE m # 0
        BY <4>2
      <4> QED
        BY <4>1, <4>2
    <3>2. MapsNode(s, x, m, m + 1)
      BY <1>1, <2>1, <2>3, <3>1, TextMaps
    <3>3. now \in Seq(StackItem)
      BY <2>5 DEF Safe
    <3>4. Outcome(s, v, now, x, m + 1)
      BY <2>1, <2>8, <3>2, <3>3, GoodStep
    <3>5. GoodStack(s, v, Checked(now, x), m + 1) \/ BadStack(Checked(now, x))
      BY <2>4, <3>4 DEF Outcome
    <3> QED
      BY <2>1, <2>4, <2>6, <3>5
  <2> QED
    BY <2>5, <2>7, <2>8
<1> HIDE DEF T
<1>5. \A m \in 0 .. N : m \in T
  BY <1>3, <1>4, Climb
<1>6. n \in T
  BY <1>2, <1>5
<1> QED
  BY <1>1, <1>6 DEF T

\* What check_expression accepts means something, whatever the fields hold.
LEMMA ExpressionMeans ==
  ASSUME NEW e \in Seq(Node), Signed(e), CheckExpression(e), NEW v
  PROVE  Meanings(AsText(e), v) # {} /\ ~Doomed(AsText(e))
<1>1. PICK s \in Seq(Lexeme) : s = AsText(e) /\ Len(s) = Len(e)
  BY TextAt
<1>2. Len(e) \in 0 .. Len(e)
  OBVIOUS
<1>3. CheckAt(e, Len(e)) = <<"digit">>
  BY FirstEnds
<1>4. ~BadStack(<<"digit">>) /\ <<"digit">> \in Seq(StackItem)
  BY DEF BadStack, StackItem
<1>5. GoodStack(s, v, <<"digit">>, Len(s))
  BY <1>1, <1>2, <1>3, <1>4, CheckWay
<1>6. Meanings(s, v) # {} /\ NoDeparture(s, Len(s))
  BY <1>4, <1>5, GoodEnd
<1>7. Sound(s, 1, Len(s))
  BY <1>6, MeaningfulSound
<1> QED
  BY <1>1, <1>6, <1>7 DEF Doomed

\* The fields of an expression are fields.
Known(e) == \A i \in 1 .. Len(e) : e[i].type = "kname" => e[i].v \in Field

\* An expression whose names are as many as its fields has only names of fields.
LEMMA KnowsAll ==
  ASSUME NEW e \in Seq(Node), KnowsFields(e)
  PROVE  Known(e)
<1>1. DOMAIN e = 1 .. Len(e)
  OBVIOUS
<1> QED
  BY <1>1 DEF KnowsFields, OfType, OfField, Known

\* The numbers that are pushed.
LEMMA PushesNumber ==
  ASSUME NEW row \in Row, NEW x \in Node, IsOperand(x), x.type = "kname" => x.v \in Field, NEW d
  PROVE  /\ NumberOf(x, row) \in Num /\ Pushed(d, x, row) = NumberOf(x, row)
         /\ Remains(d, x) = d
<1>1. x.type \in {"kint8", "kname"} /\ x.v \in Int
  BY DEF IsOperand, Node
<1>2. x.type = "kname" => row[x.v] \in Int
  BY DEF Row
<1>3. Pushed(d, x, row) = NumberOf(x, row)
  BY <1>1 DEF Pushed, NumberOf
<1>4. Remains(d, x) = d
  BY <1>1 DEF Remains
<1> QED
  BY <1>1, <1>2, <1>3, <1>4, IntIsNum DEF NumberOf

\* What compute_formula computes, if it comes to its end, is what the text means.
LEMMA ComputesText ==
  ASSUME NEW e \in Seq(Node), Signed(e), CheckExpression(e), Known(e), NEW row \in Row,
         Computing(e, row) # Trapped
  PROVE  Compute(e, row) \in Meanings(AsText(e), row) /\ Compute(e, row) \in Num
<1>1. PICK s \in Seq(Lexeme) : s = AsText(e) /\ Len(s) = Len(e)
  BY TextAt
<1>2. PICK N \in Nat : N = Len(e)
  OBVIOUS
<1>3. ~Doomed(s)
  BY <1>1, ExpressionMeans
<1>4. ComputeAt(e, row, N) # Trapped
  BY <1>2, FirstEnds
<1>5. ASSUME NEW n \in 0 .. N
      PROVE  ComputeAt(e, row, n) # Trapped
  <2> SUFFICES ASSUME ComputeAt(e, row, n) = Trapped PROVE FALSE
    OBVIOUS
  <2> DEFINE T == {m \in 0 .. N : n <= m => ComputeAt(e, row, m) = Trapped}
  <2>1. 0 \in T
    OBVIOUS
  <2>2. ASSUME NEW m \in 0 .. N - 1, m \in T
        PROVE  m + 1 \in T
    <3>1. m + 1 \in 1 .. Len(e) /\ (m + 1) - 1 = m /\ m + 1 \in 0 .. N
      BY <1>2
    <3>2. ComputeAt(e, row, m + 1) = ComputeStepped(ComputeAt(e, row, m), e[m + 1], row)
      BY <3>1, FirstStep
    <3>3. n <= m + 1 => n <= m \/ n = m + 1
      OBVIOUS
    <3> QED
      BY <2>2, <3>1, <3>2, <3>3 DEF ComputeStepped
  <2> HIDE DEF T
  <2>3. \A m \in 0 .. N : m \in T
    BY <2>1, <2>2, Climb
  <2>4. N \in T /\ n <= N
    BY <2>3
  <2> QED
    BY <1>4, <2>4 DEF T
<1> DEFINE T == {m \in 0 .. N : Computed(s, row, ComputeAt(e, row, m), m)}
<1>6. 0 \in T
  BY FirstEnds, ComputedBegin
<1>7. ASSUME NEW m \in 0 .. N - 1, m \in T
      PROVE  m + 1 \in T
  <2>1. m + 1 \in 1 .. Len(e) /\ (m + 1) - 1 = m /\ m + 1 \in 0 .. N /\ m \in 0 .. Len(s)
        /\ m + 1 \in 0 .. Len(s)
    BY <1>1, <1>2
  <2>2. PICK d : d = ComputeAt(e, row, m)
    OBVIOUS
  <2>3. PICK x \in Node : x = e[m + 1]
    BY <2>1
  <2>4. d # Trapped /\ ComputeAt(e, row, m + 1) = ComputeStepped(d, x, row)
        /\ ComputeAt(e, row, m + 1) # Trapped
    BY <1>5, <2>1, <2>2, <2>3, FirstStep
  <2>5. Computed(s, row, d, m)
    BY <1>7, <2>2
  <2>6. x.type = "ksub" => m + 1 > 1
    <3>1. CASE m = 0
      <4>1. CheckAt(e, 0) = <<>> /\ Fits(CheckAt(e, 0), x)
        BY <2>1, <2>3, <3>1, FirstEnds, AllFit
      <4>2. ~IsTop(<<>>, "digit")
        BY DEF IsTop
      <4> QED
        BY <4>1, <4>2 DEF Fits, IsOperand, IsFour, FourTypes
    <3>2. CASE m # 0
      BY <3>2
    <3> QED
      BY <3>1, <3>2
  <2>7. MapsNode(s, x, m, m + 1)
    BY <1>1, <2>1, <2>3, <2>6, TextMaps
  <2>8. IsOperand(x) \/ IsFour(x) \/ x.type \in {"kleft", "kright"}
    BY <1>3, <2>1, <2>7, MayFollow
  <2>9. CASE x.type = "kleft"
    <3>1. ComputeAt(e, row, m + 1) = Append(d, CNode("kleft"))
      BY <2>4, <2>9 DEF ComputeStepped
    <3> QED
      BY <1>3, <2>1, <2>5, <2>7, <2>9, <3>1, Opens
  <2>10. CASE IsFour(x)
    <3>1. ComputeAt(e, row, m + 1) = Append(d, CNode(x.type))
      BY <2>4, <2>10 DEF ComputeStepped
    <3> QED
      BY <1>3, <2>1, <2>5, <2>7, <2>10, <3>1, Operates
  <2>11. CASE x.type = "kright" \/ IsOperand(x)
    <3>1. ~IsFour(x) /\ x.type # "kleft"
      BY <2>11, NodeKinds
    <3>2. ~Traps(d, x, row) /\ ComputeAt(e, row, m + 1) = AfterNumber(d, x, row)
      BY <2>4, <3>1 DEF ComputeStepped
    <3>3. CASE x.type = "kright"
      <4>1. Remains(d, x) = Below(d) /\ Pushed(d, x, row) = Sum(Within(d))
        BY <3>3 DEF Remains, Pushed
      <4>2. ComputeAt(e, row, m + 1) = PushNumber(Below(d), Sum(Within(d)))
        BY <3>2, <4>1 DEF AfterNumber
      <4> QED
        BY <1>3, <2>1, <2>5, <2>7, <3>3, <4>2, Closes
    <3>4. CASE IsOperand(x)
      <4>1. x.type = "kname" => x.v \in Field
        BY <2>1, <2>3 DEF Known
      <4>2. PICK Q \in Num : Q = NumberOf(x, row)
        BY <3>4, <4>1, PushesNumber
      <4>3. Pushed(d, x, row) = Q /\ Remains(d, x) = d
        BY <3>4, <4>1, <4>2, PushesNumber
      <4>4. ~PushUndefined(d, Q) /\ ComputeAt(e, row, m + 1) = PushNumber(d, Q)
        BY <3>2, <4>3 DEF Traps, AfterNumber
      <4>5. Computed(s, row, PushNumber(d, Q), m + 1)
        BY <1>3, <2>1, <2>5, <2>7, <3>4, <4>2, <4>4, PushesOperand
      <4> QED
        BY <2>1, <4>4, <4>5
    <3> QED
      BY <2>11, <3>3, <3>4
  <2> QED
    BY <2>8, <2>9, <2>10, <2>11
<1> HIDE DEF T
<1>8. \A m \in 0 .. N : m \in T
  BY <1>6, <1>7, Climb
<1>9. N \in T
  BY <1>8
<1>10. PICK d : d = Computing(e, row)
  OBVIOUS
<1>11. Computed(s, row, d, Len(s))
  BY <1>1, <1>2, <1>9, <1>10, FirstEnds DEF T
<1>12. (\E m \in Meanings(s, row) : Sum(d) = m) /\ Sum(d) \in Num
  BY <1>3, <1>11, ComputedEnd
<1> QED
  BY <1>1, <1>10, <1>12 DEF Compute

\* So it is the number by which a comparison is defined.
LEMMA ComputesNumber ==
  ASSUME NEW e \in Seq(Node), Signed(e), CheckExpression(e), Known(e), NEW row \in Row,
         Computing(e, row) # Trapped
  PROVE  Number1(e, row) = Compute(e, row) /\ Compute(e, row) \in Num
<1>1. PICK s \in Seq(Lexeme) : s = AsText(e)
  BY TextAt
<1>2. PICK M : M = Meanings(s, row)
  OBVIOUS
<1>3. Compute(e, row) \in M /\ Compute(e, row) \in Num
  BY <1>1, <1>2, ComputesText
<1>4. PICK c : c = CHOOSE n \in M : TRUE
  OBVIOUS
<1>5. c \in M
  BY <1>3, <1>4
<1>6. c = Compute(e, row)
  BY <1>2, <1>3, <1>5, OneMeaning
<1> QED
  BY <1>1, <1>2, <1>3, <1>4, <1>6 DEF Number1

-----------------------------------------------------------------------------
(* The brackets that are open at a place of a condition. *)

\* The brackets open behind n nodes.
Opened(c, n) == Open(SubSeq(c, 1, n))

\* One node more.
LEMMA OpenAppend ==
  ASSUME NEW S, NEW s \in Seq(S), NEW x \in S
  PROVE  Open(s) \in Int /\ Open(Append(s, x)) = Open(s) + Delta(x.type)
<1>1. /\ Count(s, "kleft") \in Nat /\ Count(s, "kright") \in Nat
      /\ Count(Append(s, x), "kleft") = Count(s, "kleft") + (IF x.type = "kleft" THEN 1 ELSE 0)
      /\ Count(Append(s, x), "kright") = Count(s, "kright") + (IF x.type = "kright" THEN 1 ELSE 0)
  BY CountAppend
<1> QED
  BY <1>1 DEF Open, Delta

\* No node.
LEMMA OpenNothing ==
  Open(<<>>) = 0
<1>1. \A t : {i \in DOMAIN <<>> : <<>>[i].type = t} = {}
  OBVIOUS
<1>2. \A t : Count(<<>>, t) = 0
  BY <1>1, FS_EmptySet DEF Count
<1> QED
  BY <1>2 DEF Open

\* A part has the brackets that are open behind it and were not before it.
LEMMA OpenPart ==
  ASSUME NEW S, NEW c \in Seq(S), NEW a \in 1 .. Len(c) + 1, NEW b \in a - 1 .. Len(c)
  PROVE  /\ Open(SubSeq(c, a, b)) = Opened(c, b) - Opened(c, a - 1)
         /\ Opened(c, b) \in Int /\ Opened(c, a - 1) \in Int
<1>1. PICK N \in Nat : N = Len(c)
  OBVIOUS
<1>2. ASSUME NEW d \in 1 .. N + 1, NEW n \in d .. N
      PROVE  /\ Open(SubSeq(c, d, n - 1)) \in Int
             /\ Open(SubSeq(c, d, n)) = Open(SubSeq(c, d, n - 1)) + Delta(c[n].type)
  <2>1. SubSeq(c, d, n - 1) \in Seq(S) /\ c[n] \in S
        /\ SubSeq(c, d, n) = Append(SubSeq(c, d, n - 1), c[n])
    BY <1>1
  <2>2. PICK s \in Seq(S) : s = SubSeq(c, d, n - 1)
    BY <2>1
  <2> QED
    BY <2>1, <2>2, OpenAppend
<1>3. ASSUME NEW d \in 1 .. N + 1
      PROVE  Open(SubSeq(c, d, d - 1)) = 0
  <2>1. SubSeq(c, d, d - 1) = <<>>
    BY <1>1
  <2> QED
    BY <2>1, OpenNothing
<1> DEFINE T == {m \in 0 .. N : \A d \in 1 .. m + 1 :
                   /\ Open(SubSeq(c, d, m)) = Opened(c, m) - Opened(c, d - 1)
                   /\ Opened(c, m) \in Int}
<1>4. 0 \in T
  <2>1. ASSUME NEW d \in 1 .. 0 + 1
        PROVE  Open(SubSeq(c, d, 0)) = Opened(c, 0) - Opened(c, d - 1) /\ Opened(c, 0) \in Int
    <3>1. d = 1 /\ d - 1 = 0 /\ d \in 1 .. N + 1
      OBVIOUS
    <3>2. Open(SubSeq(c, d, 0)) = 0 /\ Opened(c, 0) = 0
      BY <1>3, <3>1 DEF Opened
    <3> QED
      BY <3>1, <3>2
  <2> QED
    BY <2>1
<1>5. ASSUME NEW m \in 0 .. N - 1, m \in T
      PROVE  m + 1 \in T
  <2>1. 1 \in 1 .. N + 1 /\ m + 1 \in 1 .. N /\ (m + 1) - 1 = m /\ 1 \in 1 .. m + 1
    OBVIOUS
  <2>2. Opened(c, m) \in Int
    BY <1>5, <2>1
  <2>3. Opened(c, m + 1) = Opened(c, m) + Delta(c[m + 1].type)
    BY <1>2, <2>1 DEF Opened
  <2>4. Delta(c[m + 1].type) \in Int
    BY DEF Delta
  <2>5. ASSUME NEW d \in 1 .. (m + 1) + 1
        PROVE  Open(SubSeq(c, d, m + 1)) = Opened(c, m + 1) - Opened(c, d - 1)
    <3>1. CASE d = m + 2
      <4>1. d - 1 = m + 1 /\ d \in 1 .. N + 1
        BY <3>1
      <4>2. Open(SubSeq(c, d, m + 1)) = 0
        BY <1>3, <4>1
      <4>3. Opened(c, m + 1) \in Int
        BY <2>2, <2>3, <2>4
      <4> QED
        BY <4>1, <4>2, <4>3
    <3>2. CASE d # m + 2
      <4>1. d \in 1 .. m + 1 /\ d \in 1 .. N + 1 /\ m + 1 \in d .. N
        BY <3>2
      <4>2. Open(SubSeq(c, d, m)) = Opened(c, m) - Opened(c, d - 1)
        BY <1>5, <4>1
      <4>3. Open(SubSeq(c, d, m)) \in Int
            /\ Open(SubSeq(c, d, m + 1)) = Open(SubSeq(c, d, m)) + Delta(c[m + 1].type)
        BY <1>2, <2>1, <4>1
      <4>4. Opened(c, d - 1) \in Int
        <5>1. CASE d - 1 = m
          BY <2>2, <5>1
        <5>2. CASE d - 1 # m
          <6>1. d - 1 = 0 \/ d - 1 \in 1 .. m - 1
            BY <4>1, <5>2
          <6>2. Opened(c, 0) = 0
            BY <1>3, <2>1 DEF Opened
          <6>3. d - 1 \in 1 .. m - 1 =>
                  1 \in 1 .. N + 1 /\ (d - 1) + 1 \in 1 .. N /\ ((d - 1) + 1) - 1 = d - 1
            OBVIOUS
          <6>4. d - 1 \in 1 .. m - 1 => Opened(c, d - 1) \in Int
            BY <1>2, <6>3 DEF Opened
          <6> QED
            BY <6>1, <6>2, <6>4
        <5> QED
          BY <5>1, <5>2
      <4> QED
        BY <2>2, <2>3, <2>4, <4>2, <4>3, <4>4
    <3> QED
      BY <3>1, <3>2
  <2> QED
    BY <2>1, <2>2, <2>3, <2>4, <2>5
<1> HIDE DEF T
<1>6. \A m \in 0 .. N : m \in T
  BY <1>4, <1>5, Climb
<1>7. b \in 0 .. N /\ a \in 1 .. b + 1 /\ 1 \in 1 .. b + 1 /\ a - 1 \in 0 .. N /\ 1 \in 1 .. (a - 1) + 1
  BY <1>1
<1>8. b \in T /\ a - 1 \in T
  BY <1>6, <1>7
<1> QED
  BY <1>7, <1>8 DEF T

\* So one node more.
LEMMA OpenedStep ==
  ASSUME NEW S, NEW c \in Seq(S), NEW n \in 1 .. Len(c)
  PROVE  /\ Opened(c, n) \in Int /\ Opened(c, n - 1) \in Int
         /\ Opened(c, n) = Opened(c, n - 1) + Delta(c[n].type)
<1>1. SubSeq(c, 1, n - 1) \in Seq(S) /\ c[n] \in S
      /\ SubSeq(c, 1, n) = Append(SubSeq(c, 1, n - 1), c[n])
  BY PrefixStep
<1>2. PICK s \in Seq(S) : s = SubSeq(c, 1, n - 1)
  BY <1>1
<1>3. Open(s) \in Int /\ Open(Append(s, c[n])) = Open(s) + Delta(c[n].type)
  BY <1>1, <1>2, OpenAppend
<1>4. Delta(c[n].type) \in Int
  BY DEF Delta
<1>5. Opened(c, n - 1) = Open(s) /\ Opened(c, n) = Open(s) + Delta(c[n].type)
  BY <1>1, <1>2, <1>3 DEF Opened
<1> QED
  BY <1>3, <1>4, <1>5

\* Balanced is that nothing is left open.
LEMMA BalancedPart ==
  ASSUME NEW S, NEW c \in Seq(S), NEW a \in 1 .. Len(c) + 1, NEW b \in a - 1 .. Len(c)
  PROVE  Balanced(SubSeq(c, a, b)) <=> Opened(c, b) = Opened(c, a - 1)
<1>0. SubSeq(c, a, b) \in Seq(S)
  <2>1. Len(c) \in Nat /\ \A i \in a .. b : i \in 1 .. Len(c)
    OBVIOUS
  <2> QED
    BY <2>1
<1>1. PICK s \in Seq(S) : s = SubSeq(c, a, b)
  BY <1>0
<1>2. \A t : Count(s, t) \in Nat
  <2> SUFFICES ASSUME NEW t PROVE Count(s, t) \in Nat
    OBVIOUS
  <2>1. DOMAIN s = 1 .. Len(s) /\ Len(s) \in Nat
    OBVIOUS
  <2>2. {i \in DOMAIN s : s[i].type = t} \in SUBSET (1 .. Len(s))
    BY <2>1
  <2> QED
    BY <2>1, <2>2, PlusOne DEF Count
<1>3. Open(s) = Opened(c, b) - Opened(c, a - 1) /\ Opened(c, b) \in Int /\ Opened(c, a - 1) \in Int
  BY <1>1, OpenPart
<1> QED
  BY <1>1, <1>2, <1>3 DEF Balanced, Open

-----------------------------------------------------------------------------
(* The sides of a comparison, as parts of a condition. *)

\* A node that neither joins nor compares.
Within1(x) == x.type \notin Joins /\ ~IsComparison(x)

\* A part without comparisons and joins, in which no bracket is closed that was not
\* opened there, nor left open.
Quiet(c, a, b) ==
  /\ a \in 1 .. Len(c) /\ b \in a .. Len(c)
  /\ \A m \in a .. b : Within1(c[m]) /\ Opened(c, m) >= Opened(c, a - 1)
  /\ Opened(c, b) = Opened(c, a - 1)

\* Parts of a condition have its signs.
LEMMA PartSigned ==
  ASSUME NEW c \in Condition, NEW a \in 1 .. Len(c) + 1, NEW b \in a - 1 .. Len(c)
  PROVE  /\ SubSeq(c, a, b) \in Seq(Node) /\ Len(SubSeq(c, a, b)) = b - (a - 1)
         /\ \A i \in 1 .. b - (a - 1) : SubSeq(c, a, b)[i] = c[(a - 1) + i]
         /\ Signed(SubSeq(c, a, b))
<1>1. c \in Seq(Node) /\ Len(c) \in Nat
  BY DEF Condition
<1>2. PICK N \in Nat : N = Len(c)
  BY <1>1
<1>3. \A i \in a .. b : i \in 1 .. N
  BY <1>2
<1>4. /\ SubSeq(c, a, b) \in Seq(Node) /\ Len(SubSeq(c, a, b)) = b - (a - 1)
      /\ \A i \in 1 .. b - (a - 1) : SubSeq(c, a, b)[i] = c[(a - 1) + i]
  <2>1. b - a + 1 = b - (a - 1) /\ b - (a - 1) \in Nat
    BY <1>2
  <2>2. \A i \in 1 .. b - (a - 1) : a + i - 1 = (a - 1) + i
    BY <1>2
  <2> QED
    BY <1>1, <1>2, <1>3, <2>1, <2>2
<1>5. ASSUME NEW i \in 2 .. b - (a - 1), c[(a - 1) + i].type = "ksub"
      PROVE  c[(a - 1) + (i - 1)].type \in {"kname", "kright"}
  <2>1. PICK n \in 2 .. N : n = (a - 1) + i
    BY <1>2
  <2>2. n \in DOMAIN c
    BY <1>1, <1>2, <2>1
  <2>3. IsMinus(SubSeq(c, 1, n - 1))
    BY <1>5, <2>1, <2>2 DEF Condition
  <2>4. Len(SubSeq(c, 1, n - 1)) = n - 1 /\ SubSeq(c, 1, n - 1)[n - 1] = c[n - 1]
    BY <1>1, <1>2, <2>1
  <2>5. Last(SubSeq(c, 1, n - 1)) = c[n - 1]
    BY <2>4 DEF Last
  <2>6. c[n - 1].type \in {"kname", "kright"}
    BY <2>3, <2>5 DEF IsMinus, EndsWith
  <2>7. n - 1 = (a - 1) + (i - 1)
    BY <1>2, <2>1
  <2> QED
    BY <2>6, <2>7
<1>6. Signed(SubSeq(c, a, b))
  <2>1. PICK e \in Seq(Node) : e = SubSeq(c, a, b) /\ Len(e) = b - (a - 1)
    BY <1>4
  <2>2. ASSUME NEW i \in 2 .. Len(e), e[i].type = "ksub"
        PROVE  e[i - 1].type \in {"kname", "kright"}
    <3>1. i \in 1 .. b - (a - 1) /\ i - 1 \in 1 .. b - (a - 1) /\ i \in 2 .. b - (a - 1)
      BY <1>2, <2>1
    <3>2. e[i] = c[(a - 1) + i] /\ e[i - 1] = c[(a - 1) + (i - 1)]
      BY <1>4, <2>1, <3>1
    <3> QED
      BY <1>5, <2>2, <3>1, <3>2
  <2>3. Signed(e)
    BY <2>2 DEF Signed
  <2> QED
    BY <2>1, <2>3
<1> QED
  BY <1>4, <1>6

\* The nodes that check_expression lets pass.
LEMMA ExpressionNodes ==
  ASSUME NEW e \in Seq(Node), CheckExpression(e)
  PROVE  /\ Len(e) # 0
         /\ \A n \in 1 .. Len(e) : IsOperand(e[n]) \/ IsFour(e[n]) \/ e[n].type \in {"kleft", "kright"}
<1>1. Len(e) # 0
  <2> SUFFICES ASSUME Len(e) = 0 PROVE FALSE
    OBVIOUS
  <2>1. CheckAt(e, 0) = <<>> /\ CheckAt(e, 0) = <<"digit">>
    BY FirstEnds
  <2>2. Len(<<"digit">>) = 1
    OBVIOUS
  <2> QED
    BY <2>1, <2>2
<1>2. ASSUME NEW n \in 1 .. Len(e)
      PROVE  IsOperand(e[n]) \/ IsFour(e[n]) \/ e[n].type \in {"kleft", "kright"}
  <2>1. Fits(CheckAt(e, n - 1), e[n])
    BY AllFit
  <2> QED
    BY <2>1 DEF Fits
<1> QED
  BY <1>1, <1>2

\* None of them joins or compares.
LEMMA ExpressionWithin ==
  ASSUME NEW x, IsOperand(x) \/ IsFour(x) \/ x.type \in {"kleft", "kright", "kchar"}
  PROVE  Within1(x)
BY DEF IsOperand, IsFour, FourTypes, Within1, Joins, IsComparison, CompareTypes, LikeTypes

\* What check_expression accepts is quiet.
LEMMA ExpressionQuiet ==
  ASSUME NEW c \in Condition, NEW a \in 1 .. Len(c) + 1, NEW b \in a - 1 .. Len(c),
         CheckExpression(SubSeq(c, a, b))
  PROVE  Quiet(c, a, b)
<1>1. c \in Seq(Node) /\ Len(c) \in Nat
  BY DEF Condition
<1>2. PICK N \in Nat : N = Len(c)
  BY <1>1
<1>3. PICK e \in Seq(Node) : /\ e = SubSeq(c, a, b) /\ Len(e) = b - (a - 1) /\ Signed(e)
                             /\ \A i \in 1 .. b - (a - 1) : e[i] = c[(a - 1) + i]
  BY PartSigned
<1>4. PICK M \in Nat : M = Len(e) /\ b = (a - 1) + M
  BY <1>2, <1>3
<1>5. M # 0
  BY <1>3, <1>4, ExpressionNodes
<1>6. PICK s \in Seq(Lexeme) : /\ s = AsText(e) /\ Len(s) = M
                               /\ \A i \in 1 .. M : s[i] = IF e[i].type = "ksub" THEN Token("minus") ELSE e[i]
  BY <1>4, TextAt
<1>7. PICK h : Nested(s, h, 1, M)
  <2>1. ~Doomed(s)
    BY <1>3, <1>6, ExpressionMeans
  <2>2. Sound(s, 1, M)
    BY <1>6, <2>1 DEF Doomed
  <2> QED
    BY <2>2 DEF Sound
<1> DEFINE T == {m \in 0 .. M : Opened(c, (a - 1) + m) = Opened(c, a - 1) + h[m]}
<1>8. h[0] = 0 /\ h[M] = 0 /\ \A m \in 0 .. M : h[m] \in Nat
  BY <1>7 DEF Nested
<1>9. a - 1 \in 0 .. N /\ Opened(c, a - 1) \in Int
  <2>1. a - 1 \in a - 1 .. Len(c)
    BY <1>2
  <2> QED
    BY <1>1, <1>2, <2>1, OpenPart
<1>10. 0 \in T
  BY <1>8, <1>9
<1>11. ASSUME NEW m \in 0 .. M - 1, m \in T
       PROVE  m + 1 \in T
  <2>1. PICK n \in 1 .. N : n = (a - 1) + (m + 1)
    BY <1>2, <1>4
  <2>2. n - 1 = (a - 1) + m /\ m + 1 \in 1 .. M /\ (m + 1) - 1 = m
    BY <2>1, <1>2
  <2>3. Opened(c, n) = Opened(c, n - 1) + Delta(c[n].type)
    BY <1>1, <1>2, <2>1, OpenedStep
  <2>4. h[m + 1] = h[m] + Delta(s[m + 1].type)
    BY <1>7, <2>2 DEF Nested
  <2>5. e[m + 1] = c[n]
    BY <1>3, <1>4, <2>1, <2>2
  <2>6. Delta(s[m + 1].type) = Delta(c[n].type)
    <3>1. s[m + 1] = IF c[n].type = "ksub" THEN Token("minus") ELSE c[n]
      BY <1>6, <2>2, <2>5
    <3>2. Delta("minus") = 0 /\ Delta("ksub") = 0 /\ Token("minus").type = "minus"
      BY DEF Token, Delta
    <3> QED
      BY <3>1, <3>2
  <2>7. Opened(c, n - 1) = Opened(c, a - 1) + h[m] /\ h[m] \in Nat /\ Delta(c[n].type) \in Int
    BY <1>8, <1>11, <2>2 DEF Delta
  <2> QED
    BY <1>9, <2>1, <2>2, <2>3, <2>4, <2>6, <2>7
<1> HIDE DEF T
<1>12. \A m \in 0 .. M : m \in T
  BY <1>10, <1>11, Climb
<1>13. ASSUME NEW m \in a .. b
       PROVE  Within1(c[m]) /\ Opened(c, m) >= Opened(c, a - 1)
  <2>1. PICK k \in 1 .. M : m = (a - 1) + k
    <3>1. m - (a - 1) \in 1 .. M /\ m = (a - 1) + (m - (a - 1))
      BY <1>2, <1>4
    <3> QED
      BY <3>1
  <2>2. IsOperand(e[k]) \/ IsFour(e[k]) \/ e[k].type \in {"kleft", "kright"}
    BY <1>3, <1>4, <2>1, ExpressionNodes
  <2>3. e[k] = c[m]
    BY <1>3, <1>4, <2>1
  <2>4. Within1(c[m])
    BY <2>2, <2>3, ExpressionWithin
  <2>5. k \in T
    BY <1>12, <2>1
  <2>6. Opened(c, m) = Opened(c, a - 1) + h[k] /\ h[k] \in Nat
    BY <1>8, <2>1, <2>5 DEF T
  <2> QED
    BY <1>9, <2>4, <2>6
<1>14. Opened(c, b) = Opened(c, a - 1)
  <2>1. M \in T
    BY <1>12
  <2> QED
    BY <1>4, <1>8, <1>9, <2>1 DEF T
<1>15. a \in 1 .. Len(c) /\ b \in a .. Len(c)
  BY <1>2, <1>4, <1>5
<1> QED
  BY <1>13, <1>14, <1>15 DEF Quiet

\* A single node of an expression is quiet.
LEMMA OneQuiet ==
  ASSUME NEW c \in Condition, NEW a \in 1 .. Len(c), c[a].type \in {"kname", "kchar"}
  PROVE  Quiet(c, a, a)
<1>1. c \in Seq(Node) /\ Len(c) \in Nat
  BY DEF Condition
<1>2. /\ Opened(c, a) \in Int /\ Opened(c, a - 1) \in Int
      /\ Opened(c, a) = Opened(c, a - 1) + Delta(c[a].type)
  BY <1>1, OpenedStep
<1>3. Delta(c[a].type) = 0
  BY DEF Delta
<1>4. Within1(c[a])
  BY ExpressionWithin DEF IsOperand
<1>5. \A m \in a .. a : m = a
  OBVIOUS
<1>6. Opened(c, a) = Opened(c, a - 1) /\ Opened(c, a) >= Opened(c, a - 1)
  BY <1>2, <1>3
<1> QED
  BY <1>1, <1>4, <1>5, <1>6 DEF Quiet

\* The sides of a comparison that passes check_logical.
LEMMA SidesQuiet ==
  ASSUME NEW c \in Condition, NEW i \in 1 .. Len(c), NEW k \in i .. Len(c), NEW j \in k .. Len(c),
         ComparisonFits(Comparison(c, i, k, j))
  PROVE  Quiet(c, i, k - 1) /\ Quiet(c, k + 1, j)
<1>1. c \in Seq(Node) /\ Len(c) \in Nat
  BY DEF Condition
<1>2. PICK N \in Nat : N = Len(c)
  BY <1>1
<1>3. /\ i \in 1 .. Len(c) + 1 /\ k - 1 \in i - 1 .. Len(c)
      /\ k + 1 \in 1 .. Len(c) + 1 /\ j \in (k + 1) - 1 .. Len(c)
  BY <1>2
<1> DEFINE x == Comparison(c, i, k, j)
<1>4. x.left = SubSeq(c, i, k - 1) /\ x.right = SubSeq(c, k + 1, j)
  BY DEF Comparison, LogicalNode
<1> HIDE DEF x
<1>5. CASE CheckExpression(x.left) /\ CheckExpression(x.right)
  BY <1>3, <1>4, <1>5, ExpressionQuiet
<1>6. CASE IsOne(x.left, "kname") /\ IsOne(x.right, "kchar")
  <2>1. /\ Len(x.left) = (k - 1) - (i - 1) /\ Len(x.right) = j - ((k + 1) - 1)
        /\ \A n \in 1 .. (k - 1) - (i - 1) : x.left[n] = c[(i - 1) + n]
        /\ \A n \in 1 .. j - ((k + 1) - 1) : x.right[n] = c[((k + 1) - 1) + n]
    BY <1>3, <1>4, PartSigned
  <2>2. /\ Len(x.left) = 1 /\ Len(x.right) = 1
        /\ x.left[1].type = "kname" /\ x.right[1].type = "kchar"
    BY <1>6 DEF IsOne
  <2>3. k - 1 = i /\ j = k + 1 /\ i = (i - 1) + 1 /\ k + 1 = ((k + 1) - 1) + 1
    <3>1. (k - 1) - (i - 1) = 1 /\ j - ((k + 1) - 1) = 1
      BY <2>1, <2>2
    <3>2. i \in Int /\ j \in Int /\ k \in Int
      BY <1>2
    <3> HIDE DEF x
    <3> QED
      BY ONLY <3>1, <3>2
  <2>4. c[i] = x.left[1] /\ c[k + 1] = x.right[1]
    BY <2>1, <2>2, <2>3
  <2>5. i \in 1 .. Len(c) /\ k + 1 \in 1 .. Len(c)
    BY <1>2, <2>3
  <2>6. Quiet(c, i, i) /\ Quiet(c, k + 1, k + 1)
    BY <2>2, <2>4, <2>5, OneQuiet
  <2> QED
    BY <2>3, <2>6
<1> QED
  BY <1>5, <1>6 DEF ComparisonFits, x

-----------------------------------------------------------------------------
(* Where a comparison of a condition begins and ends. *)

\* What RightEnd is for condition c.
Rgt(c, start) ==
  LET ends == {i \in start .. Len(c) :
        \/ c[i].type \in Joins
        \/ c[i].type = "kright" /\ Balanced(SubSeq(c, start, i - 1))}
  IN IF ends = {} THEN Len(c) + 1 ELSE Min(ends)

\* A part of a part.
LEMMA PartOfPart ==
  ASSUME NEW S, NEW c \in Seq(S), NEW a \in 1 .. Len(c) + 1, NEW b \in a - 1 .. Len(c),
         NEW m \in 1 .. b - (a - 1) + 1
  PROVE  SubSeq(SubSeq(c, a, b), m, b - (a - 1)) = SubSeq(c, (a - 1) + m, b)
<1>1. PICK N \in Nat : N = Len(c)
  OBVIOUS
<1>2. \A i \in a .. b : i \in 1 .. N /\ c[i] \in S
  BY <1>1
<1>3. PICK L \in Nat : L = b - (a - 1)
  BY <1>1
<1>4. PICK s \in Seq(S) : /\ s = SubSeq(c, a, b) /\ Len(s) = L
                          /\ \A i \in 1 .. L : s[i] = c[(a - 1) + i]
  <2>1. b - a + 1 = L /\ \A i \in 1 .. L : a + i - 1 = (a - 1) + i
    BY <1>1, <1>3
  <2>2. /\ SubSeq(c, a, b) \in Seq(S) /\ Len(SubSeq(c, a, b)) = L
        /\ \A i \in 1 .. L : SubSeq(c, a, b)[i] = c[(a - 1) + i]
    BY <1>2, <2>1, <1>3
  <2> QED
    BY <2>2
<1>5. PICK d \in Int : d = (a - 1) + m
  BY <1>1
<1>6. L - m + 1 = b - d + 1 /\ L - m + 1 \in Nat /\ d \in 1 .. N + 1
  BY <1>1, <1>3, <1>5
<1>7. PICK K \in Nat : K = L - m + 1
  BY <1>6
<1>8. /\ SubSeq(s, m, L) \in Seq(S) /\ Len(SubSeq(s, m, L)) = K
      /\ \A i \in 1 .. K : SubSeq(s, m, L)[i] = s[(m + i) - 1]
  <2>1. \A i \in m .. L : s[i] \in S
    BY <1>4
  <2>2. SubSeq(s, m, L) \in Seq(S)
    BY <2>1
  <2>3. Len(SubSeq(s, m, L)) = IF m <= L THEN L - m + 1 ELSE 0
    BY <1>3
  <2>4. Len(SubSeq(s, m, L)) = K
    BY <1>3, <1>7, <2>3
  <2>5. \A i \in 1 .. L - m + 1 : SubSeq(s, m, L)[i] = s[(m + i) - 1]
    BY <1>3
  <2> QED
    BY <1>7, <2>2, <2>4, <2>5
<1>9. /\ SubSeq(c, d, b) \in Seq(S) /\ Len(SubSeq(c, d, b)) = K
      /\ \A i \in 1 .. K : SubSeq(c, d, b)[i] = c[(d + i) - 1]
  <2>1. \A i \in d .. b : i \in 1 .. Len(c) /\ c[i] \in S
    BY <1>1, <1>2, <1>6, <1>5
  <2> QED
    BY <1>1, <1>6, <1>7, <2>1
<1>10. ASSUME NEW i \in 1 .. K
       PROVE  SubSeq(s, m, L)[i] = SubSeq(c, d, b)[i]
  <2>1. (m + i) - 1 \in 1 .. L /\ (a - 1) + ((m + i) - 1) = (d + i) - 1
    BY <1>3, <1>5, <1>7
  <2>2. s[(m + i) - 1] = c[(d + i) - 1]
    BY <1>4, <2>1
  <2> QED
    BY <1>8, <1>9, <2>2
<1>11. SubSeq(s, m, L) = SubSeq(c, d, b)
  <2>1. PICK u \in Seq(S) : u = SubSeq(s, m, L) /\ Len(u) = K
    BY <1>8
  <2>2. PICK v \in Seq(S) : v = SubSeq(c, d, b) /\ Len(v) = K
    BY <1>9
  <2>3. \A i \in 1 .. Len(u) : u[i] = v[i]
    BY <1>10, <2>1, <2>2
  <2>4. Len(u) = Len(v)
    BY <2>1, <2>2
  <2>5. u = v
    BY <2>3, <2>4, SeqEqual
  <2> QED
    BY <2>1, <2>2, <2>5
<1> QED
  BY <1>3, <1>4, <1>5, <1>11

\* The nodes of a part.
LEMMA PartNodes ==
  ASSUME NEW S, NEW c \in Seq(S), NEW a \in 1 .. Len(c) + 1, NEW b \in a - 1 .. Len(c)
  PROVE  /\ SubSeq(c, a, b) \in Seq(S) /\ Len(SubSeq(c, a, b)) = b - (a - 1)
         /\ \A i \in 1 .. b - (a - 1) : SubSeq(c, a, b)[i] = c[(a - 1) + i]
<1>1. PICK N \in Nat : N = Len(c)
  OBVIOUS
<1>2. \A i \in a .. b : i \in 1 .. N /\ c[i] \in S
  BY <1>1
<1>3. b - a + 1 = b - (a - 1) /\ \A i \in 1 .. b - (a - 1) : a + i - 1 = (a - 1) + i
  BY <1>1
<1> QED
  BY <1>2, <1>3

\* make_right_expression finds the end of a quiet part.
LEMMA RightIs ==
  ASSUME NEW c \in Condition, NEW a \in 1 .. Len(c), NEW j \in a .. Len(c), Quiet(c, a, j),
         j = Len(c) \/ c[j + 1].type \in Joins \cup {"kright"}
  PROVE  Rgt(c, a) = j + 1
<1>0. c \in Seq(Node) /\ Len(c) \in Nat
  BY DEF Condition
<1>1. PICK N \in Nat : N = Len(c)
  BY <1>0
<1> DEFINE ends == {i \in a .. Len(c) :
        \/ c[i].type \in Joins
        \/ c[i].type = "kright" /\ Balanced(SubSeq(c, a, i - 1))}
<1>2. Rgt(c, a) = IF ends = {} THEN Len(c) + 1 ELSE Min(ends)
  BY DEF Rgt
<1>3. ASSUME NEW i \in a .. j, i \in ends
      PROVE  FALSE
  <2>1. Within1(c[i]) /\ Opened(c, i) >= Opened(c, a - 1)
    BY DEF Quiet
  <2>2. c[i].type = "kright" /\ Balanced(SubSeq(c, a, i - 1))
    BY <1>3, <2>1 DEF Within1
  <2>3. a \in 1 .. Len(c) + 1 /\ i - 1 \in a - 1 .. Len(c) /\ i \in 1 .. Len(c)
    BY <1>1
  <2>4. Opened(c, i - 1) = Opened(c, a - 1)
    BY <1>0, <2>2, <2>3, BalancedPart
  <2>5. /\ Opened(c, i) \in Int /\ Opened(c, i - 1) \in Int
        /\ Opened(c, i) = Opened(c, i - 1) + Delta(c[i].type)
    BY <1>0, <2>3, OpenedStep
  <2>6. Delta(c[i].type) = 0 - 1
    BY <2>2 DEF Delta
  <2> QED
    BY <2>1, <2>4, <2>5, <2>6
<1>4. CASE j = N
  <2>1. ends = {}
    BY <1>1, <1>3, <1>4
  <2> QED
    BY <1>1, <1>2, <1>4, <2>1
<1>5. CASE j # N
  <2>1. j + 1 \in a .. N /\ (j + 1) - 1 = j
    BY <1>1, <1>5
  <2>2. Balanced(SubSeq(c, a, j))
    <3>1. a \in 1 .. Len(c) + 1 /\ j \in a - 1 .. Len(c)
      BY <1>1
    <3>2. Opened(c, j) = Opened(c, a - 1)
      BY DEF Quiet
    <3> QED
      BY <1>0, <3>1, <3>2, BalancedPart
  <2>3. j + 1 \in ends
    BY <1>1, <1>5, <2>1, <2>2
  <2>4. ends \in SUBSET Nat /\ ends # {}
    BY <1>1, <2>3
  <2> HIDE DEF ends
  <2>5. PICK m : m = Min(ends)
    OBVIOUS
  <2>6. m \in ends /\ m <= j + 1
    BY <2>3, <2>4, <2>5, MinIsIn
  <2>7. m \in a .. N
    BY <1>1, <2>6 DEF ends
  <2>8. ~(m \in a .. j)
    BY <1>3, <2>6
  <2>9. m = j + 1
    BY <1>1, <2>6, <2>7, <2>8
  <2> QED
    BY <1>2, <2>4, <2>5, <2>9
<1> QED
  BY <1>4, <1>5

\* make_left_expression finds its beginning, wherever it begins to look.
LEMMA LeftIs ==
  ASSUME NEW c \in Condition, NEW i \in 1 .. Len(c), NEW k \in i + 1 .. Len(c) + 1,
         Quiet(c, i, k - 1), NEW B \in 0 .. i - 1,
         i - 1 = B \/ c[i - 1].type \in Joins \cup {"kleft"}
  PROVE  LeftEnd(SubSeq(c, B + 1, k - 1)) = (i - 1) - B
<1>0. c \in Seq(Node) /\ Len(c) \in Nat
  BY DEF Condition
<1>1. PICK N \in Nat : N = Len(c)
  BY <1>0
<1>2. B + 1 \in 1 .. Len(c) + 1 /\ k - 1 \in (B + 1) - 1 .. Len(c) /\ (B + 1) - 1 = B
  BY <1>1
<1>3. PICK s \in Seq(Node) : /\ s = SubSeq(c, B + 1, k - 1) /\ Len(s) = (k - 1) - B
                             /\ \A n \in 1 .. (k - 1) - B : s[n] = c[B + n]
  <2>1. PICK b \in 1 .. Len(c) + 1 : b = B + 1 /\ b - 1 = B
    BY <1>2
  <2>2. k - 1 \in b - 1 .. Len(c)
    BY <1>2, <2>1
  <2>3. /\ SubSeq(c, b, k - 1) \in Seq(Node) /\ Len(SubSeq(c, b, k - 1)) = (k - 1) - (b - 1)
        /\ \A n \in 1 .. (k - 1) - (b - 1) : SubSeq(c, b, k - 1)[n] = c[(b - 1) + n]
    BY <1>0, <2>2, PartNodes
  <2> QED
    BY <2>1, <2>3
<1>4. PICK L \in Nat : L = (k - 1) - B /\ L = Len(s)
  BY <1>1, <1>3
<1> DEFINE ends == {n \in DOMAIN s :
        \/ s[n].type \in Joins
        \/ s[n].type = "kleft" /\ Balanced(SubSeq(s, n + 1, Len(s)))}
<1>5. LeftEnd(s) = IF ends = {} THEN 0 ELSE Max(ends)
  BY DEF LeftEnd
<1>6. DOMAIN s = 1 .. L
  BY <1>3, <1>4
<1>7. ASSUME NEW n \in 1 .. L
      PROVE  Balanced(SubSeq(s, n + 1, Len(s))) <=> Opened(c, k - 1) = Opened(c, B + n)
  <2>1. n + 1 \in 1 .. ((k - 1) - ((B + 1) - 1)) + 1 /\ L = (k - 1) - ((B + 1) - 1)
        /\ ((B + 1) - 1) + (n + 1) = (B + n) + 1
    BY <1>1, <1>4
  <2>2. SubSeq(s, n + 1, Len(s)) = SubSeq(c, (B + n) + 1, k - 1)
    BY <1>0, <1>2, <1>3, <1>4, <2>1, PartOfPart
  <2>3. (B + n) + 1 \in 1 .. Len(c) + 1 /\ k - 1 \in ((B + n) + 1) - 1 .. Len(c)
        /\ ((B + n) + 1) - 1 = B + n
    BY <1>1, <1>4
  <2> QED
    BY <1>0, <2>2, <2>3, BalancedPart
<1>8. ASSUME NEW n \in ends, B + n >= i
      PROVE  FALSE
  <2>0. n \in 1 .. L
    BY <1>6
  <2>1. n \in 1 .. L /\ B + n \in i .. k - 1 /\ s[n] = c[B + n]
    <3> HIDE DEF ends
    <3> QED
      BY <1>1, <1>3, <1>4, <1>8, <2>0
  <2>2. PICK m \in i .. k - 1 : m = B + n
    BY <2>1
  <2>3. Within1(c[m])
    BY <2>2 DEF Quiet
  <2>4. c[m].type = "kleft" /\ Opened(c, k - 1) = Opened(c, m)
    BY <1>7, <2>1, <2>2, <2>3 DEF Within1
  <2>5. m \in 1 .. Len(c) /\ Opened(c, k - 1) = Opened(c, i - 1)
    BY <1>1, <2>2 DEF Quiet
  <2>6. /\ Opened(c, m) \in Int /\ Opened(c, m - 1) \in Int
        /\ Opened(c, m) = Opened(c, m - 1) + Delta(c[m].type)
    BY <1>0, <2>5, OpenedStep
  <2>7. Delta(c[m].type) = 1
    BY <2>4 DEF Delta
  <2>8. Opened(c, m - 1) >= Opened(c, i - 1)
    <3>1. CASE m = i
      BY <2>4, <2>5, <2>6, <2>7, <3>1
    <3>2. CASE m # i
      <4>1. m - 1 \in i .. k - 1
        BY <2>2, <3>2
      <4> QED
        BY <4>1 DEF Quiet
    <3> QED
      BY <3>1, <3>2
  <2> QED
    BY <2>4, <2>5, <2>6, <2>7, <2>8
<1>9. CASE i - 1 = B
  <2>1. ASSUME NEW n \in ends
        PROVE  FALSE
    <3>1. B + n >= i
      BY <1>1, <1>6, <1>9
    <3> QED
      BY <1>8, <3>1
  <2>2. ends = {}
    BY <2>1
  <2> QED
    BY <1>3, <1>5, <1>9, <2>2
<1>10. CASE i - 1 # B
  <2>1. PICK o \in 1 .. L : o = (i - 1) - B /\ B + o = i - 1
    <3>1. (i - 1) - B \in 1 .. L /\ B + ((i - 1) - B) = i - 1
      BY <1>1, <1>4, <1>10
    <3> QED
      BY <3>1
  <2>2. s[o] = c[i - 1] /\ c[i - 1].type \in Joins \cup {"kleft"}
    BY <1>3, <1>4, <1>10, <2>1
  <2>3. Opened(c, k - 1) = Opened(c, B + o)
    BY <2>1 DEF Quiet
  <2>4. o \in ends
    BY <1>6, <1>7, <2>2, <2>3
  <2>5. ends \in SUBSET (1 .. L) /\ ends # {}
    BY <1>6, <2>4
  <2> HIDE DEF ends
  <2>6. PICK m : m = Max(ends)
    OBVIOUS
  <2>7. m \in ends /\ m >= o
    BY <2>4, <2>5, <2>6, MaxIsIn
  <2>8. ~(B + m >= i)
    BY <1>8, <2>7
  <2>9. m \in 1 .. L
    BY <2>5, <2>7
  <2>10. m = o
    BY <1>1, <2>1, <2>7, <2>8, <2>9
  <2> QED
    BY <1>3, <1>5, <2>1, <2>5, <2>6, <2>10
<1> QED
  BY <1>9, <1>10

-----------------------------------------------------------------------------
(* What a condition may mean. *)

\* g holds the readings of c that are made in a number of steps.
Reads(g, c, row, N) ==
  g = [n \in 0 .. N |-> IF n = 0 THEN Comparisons(c, row) ELSE g[n - 1] \cup Beyond(c, g[n - 1])]

\* There are such readings for every condition and number of steps.
LEMMA ReadsExist ==
  ASSUME NEW c, NEW row, NEW N \in Nat
  PROVE  \E g : Reads(g, c, row, N)
<1> DEFINE T == {n \in 0 .. N : \E g : Reads(g, c, row, n)}
           F(R) == R \cup Beyond(c, R)
           B == Comparisons(c, row)
<1> HIDE DEF F, B
<1>0. \A g, n : Reads(g, c, row, n) <=> g = [m \in 0 .. n |-> IF m = 0 THEN B ELSE F(g[m - 1])]
  BY DEF F, B, Reads
<1>1. 0 \in T
  <2> DEFINE e == [m \in 0 .. 0 |-> B]
  <2>1. e = [m \in 0 .. 0 |-> IF m = 0 THEN B ELSE F(e[m - 1])]
    OBVIOUS
  <2> HIDE DEF e
  <2>2. Reads(e, c, row, 0)
    BY <1>0, <2>1
  <2>3. 0 \in 0 .. N
    OBVIOUS
  <2> QED
    BY <2>2, <2>3
<1>2. ASSUME NEW n \in 0 .. N - 1, n \in T
      PROVE  n + 1 \in T
  <2>1. PICK g : g = [m \in 0 .. n |-> IF m = 0 THEN B ELSE F(g[m - 1])]
    BY <1>0, <1>2
  <2> DEFINE h == [m \in 0 .. n + 1 |-> IF m <= n THEN g[m] ELSE F(g[m - 1])]
  <2>2. \A m \in 0 .. n : g[m] = IF m = 0 THEN B ELSE F(g[m - 1])
    BY <2>1
  <2>3. ASSUME NEW m \in 0 .. n + 1
        PROVE  h[m] = IF m = 0 THEN B ELSE F(h[m - 1])
    <3>1. m # 0 => m - 1 \in 0 .. n + 1 /\ m - 1 <= n
      OBVIOUS
    <3>2. m # 0 => h[m - 1] = g[m - 1]
      BY <3>1
    <3>3. h[m] = IF m <= n THEN g[m] ELSE F(g[m - 1])
      OBVIOUS
    <3> HIDE DEF h
    <3>4. CASE m <= n
      BY <2>2, <3>2, <3>3, <3>4
    <3>5. CASE ~(m <= n)
      BY <3>2, <3>3, <3>5
    <3> QED
      BY <3>4, <3>5
  <2>4. h = [m \in 0 .. n + 1 |-> h[m]]
    OBVIOUS
  <2> HIDE DEF h
  <2>5. h = [m \in 0 .. n + 1 |-> IF m = 0 THEN B ELSE F(h[m - 1])]
    BY <2>3, <2>4
  <2>6. Reads(h, c, row, n + 1)
    BY <1>0, <2>5
  <2> QED
    BY <2>6
<1> HIDE DEF T
<1>3. \A n \in 0 .. N : n \in T
  BY <1>1, <1>2, Climb
<1> QED
  BY <1>3 DEF T

Read(c, row) == CHOOSE g : Reads(g, c, row, 3 * Len(c))

\* Every step reads what Beyond gives, and forgets nothing.
LEMMA ReadStep ==
  ASSUME NEW S, NEW c \in Seq(S), NEW row
  PROVE  /\ Read(c, row)[0] = Comparisons(c, row)
         /\ \A n \in 0 .. 3 * Len(c) - 1 :
              Read(c, row)[n + 1] = Read(c, row)[n] \cup Beyond(c, Read(c, row)[n])
<1>1. PICK N \in Nat : N = 3 * Len(c)
  OBVIOUS
<1>2. PICK g : g = Read(c, row)
  OBVIOUS
<1>3. Reads(g, c, row, N)
  BY <1>1, <1>2, ReadsExist DEF Read
<1> DEFINE F(R) == R \cup Beyond(c, R)
           B == Comparisons(c, row)
<1> HIDE DEF F, B
<1>4. g = [n \in 0 .. N |-> IF n = 0 THEN B ELSE F(g[n - 1])]
  BY <1>3 DEF Reads, F, B
<1>5. g[0] = B
  BY <1>4
<1>6. ASSUME NEW n \in 0 .. N - 1
      PROVE  g[n + 1] = F(g[n])
  <2>1. n + 1 \in 0 .. N /\ n + 1 # 0 /\ (n + 1) - 1 = n
    OBVIOUS
  <2> QED
    BY <1>4, <2>1
<1> QED
  BY <1>1, <1>2, <1>5, <1>6 DEF F, B

\* A truth is one of those that a reading of the whole has.
WholeOf(c, r) == r.level = 1 /\ r.from = 1 /\ r.to = Len(c)

\* Truths(c, row) are those of the readings made.
LEMMA TruthsRead ==
  ASSUME NEW c, NEW row
  PROVE  Truths(c, row) = {r.number : r \in {r \in Read(c, row)[3 * Len(c)] : WholeOf(c, r)}}
BY DEF Truths, Read, Reads, WholeOf

\* What has been read stays.
LEMMA ReadGrows ==
  ASSUME NEW S, NEW c \in Seq(S), NEW row, NEW n \in 0 .. 3 * Len(c), NEW m \in 0 .. n
  PROVE  Read(c, row)[m] \subseteq Read(c, row)[n]
<1>1. PICK g : g = Read(c, row)
  OBVIOUS
<1> DEFINE T == {k \in 0 .. n : m <= k => g[m] \subseteq g[k]}
<1>2. 0 \in T
  OBVIOUS
<1>3. ASSUME NEW k \in 0 .. n - 1, k \in T
      PROVE  k + 1 \in T
  <2>1. k \in 0 .. 3 * Len(c) - 1
    <3>1. 3 * Len(c) \in Nat
      OBVIOUS
    <3> QED
      BY <3>1
  <2>2. g[k] \subseteq g[k + 1]
    BY <1>1, <2>1, ReadStep
  <2>3. m <= k + 1 => m <= k \/ m = k + 1
    OBVIOUS
  <2>4. m <= k + 1 => g[m] \subseteq g[k + 1]
    BY <1>3, <2>2, <2>3
  <2>5. k + 1 \in 0 .. n
    OBVIOUS
  <2> QED
    BY <2>4, <2>5
<1>4. n \in Nat
  OBVIOUS
<1> HIDE DEF T
<1>5. \A k \in 0 .. n : k \in T
  BY <1>2, <1>3, <1>4, Climb
<1> QED
  BY <1>1, <1>5 DEF T

-----------------------------------------------------------------------------
(* Readings of a condition, and where they may stand. *)

RaisedTo(q, r) == r.level = 0 /\ q = Reading(1, r.from, r.to, r.number)
InBrackets(c, q, r) ==
  /\ r.level = 1 /\ r.from > 1 /\ r.to < Len(c)
  /\ c[r.from - 1].type = "kleft" /\ c[r.to + 1].type = "kright"
  /\ q = Reading(0, r.from - 1, r.to + 1, r.number)
JoinedTo(c, q, l, r) ==
  /\ l.level = 1 /\ r.level = 0 /\ r.from = l.to + 2 /\ c[l.to + 1].type \in Joins
  /\ q = Reading(1, l.from, r.to, Join(c[l.to + 1].type, l.number, r.number))

\* What readings give at once.
LEMMA BeyondKinds ==
  ASSUME NEW c, NEW R, NEW q
  PROVE  q \in Beyond(c, R) <=>
           \/ \E r \in R : RaisedTo(q, r)
           \/ \E r \in R : InBrackets(c, q, r)
           \/ \E l \in R, r \in R : JoinedTo(c, q, l, r)
BY DEF Beyond, RaisedTo, InBrackets, JoinedTo

\* The readings that comparisons have.
OneRead(c, row, q, i, k, j) ==
  /\ i \in 1 .. Len(c) /\ k \in i .. Len(c) /\ j \in k .. Len(c)
  /\ IsComparison(c[k]) /\ IsOneAt(c, i, k, j)
  /\ q = Reading(0, i, j, Means(Comparison(c, i, k, j), row))

\* The readings that Comparisons collects are those of one comparison each.
LEMMA ComparisonRead ==
  ASSUME NEW S, NEW c \in Seq(S), NEW row, NEW q
  PROVE  q \in Comparisons(c, row) <=> \E i, k, j : OneRead(c, row, q, i, k, j)
<1>1. DOMAIN c = 1 .. Len(c) /\ Len(c) \in Nat
  OBVIOUS
<1>2. \A i, k, j : k \in 1 .. Len(c) /\ i \in 1 .. k /\ j \in k .. Len(c) <=>
                   i \in 1 .. Len(c) /\ k \in i .. Len(c) /\ j \in k .. Len(c)
  BY <1>1
<1>3. q \in Comparisons(c, row) <=>
        \E k \in 1 .. Len(c) : \E i \in 1 .. k : \E j \in k .. Len(c) :
          /\ IsComparison(c[k]) /\ IsOneAt(c, i, k, j)
          /\ q = Reading(0, i, j, Means(Comparison(c, i, k, j), row))
  BY <1>1 DEF Comparisons
<1> QED
  BY <1>2, <1>3 DEF OneRead

\* A comparison is true or false.
LEMMA MeansTruth ==
  ASSUME NEW x, IsComparison(x), NEW row
  PROVE  Means(x, row) \in BOOLEAN
<1>1. x.type \in CompareTypes \cup LikeTypes
  BY DEF IsComparison
<1>2. ASSUME NEW o, x.type \in CompareTypes
      PROVE  Answers(x.type, o) \in BOOLEAN
  <2>1. CASE x.type = "keq"
    BY <2>1 DEF Answers
  <2>2. CASE x.type = "kne"
    BY <2>2 DEF Answers
  <2>3. CASE x.type = "kgt"
    BY <2>3 DEF Answers
  <2>4. CASE x.type = "kge"
    BY <2>4 DEF Answers
  <2>5. CASE x.type = "klt"
    BY <2>5 DEF Answers
  <2>6. CASE x.type = "kle"
    BY <2>6 DEF Answers
  <2> QED
    BY <1>2, <2>1, <2>2, <2>3, <2>4, <2>5, <2>6 DEF CompareTypes
<1>3. \A v, s : Matches(v, s) \in BOOLEAN
  BY DEF Matches
<1>4. CASE x.type = "klike" \/ x.type = "knlike"
  <2>1. x.type \notin CompareTypes
    BY <1>4 DEF CompareTypes
  <2>2. PICK v, s : v = Texts[row[x.left[1].v]] /\ s = Stands(x.right[1], row)
    OBVIOUS
  <2>3. x.type = "klike" => Means(x, row) = Matches(v, s)
    BY <2>1, <2>2 DEF Means
  <2>4. x.type = "knlike" => Means(x, row) = ~Matches(v, s)
    BY <2>1, <2>2 DEF Means
  <2> QED
    BY <1>3, <1>4, <2>3, <2>4
<1>5. CASE x.type \in CompareTypes
  <2>1. x.type # "klike" /\ x.type # "knlike"
    BY <1>5 DEF CompareTypes
  <2> QED
    BY <1>2, <1>5, <2>1 DEF Means
<1> QED
  BY <1>1, <1>4, <1>5 DEF LikeTypes

\* What may stand before and behind an operand of a condition.
Ahead(c, i) == i = 1 \/ c[i - 1].type \in Joins \cup {"kleft"}
Behind(c, j) == j = Len(c) \/ c[j + 1].type \in Joins \cup {"kright"}
Placed(c, r) == Ahead(c, r.from) /\ Behind(c, r.to)

InPlace(c, r) ==
  /\ r.level \in 0 .. 1 /\ r.from \in 1 .. Len(c) /\ r.to \in r.from .. Len(c)
  /\ r.number \in BOOLEAN

\* load_logical cuts the comparison at k out of c as from Lft(c, k) + 1 to Rgt(c, k + 1) - 1.
Lft(c, k) == LeftEnd(SubSeq(c, 1, k - 1))

\* All the comparisons of a part are cut out of it, without overlap, as the check and
\* the types demand.
CutAt(c, from, to, k) ==
  /\ Lft(c, k) \in from - 1 .. k - 1 /\ Rgt(c, k + 1) \in k + 1 .. to + 1
  /\ IsOneAt(c, Lft(c, k) + 1, k, Rgt(c, k + 1) - 1)
CutIn(c, from, to) ==
  \A k \in from .. to : IsComparison(c[k]) =>
    /\ CutAt(c, from, to, k)
    /\ \A m \in k + 1 .. to : IsComparison(c[m]) => Rgt(c, k + 1) <= Lft(c, m)

WellCut(c, r) == InPlace(c, r) /\ (Placed(c, r) => CutIn(c, r.from, r.to))

\* A comparison that stands where an operand may is cut out with its sides.
LEMMA OnePlaced ==
  ASSUME NEW c \in Condition, NEW i \in 1 .. Len(c), NEW k \in i .. Len(c), NEW j \in k .. Len(c),
         IsOneAt(c, i, k, j)
  PROVE  /\ Quiet(c, i, k - 1) /\ Quiet(c, k + 1, j) /\ i <= k - 1 /\ k + 1 <= j
         /\ Behind(c, j) => Rgt(c, k + 1) = j + 1
         /\ Ahead(c, i) => Lft(c, k) = i - 1
<1>1. PICK N \in Nat : N = Len(c)
  BY DEF Condition
<1>2. Quiet(c, i, k - 1) /\ Quiet(c, k + 1, j)
  BY SidesQuiet DEF IsOneAt
<1>3. i <= k - 1 /\ k + 1 <= j
  BY <1>1, <1>2 DEF Quiet
<1>4. Behind(c, j) => Rgt(c, k + 1) = j + 1
  <2>1. k + 1 \in 1 .. Len(c) /\ j \in k + 1 .. Len(c)
    BY <1>1, <1>3
  <2> QED
    BY <1>2, <2>1, RightIs DEF Behind
<1>5. Ahead(c, i) => Lft(c, k) = i - 1
  <2> SUFFICES ASSUME Ahead(c, i) PROVE Lft(c, k) = i - 1
    OBVIOUS
  <2>1. k \in i + 1 .. Len(c) + 1 /\ 0 \in 0 .. i - 1
    BY <1>1, <1>3
  <2>2. i - 1 = 0 \/ c[i - 1].type \in Joins \cup {"kleft"}
    BY <1>1 DEF Ahead
  <2>3. LeftEnd(SubSeq(c, 0 + 1, k - 1)) = (i - 1) - 0
    BY <1>2, <2>1, <2>2, LeftIs
  <2> QED
    BY <1>1, <2>3 DEF Lft
<1> QED
  BY <1>2, <1>3, <1>4, <1>5

\* A comparison with its sides.
LEMMA OneWellCut ==
  ASSUME NEW c \in Condition, NEW row, NEW q, NEW i, NEW k, NEW j, OneRead(c, row, q, i, k, j)
  PROVE  WellCut(c, q)
<1>0. c \in Seq(Node) /\ Len(c) \in Nat
  BY DEF Condition
<1>1. PICK N \in Nat : N = Len(c)
  BY <1>0
<1>2. /\ i \in 1 .. Len(c) /\ k \in i .. Len(c) /\ j \in k .. Len(c)
      /\ IsComparison(c[k]) /\ IsOneAt(c, i, k, j)
      /\ q = Reading(0, i, j, Means(Comparison(c, i, k, j), row))
  BY DEF OneRead
<1>3. Means(Comparison(c, i, k, j), row) \in BOOLEAN
  <2>1. IsComparison(Comparison(c, i, k, j))
    BY <1>2 DEF IsComparison, Comparison, LogicalNode
  <2> QED
    BY <2>1, MeansTruth
<1>4. q.level = 0 /\ q.from = i /\ q.to = j /\ q.number \in BOOLEAN
  BY <1>2, <1>3 DEF Reading
<1>5. /\ Quiet(c, i, k - 1) /\ Quiet(c, k + 1, j) /\ i <= k - 1 /\ k + 1 <= j
      /\ Behind(c, j) => Rgt(c, k + 1) = j + 1
      /\ Ahead(c, i) => Lft(c, k) = i - 1
  BY <1>2, OnePlaced
<1>6. i <= k - 1 /\ k + 1 <= j
  BY <1>5
<1>7. InPlace(c, q)
  BY <1>1, <1>2, <1>4 DEF InPlace
<1>8. ASSUME NEW m \in i .. j, IsComparison(c[m])
      PROVE  m = k
  <2>1. m \in i .. k - 1 \/ m \in k + 1 .. j \/ m = k
    BY <1>1, <1>2
  <2>2. m \in i .. k - 1 => Within1(c[m])
    BY <1>5 DEF Quiet
  <2>3. m \in k + 1 .. j => Within1(c[m])
    BY <1>5 DEF Quiet
  <2> QED
    BY <1>8, <2>1, <2>2, <2>3 DEF Within1
<1>9. ASSUME Placed(c, q)
      PROVE  CutIn(c, q.from, q.to)
  <2>1. Rgt(c, k + 1) = j + 1
    BY <1>4, <1>5, <1>9 DEF Placed
  <2>2. Lft(c, k) = i - 1
    BY <1>4, <1>5, <1>9 DEF Placed
  <2>3. Lft(c, k) + 1 = i /\ Rgt(c, k + 1) - 1 = j
    BY <1>1, <1>2, <2>1, <2>2
  <2>4. CutAt(c, i, j, k)
    BY <1>1, <1>2, <1>6, <2>1, <2>2, <2>3 DEF CutAt
  <2>5. \A m \in k + 1 .. j : ~IsComparison(c[m])
    <3> SUFFICES ASSUME NEW m \in k + 1 .. j, IsComparison(c[m]) PROVE FALSE
      OBVIOUS
    <3>1. m \in i .. j /\ m # k
      BY <1>1, <1>2
    <3> QED
      BY <1>8, <3>1
  <2> QED
    BY <1>4, <1>8, <2>4, <2>5 DEF CutIn
<1> QED
  BY <1>7, <1>9 DEF WellCut

\* One level up.
LEMMA RaisedWellCut ==
  ASSUME NEW c, NEW q, NEW r, WellCut(c, r), RaisedTo(q, r)
  PROVE  WellCut(c, q)
<1>1. q.level = 1 /\ q.from = r.from /\ q.to = r.to /\ q.number = r.number
  BY DEF RaisedTo, Reading
<1> QED
  BY <1>1 DEF WellCut, InPlace, Placed

\* In brackets.
LEMMA BracketWellCut ==
  ASSUME NEW c \in Condition, NEW q, NEW r, WellCut(c, r), InBrackets(c, q, r)
  PROVE  WellCut(c, q)
<1>0. PICK N \in Nat : N = Len(c)
  BY DEF Condition
<1>1. PICK i \in 1 .. N, j \in 1 .. N : i <= j /\ i = r.from /\ j = r.to
  BY <1>0 DEF WellCut, InPlace
<1>2. /\ q.level = 0 /\ q.from = i - 1 /\ q.to = j + 1 /\ q.number = r.number
      /\ i > 1 /\ j < N /\ c[i - 1].type = "kleft" /\ c[j + 1].type = "kright"
  BY <1>0, <1>1 DEF InBrackets, Reading
<1>3. InPlace(c, q)
  BY <1>0, <1>1, <1>2 DEF WellCut, InPlace
<1>4. Placed(c, r)
  BY <1>1, <1>2 DEF Placed, Ahead, Behind
<1>5. CutIn(c, i, j)
  BY <1>1, <1>4 DEF WellCut
<1>6. \A m \in i - 1 .. j + 1 : IsComparison(c[m]) => m \in i .. j
  <2>1. ~IsComparison(c[i - 1]) /\ ~IsComparison(c[j + 1])
    BY <1>2 DEF IsComparison, CompareTypes, LikeTypes
  <2>2. \A m \in i - 1 .. j + 1 : m = i - 1 \/ m = j + 1 \/ m \in i .. j
    BY <1>1
  <2> QED
    BY <2>1, <2>2
<1>7. ASSUME NEW k \in i - 1 .. j + 1, IsComparison(c[k])
      PROVE  /\ CutAt(c, i - 1, j + 1, k)
             /\ \A m \in k + 1 .. j + 1 : IsComparison(c[m]) => Rgt(c, k + 1) <= Lft(c, m)
  <2>1. k \in i .. j
    BY <1>6, <1>7
  <2>2. CutAt(c, i, j, k) /\ \A m \in k + 1 .. j : IsComparison(c[m]) => Rgt(c, k + 1) <= Lft(c, m)
    BY <1>5, <1>7, <2>1 DEF CutIn
  <2>3. CutAt(c, i - 1, j + 1, k)
    BY <1>1, <2>1, <2>2 DEF CutAt
  <2>4. \A m \in k + 1 .. j + 1 : IsComparison(c[m]) => m \in k + 1 .. j
    <3>1. \A m \in k + 1 .. j + 1 : m \in i - 1 .. j + 1
      BY <1>1, <2>1
    <3>2. \A m \in k + 1 .. j + 1 : m \in i .. j => m \in k + 1 .. j
      BY <1>1, <2>1
    <3> QED
      BY <1>6, <3>1, <3>2
  <2> QED
    BY <2>2, <2>3, <2>4
<1>8. CutIn(c, i - 1, j + 1)
  BY <1>7 DEF CutIn
<1> QED
  BY <1>2, <1>3, <1>8 DEF WellCut

\* Two truths joined are one.
LEMMA JoinTruth ==
  ASSUME NEW t, NEW a, NEW b
  PROVE  Join(t, a, b) \in BOOLEAN
<1>1. CASE t = "kand"
  BY <1>1 DEF Join
<1>2. CASE t # "kand"
  BY <1>2 DEF Join
<1> QED
  BY <1>1, <1>2

\* Two, joined.
LEMMA JoinWellCut ==
  ASSUME NEW c \in Condition, NEW q, NEW l, NEW r, WellCut(c, l), WellCut(c, r), JoinedTo(c, q, l, r)
  PROVE  WellCut(c, q)
<1>0. PICK N \in Nat : N = Len(c)
  BY DEF Condition
<1>1. PICK i \in 1 .. N, d \in 1 .. N : i <= d /\ i = l.from /\ d = l.to
  BY <1>0 DEF WellCut, InPlace
<1>2. PICK e \in 1 .. N, j \in 1 .. N : e <= j /\ e = r.from /\ j = r.to
  BY <1>0 DEF WellCut, InPlace
<1>3. /\ q.level = 1 /\ q.from = i /\ q.to = j /\ e = d + 2 /\ c[d + 1].type \in Joins
      /\ q.number = Join(c[d + 1].type, l.number, r.number)
  BY <1>1, <1>2 DEF JoinedTo, Reading
<1>4. InPlace(c, q)
  <2>1. q.number \in BOOLEAN
    BY <1>3, JoinTruth
  <2> QED
    BY <1>0, <1>1, <1>2, <1>3, <2>1 DEF InPlace
<1>5. ASSUME Placed(c, q)
      PROVE  CutIn(c, i, j)
  <2>1. Ahead(c, i) /\ Behind(c, j)
    BY <1>3, <1>5 DEF Placed
  <2>2. e - 1 = d + 1
    BY <1>1, <1>3
  <2>3. Placed(c, l) /\ Placed(c, r)
    BY <1>1, <1>2, <1>3, <2>1, <2>2 DEF Placed, Ahead, Behind
  <2>4. CutIn(c, i, d) /\ CutIn(c, e, j)
    BY <1>1, <1>2, <2>3 DEF WellCut
  <2>5. ~IsComparison(c[d + 1])
    BY <1>3 DEF IsComparison, Joins, CompareTypes, LikeTypes
  <2>6. ASSUME NEW m \in i .. j, IsComparison(c[m])
        PROVE  m \in i .. d \/ m \in e .. j
    <3>1. m \in i .. d \/ m \in e .. j \/ m = d + 1
      BY <1>1, <1>2, <1>3
    <3> QED
      BY <2>5, <2>6, <3>1
  <2>7. ASSUME NEW k \in i .. j, IsComparison(c[k])
        PROVE  /\ CutAt(c, i, j, k)
               /\ \A m \in k + 1 .. j : IsComparison(c[m]) => Rgt(c, k + 1) <= Lft(c, m)
    <3>1. CASE k \in i .. d
      <4>1. CutAt(c, i, d, k)
        BY <2>4, <2>7, <3>1 DEF CutIn
      <4>2. CutAt(c, i, j, k) /\ Rgt(c, k + 1) \in Int /\ Rgt(c, k + 1) <= d + 1
        BY <1>1, <1>2, <1>3, <3>1, <4>1 DEF CutAt
      <4>3. ASSUME NEW m \in k + 1 .. j, IsComparison(c[m])
            PROVE  Rgt(c, k + 1) <= Lft(c, m)
        <5>1. m \in i .. j
          BY <1>1, <3>1
        <5>2. CASE m \in i .. d
          <6>1. m \in k + 1 .. d
            BY <5>2, <3>1, <1>1
          <6> QED
            BY <2>4, <2>7, <3>1, <4>3, <6>1 DEF CutIn
        <5>3. CASE m \in e .. j
          <6>1. Lft(c, m) \in e - 1 .. m - 1
            BY <2>4, <4>3, <5>3 DEF CutIn, CutAt
          <6> QED
            BY <1>1, <1>2, <1>3, <4>2, <6>1
        <5> QED
          BY <2>6, <4>3, <5>1, <5>2, <5>3
      <4> QED
        BY <4>2, <4>3
    <3>2. CASE k \in e .. j
      <4>1. CutAt(c, e, j, k) /\ \A m \in k + 1 .. j : IsComparison(c[m]) => Rgt(c, k + 1) <= Lft(c, m)
        BY <2>4, <2>7, <3>2 DEF CutIn
      <4>2. CutAt(c, i, j, k)
        BY <1>1, <1>2, <1>3, <3>2, <4>1 DEF CutAt
      <4> QED
        BY <4>1, <4>2
    <3> QED
      BY <2>6, <2>7, <3>1, <3>2
  <2> QED
    BY <2>7 DEF CutIn
<1> QED
  BY <1>3, <1>4, <1>5 DEF WellCut

\* Every reading whose place is that of an operand has its comparisons cut out of c.
LEMMA ReadingsWellCut ==
  ASSUME NEW c \in Condition, NEW row, NEW n \in 0 .. 3 * Len(c), NEW r \in Read(c, row)[n]
  PROVE  WellCut(c, r)
<1>0. c \in Seq(Node) /\ Len(c) \in Nat
  BY DEF Condition
<1>1. PICK N \in Nat : N = 3 * Len(c)
  BY <1>0
<1>2. PICK g : g = Read(c, row)
  OBVIOUS
<1> DEFINE T == {m \in 0 .. N : \A q \in g[m] : WellCut(c, q)}
<1>3. 0 \in T
  <2>1. ASSUME NEW q \in g[0]
        PROVE  WellCut(c, q)
    <3>1. q \in Comparisons(c, row)
      BY <1>0, <1>2, ReadStep
    <3>2. \E i, k, j : OneRead(c, row, q, i, k, j)
      BY <1>0, <3>1, ComparisonRead
    <3> QED
      BY <3>2, OneWellCut
  <2> QED
    BY <2>1
<1>4. ASSUME NEW m \in 0 .. N - 1, m \in T
      PROVE  m + 1 \in T
  <2>1. g[m + 1] = g[m] \cup Beyond(c, g[m])
    BY <1>0, <1>1, <1>2, ReadStep
  <2>2. ASSUME NEW q \in Beyond(c, g[m])
        PROVE  WellCut(c, q)
    <3>1. \A x \in g[m] : WellCut(c, x)
      BY <1>4
    <3>2. CASE \E x \in g[m] : RaisedTo(q, x)
      BY <3>1, <3>2, RaisedWellCut
    <3>3. CASE \E x \in g[m] : InBrackets(c, q, x)
      BY <3>1, <3>3, BracketWellCut
    <3>4. CASE \E l \in g[m], x \in g[m] : JoinedTo(c, q, l, x)
      BY <3>1, <3>4, JoinWellCut
    <3> QED
      BY <3>2, <3>3, <3>4, BeyondKinds
  <2>3. m + 1 \in 0 .. N
    OBVIOUS
  <2> QED
    BY <1>4, <2>1, <2>2, <2>3
<1> HIDE DEF T
<1>5. \A m \in 0 .. N : m \in T
  BY <1>3, <1>4, Climb
<1>6. n \in T
  BY <1>1, <1>5
<1> QED
  BY <1>2, <1>6 DEF T

-----------------------------------------------------------------------------
(* What load_logical makes of a condition. *)

\* All comparisons of c are cut out of it as the check and the types demand.
Cuts(c) == CutIn(c, 1, Len(c))

\* x is made of the nodes of c from a + 1 to e: one that does not compare, or a
\* comparison with its sides.
Takes(c, x, a, e) ==
  \/ e = a + 1 /\ ~IsComparison(c[e]) /\ x = Convert(c[e])
  \/ \E k \in a + 1 .. e :
       /\ IsComparison(c[k]) /\ x = Comparison(c, a + 1, k, e)
       /\ e = Rgt(c, k + 1) - 1 /\ (Cuts(c) => a = Lft(c, k))

\* None of these nodes compares.
Singles(c, a, e) == \A m \in a .. e : ~IsComparison(c[m])

\* The nodes l are made of the first b[Len(l)] of c, one behind the other.
Cover(c, l, b) ==
  /\ b \in [0 .. Len(l) -> 0 .. Len(c)] /\ b[0] = 0
  /\ \A m \in 1 .. Len(l) : b[m - 1] < b[m] /\ Takes(c, l[m], b[m - 1], b[m])

\* B nodes have been taken: none, or up to the end of a comparison.
AtLast(c, B) == B = 0 \/ \E k \in 1 .. B : IsComparison(c[k]) /\ B = Rgt(c, k + 1) - 1

\* What was read since then is kept, and has no comparison.
Splitting(c, l, s, o) ==
  \E b : /\ Cover(c, l, b) /\ AtLast(c, b[Len(l)]) /\ b[Len(l)] < o
         /\ s = SubSeq(c, b[Len(l)] + 1, o - 1)
         /\ Singles(c, b[Len(l)] + 1, o - 1)

\* The nodes behind the first B.
LEMMA PartAfter ==
  ASSUME NEW S, NEW c \in Seq(S), NEW B \in 0 .. Len(c), NEW e \in B .. Len(c)
  PROVE  /\ SubSeq(c, B + 1, e) \in Seq(S) /\ Len(SubSeq(c, B + 1, e)) = e - B
         /\ \A i \in 1 .. e - B : SubSeq(c, B + 1, e)[i] = c[B + i]
<1>1. PICK a \in 1 .. Len(c) + 1 : a = B + 1 /\ a - 1 = B
  <2>1. B + 1 \in 1 .. Len(c) + 1 /\ (B + 1) - 1 = B
    OBVIOUS
  <2> QED
    BY <2>1
<1>2. e \in a - 1 .. Len(c)
  BY <1>1
<1>3. /\ SubSeq(c, a, e) \in Seq(S) /\ Len(SubSeq(c, a, e)) = e - (a - 1)
      /\ \A i \in 1 .. e - (a - 1) : SubSeq(c, a, e)[i] = c[(a - 1) + i]
  BY <1>2, PartNodes
<1> QED
  BY <1>1, <1>3

\* One node more is taken.
LEMMA CoverMore ==
  ASSUME NEW c \in Seq(Node), NEW l \in Seq(Part), NEW x \in Part, NEW b, Cover(c, l, b),
         NEW e \in 0 .. Len(c), b[Len(l)] < e, Takes(c, x, b[Len(l)], e)
  PROVE  \E d : Cover(c, Append(l, x), d) /\ d[Len(l) + 1] = e
<1>1. PICK L \in Nat : L = Len(l)
  OBVIOUS
<1>2. PICK r \in Seq(Part) : /\ r = Append(l, x) /\ Len(r) = L + 1 /\ r[L + 1] = x
                             /\ \A m \in 1 .. L : r[m] = l[m]
  <2>1. /\ Append(l, x) \in Seq(Part) /\ Len(Append(l, x)) = L + 1 /\ Append(l, x)[L + 1] = x
        /\ \A m \in 1 .. L : Append(l, x)[m] = l[m]
    BY <1>1, AppendProperties
  <2> QED
    BY <2>1
<1> DEFINE d == [m \in 0 .. L + 1 |-> IF m = L + 1 THEN e ELSE b[m]]
<1>3. b \in [0 .. L -> 0 .. Len(c)] /\ b[0] = 0
      /\ \A m \in 1 .. L : b[m - 1] < b[m] /\ Takes(c, l[m], b[m - 1], b[m])
  BY <1>1 DEF Cover
<1>4. /\ d \in [0 .. L + 1 -> 0 .. Len(c)] /\ d[L + 1] = e /\ \A m \in 0 .. L : d[m] = b[m]
  BY <1>3
<1> HIDE DEF d
<1>5. ASSUME NEW m \in 1 .. L + 1
      PROVE  d[m - 1] < d[m] /\ Takes(c, r[m], d[m - 1], d[m])
  <2>1. CASE m = L + 1
    <3>1. d[m - 1] = b[L] /\ d[m] = e /\ r[m] = x
      BY <1>2, <1>4, <2>1
    <3> QED
      BY <1>1, <3>1
  <2>2. CASE m # L + 1
    <3>1. m \in 1 .. L /\ m - 1 \in 0 .. L /\ m \in 0 .. L
      BY <2>2
    <3>2. d[m - 1] = b[m - 1] /\ d[m] = b[m] /\ r[m] = l[m]
      BY <1>2, <1>4, <3>1
    <3> QED
      BY <1>3, <3>1, <3>2
  <2> QED
    BY <2>1, <2>2
<1>6. d[0] = 0
  BY <1>3, <1>4
<1>7. Cover(c, r, d)
  BY <1>2, <1>4, <1>5, <1>6 DEF Cover
<1> QED
  BY <1>1, <1>2, <1>4, <1>7

\* Nodes that do not compare are taken one by one.
LEMMA CoverSingles ==
  ASSUME NEW c \in Seq(Node), NEW l \in Seq(Part), NEW b, Cover(c, l, b),
         NEW n \in Nat, b[Len(l)] + n <= Len(c),
         Singles(c, b[Len(l)] + 1, b[Len(l)] + n)
  PROVE  LET r == l \o Converted(SubSeq(c, b[Len(l)] + 1, b[Len(l)] + n)) IN
         /\ r \in Seq(Part) /\ Len(r) = Len(l) + n
         /\ \E d : Cover(c, r, d) /\ d[Len(l) + n] = b[Len(l)] + n
<1>1. PICK L \in Nat : L = Len(l)
  OBVIOUS
<1>2. PICK N \in Nat : N = Len(c)
  OBVIOUS
<1>3. b \in [0 .. L -> 0 .. N] /\ b[0] = 0
      /\ \A m \in 1 .. L : b[m - 1] < b[m] /\ Takes(c, l[m], b[m - 1], b[m])
  BY <1>1, <1>2 DEF Cover
<1>4. PICK B \in 0 .. N : B = b[L]
  BY <1>3
<1>5. PICK t \in Seq(Node) : /\ t = SubSeq(c, B + 1, B + n) /\ Len(t) = n
                             /\ \A i \in 1 .. n : t[i] = c[B + i]
  <2>1. PICK e \in B .. Len(c) : e = B + n /\ e - B = n
    <3>1. B + n \in B .. Len(c) /\ (B + n) - B = n
      BY <1>1, <1>2, <1>4
    <3> QED
      BY <3>1
  <2>2. B \in 0 .. Len(c)
    BY <1>2
  <2>3. /\ SubSeq(c, B + 1, e) \in Seq(Node) /\ Len(SubSeq(c, B + 1, e)) = e - B
        /\ \A i \in 1 .. e - B : SubSeq(c, B + 1, e)[i] = c[B + i]
    BY <2>2, PartAfter
  <2> QED
    BY <2>1, <2>3
<1>6. PICK u \in Seq(Part) : u = Converted(t) /\ Len(u) = n /\ \A i \in 1 .. n : u[i] = Convert(c[B + i])
  <2>1. Converted(t) \in Seq(Part) /\ Len(Converted(t)) = n
    BY <1>5, ConvertedIsSeq
  <2>2. DOMAIN t = 1 .. n
    BY <1>5
  <2>3. \A i \in 1 .. n : Converted(t)[i] = Convert(c[B + i])
    BY <1>5, <2>2 DEF Converted
  <2> QED
    BY <2>1, <2>3
<1>7. PICK r \in Seq(Part) : /\ r = l \o u /\ Len(r) = L + n
                             /\ \A m \in 1 .. L : r[m] = l[m]
                             /\ \A m \in L + 1 .. L + n : r[m] = u[m - L]
  <2>1. l \o u \in Seq(Part) /\ Len(l \o u) = L + n
    BY <1>1, <1>6, ConcatProperties
  <2>2. \A m \in 1 .. L + n : (l \o u)[m] = IF m <= L THEN l[m] ELSE u[m - L]
    BY <1>1, <1>6, ConcatProperties
  <2>3. \A m \in L + 1 .. L + n : m \in 1 .. L + n /\ ~(m <= L)
    OBVIOUS
  <2>4. \A m \in 1 .. L : m \in 1 .. L + n /\ m <= L
    OBVIOUS
  <2> QED
    BY <2>1, <2>2, <2>3, <2>4
<1> DEFINE d == [m \in 0 .. L + n |-> IF m <= L THEN b[m] ELSE B + (m - L)]
<1>8. /\ d \in [0 .. L + n -> 0 .. N]
      /\ \A m \in 0 .. L : d[m] = b[m]
      /\ \A m \in L .. L + n : d[m] = B + (m - L)
  <2>1. B + n <= N
    BY <1>1, <1>2, <1>4
  <2>2. \A m \in 0 .. L + n : ~(m <= L) => B + (m - L) \in 0 .. N
    BY <2>1
  <2>3. \A m \in 0 .. L + n : m <= L => b[m] \in 0 .. N
    BY <1>3
  <2>4. \A m \in L .. L + n : m <= L => m = L /\ b[m] = B + (m - L)
    BY <1>4
  <2>5. /\ \A m \in 0 .. L : d[m] = b[m]
        /\ \A m \in 0 .. L + n : d[m] = IF m <= L THEN b[m] ELSE B + (m - L)
    OBVIOUS
  <2>6. d \in [0 .. L + n -> 0 .. N]
    BY <2>2, <2>3
  <2> HIDE DEF d
  <2>7. \A m \in L .. L + n : m \in 0 .. L + n
    OBVIOUS
  <2>8. \A m \in L .. L + n : d[m] = B + (m - L)
    BY <2>4, <2>5, <2>7
  <2> QED
    BY <2>5, <2>6, <2>8
<1> HIDE DEF d
<1>9. ASSUME NEW m \in 1 .. L + n
      PROVE  d[m - 1] < d[m] /\ Takes(c, r[m], d[m - 1], d[m])
  <2>1. CASE m <= L
    <3>1. m \in 1 .. L /\ m - 1 \in 0 .. L /\ m \in 0 .. L
      BY <2>1
    <3>2. d[m - 1] = b[m - 1] /\ d[m] = b[m] /\ r[m] = l[m]
      BY <1>7, <1>8, <3>1
    <3> QED
      BY <1>3, <3>1, <3>2
  <2>2. CASE ~(m <= L)
    <3>1. PICK i \in 1 .. n : m = L + i /\ m - L = i /\ (m - 1) - L = i - 1
      <4>1. m - L \in 1 .. n /\ m = L + (m - L) /\ (m - 1) - L = (m - L) - 1
        BY <2>2
      <4> QED
        BY <4>1
    <3>2. m - 1 \in L .. L + n /\ m \in L .. L + n /\ m \in L + 1 .. L + n
      BY <2>2
    <3>3. d[m - 1] = B + (i - 1) /\ d[m] = B + i /\ r[m] = Convert(c[B + i])
      BY <1>6, <1>7, <1>8, <3>1, <3>2
    <3>4. B + i = (B + (i - 1)) + 1
      OBVIOUS
    <3>5. ~IsComparison(c[B + i])
      <4>1. Singles(c, B + 1, B + n)
        BY <1>1, <1>4
      <4>2. B + i \in B + 1 .. B + n
        OBVIOUS
      <4> QED
        BY <4>1, <4>2 DEF Singles
    <3> QED
      BY <3>3, <3>4, <3>5 DEF Takes
  <2> QED
    BY <2>1, <2>2
<1>10. d[0] = 0 /\ d[L + n] = B + n
  <2>1. 0 \in 0 .. L /\ L + n \in L .. L + n /\ (L + n) - L = n
    OBVIOUS
  <2> QED
    BY <1>3, <1>8, <2>1
<1>11. Cover(c, r, d)
  BY <1>2, <1>7, <1>8, <1>9, <1>10 DEF Cover
<1> QED
  BY <1>1, <1>4, <1>5, <1>6, <1>7, <1>10, <1>11

\* The beginning of a part.
LEMMA PartBegin ==
  ASSUME NEW S, NEW c \in Seq(S), NEW B \in 0 .. Len(c), NEW e \in B .. Len(c), NEW o \in 0 .. e - B
  PROVE  SubSeq(SubSeq(c, B + 1, e), 1, o) = SubSeq(c, B + 1, B + o)
<1>1. PICK N \in Nat : N = Len(c)
  OBVIOUS
<1>4. PICK s \in Seq(S) : /\ s = SubSeq(c, B + 1, e) /\ Len(s) = e - B
                          /\ \A i \in 1 .. e - B : s[i] = c[B + i]
  <2>1. /\ SubSeq(c, B + 1, e) \in Seq(S) /\ Len(SubSeq(c, B + 1, e)) = e - B
        /\ \A i \in 1 .. e - B : SubSeq(c, B + 1, e)[i] = c[B + i]
    BY PartAfter
  <2> QED
    BY <2>1
<1>5. PICK t \in Seq(S) : /\ t = SubSeq(c, B + 1, B + o) /\ Len(t) = o
                          /\ \A i \in 1 .. o : t[i] = c[B + i]
  <2>1. PICK q \in B .. Len(c) : q = B + o /\ q - B = o
    <3>1. B + o \in B .. Len(c) /\ (B + o) - B = o
      BY <1>1
    <3> QED
      BY <3>1
  <2>2. /\ SubSeq(c, B + 1, q) \in Seq(S) /\ Len(SubSeq(c, B + 1, q)) = q - B
        /\ \A i \in 1 .. q - B : SubSeq(c, B + 1, q)[i] = c[B + i]
    BY PartAfter
  <2> QED
    BY <2>1, <2>2
<1>6. PICK u \in Seq(S) : /\ u = SubSeq(s, 1, o) /\ Len(u) = o
                          /\ \A i \in 1 .. o : u[i] = s[i]
  <2>1. \A i \in 1 .. o : i \in 1 .. Len(s) /\ s[i] \in S
    BY <1>1, <1>4
  <2>2. SubSeq(s, 1, o) \in Seq(S) /\ Len(SubSeq(s, 1, o)) = o
        /\ \A i \in 1 .. o : SubSeq(s, 1, o)[i] = s[i]
    BY <2>1
  <2> QED
    BY <2>2
<1>7. \A i \in 1 .. o : i \in 1 .. e - B
  OBVIOUS
<1>8. \A i \in 1 .. Len(u) : u[i] = t[i]
  BY <1>4, <1>5, <1>6, <1>7
<1>9. Len(u) = Len(t)
  BY <1>5, <1>6
<1>10. u = t
  BY <1>8, <1>9, SeqEqual
<1> QED
  BY <1>4, <1>5, <1>6, <1>10

\* make_left_expression ends at a join or a bracket, or at nothing.
LEMMA LeftEndAt ==
  ASSUME NEW S, NEW s \in Seq(S), LeftEnd(s) # 0
  PROVE  s[LeftEnd(s)].type \in Joins \cup {"kleft"}
<1> DEFINE ends == {i \in DOMAIN s :
        \/ s[i].type \in Joins
        \/ s[i].type = "kleft" /\ Balanced(SubSeq(s, i + 1, Len(s)))}
<1>1. LeftEnd(s) = IF ends = {} THEN 0 ELSE Max(ends)
  BY DEF LeftEnd
<1>2. ends \in SUBSET (1 .. Len(s)) /\ Len(s) \in Nat
  OBVIOUS
<1>3. ends # {}
  BY <1>1
<1>4. \A i \in ends : s[i].type \in Joins \cup {"kleft"}
  OBVIOUS
<1> HIDE DEF ends
<1>5. Max(ends) \in ends
  BY <1>2, <1>3, MaxIsIn
<1> QED
  BY <1>1, <1>3, <1>4, <1>5

\* In a condition whose comparisons are cut out, the part kept is cut at the same place.
LEMMA CutsAgree ==
  ASSUME NEW c \in Condition, Cuts(c), NEW o \in 1 .. Len(c), IsComparison(c[o]),
         NEW B \in 0 .. o - 1, AtLast(c, B)
  PROVE  Lft(c, o) = B + LeftEnd(SubSeq(c, B + 1, o - 1))
<1>0. c \in Seq(Node) /\ Len(c) \in Nat
  BY DEF Condition
<1>1. PICK N \in Nat : N = Len(c)
  BY <1>0
<1>2. CutAt(c, 1, N, o)
  BY <1>1 DEF Cuts, CutIn
<1>3. PICK i \in 1 .. o : i = Lft(c, o) + 1 /\ i - 1 = Lft(c, o)
  BY <1>1, <1>2 DEF CutAt
<1>4. PICK j \in o .. N : j = Rgt(c, o + 1) - 1
  BY <1>1, <1>2 DEF CutAt
<1>5. IsOneAt(c, i, o, j)
  BY <1>2, <1>3, <1>4 DEF CutAt
<1>6. Quiet(c, i, o - 1)
  <2>1. i \in 1 .. Len(c) /\ o \in i .. Len(c) /\ j \in o .. Len(c)
    BY <1>1
  <2> QED
    BY <1>5, <2>1, SidesQuiet DEF IsOneAt
<1>7. i \in 1 .. Len(c) /\ o \in i + 1 .. Len(c) + 1
  BY <1>1, <1>6 DEF Quiet
<1>8. B \in 0 .. i - 1
  <2>1. CASE B = 0
    BY <2>1
  <2>2. CASE B # 0
    <3>1. PICK k \in 1 .. B : IsComparison(c[k]) /\ B = Rgt(c, k + 1) - 1
      BY <2>2 DEF AtLast
    <3>2. k \in 1 .. N /\ o \in k + 1 .. N
      BY <1>1
    <3>3. Rgt(c, k + 1) <= Lft(c, o) /\ Rgt(c, k + 1) \in k + 1 .. N + 1
      BY <1>1, <3>1, <3>2 DEF Cuts, CutIn, CutAt
    <3> QED
      BY <1>3, <3>1, <3>3
  <2> QED
    BY <2>1, <2>2
<1>9. i - 1 = 0 \/ c[i - 1].type \in Joins \cup {"kleft"}
  <2> SUFFICES ASSUME i - 1 # 0 PROVE c[i - 1].type \in Joins \cup {"kleft"}
    OBVIOUS
  <2>1. PICK s \in Seq(Node) : /\ s = SubSeq(c, 1, o - 1) /\ Len(s) = o - 1
                               /\ \A n \in 1 .. o - 1 : s[n] = c[n]
    <3>1. 0 \in 0 .. Len(c) /\ o - 1 \in 0 .. Len(c) /\ 0 + 1 = 1 /\ (o - 1) - 0 = o - 1
      BY <1>1
    <3>2. /\ SubSeq(c, 0 + 1, o - 1) \in Seq(Node) /\ Len(SubSeq(c, 0 + 1, o - 1)) = (o - 1) - 0
          /\ \A n \in 1 .. (o - 1) - 0 : SubSeq(c, 0 + 1, o - 1)[n] = c[0 + n]
      BY <1>0, <3>1, PartAfter
    <3>3. \A n \in 1 .. o - 1 : 0 + n = n
      OBVIOUS
    <3> QED
      BY <3>1, <3>2, <3>3
  <2>2. LeftEnd(s) = i - 1
    BY <1>3, <2>1 DEF Lft
  <2>3. s[i - 1].type \in Joins \cup {"kleft"}
    BY <2>2, LeftEndAt
  <2>4. i - 1 \in 1 .. o - 1
    OBVIOUS
  <2> QED
    BY <2>1, <2>3, <2>4
<1>10. i - 1 = B \/ c[i - 1].type \in Joins \cup {"kleft"}
  BY <1>8, <1>9
<1>11. LeftEnd(SubSeq(c, B + 1, o - 1)) = (i - 1) - B
  BY <1>6, <1>7, <1>8, <1>10, LeftIs
<1> QED
  BY <1>3, <1>11

\* Nothing is taken before the first node.
LEMMA SplittingBegins ==
  ASSUME NEW c \in Seq(Node)
  PROVE  Splitting(c, <<>>, <<>>, 1)
<1>1. PICK N \in Nat : N = Len(c)
  OBVIOUS
<1> DEFINE b == [m \in 0 .. 0 |-> 0]
<1>2. b \in [0 .. 0 -> 0 .. N] /\ b[0] = 0
  OBVIOUS
<1> HIDE DEF b
<1>3. Len(<<>>) = 0 /\ 1 .. 0 = {}
  OBVIOUS
<1>4. Cover(c, <<>>, b)
  BY <1>1, <1>2, <1>3 DEF Cover
<1>5. SubSeq(c, b[0] + 1, 1 - 1) = <<>>
  BY <1>2
<1>6. Singles(c, b[0] + 1, 1 - 1)
  BY <1>2 DEF Singles
<1> QED
  BY <1>2, <1>3, <1>4, <1>5, <1>6 DEF Splitting, AtLast

\* A comparison is cut out.
LEMMA SplittingCuts ==
  ASSUME NEW c \in Condition, NEW l \in Seq(Part), NEW s, NEW o \in 1 .. Len(c), Splitting(c, l, s, o),
         IsComparison(c[o]), Rgt(c, o + 1) \in o + 1 .. Len(c) + 1,
         NEW x \in Part,
         x = LogicalNode(c[o], SubSeq(s, LeftEnd(s) + 1, Len(s)), SubSeq(c, o + 1, Rgt(c, o + 1) - 1))
  PROVE  Splitting(c, Append(l \o Converted(SubSeq(s, 1, LeftEnd(s))), x), <<>>, Rgt(c, o + 1))
<1>0. c \in Seq(Node) /\ Len(c) \in Nat
  BY DEF Condition
<1>1. PICK N \in Nat : N = Len(c)
  BY <1>0
<1>2. PICK b : /\ Cover(c, l, b) /\ AtLast(c, b[Len(l)]) /\ b[Len(l)] < o
               /\ s = SubSeq(c, b[Len(l)] + 1, o - 1)
               /\ Singles(c, b[Len(l)] + 1, o - 1)
  BY DEF Splitting
<1>3. PICK L \in Nat : L = Len(l)
  OBVIOUS
<1>4. PICK B \in 0 .. o - 1 : B = b[L]
  <2>0. b \in [0 .. L -> 0 .. N]
    BY <1>1, <1>2, <1>3 DEF Cover
  <2>1. b[L] \in 0 .. N
    BY <2>0
  <2>2. b[L] < o
    BY <1>2, <1>3
  <2> QED
    BY <2>1, <2>2
<1>5. PICK e \in B .. Len(c) : e = o - 1 /\ e = B + (e - B)
  <2>1. o - 1 \in B .. Len(c) /\ o - 1 = B + ((o - 1) - B)
    BY <1>1
  <2> QED
    BY <2>1
<1>6. B \in 0 .. Len(c)
  BY <1>1
<1>7. s \in Seq(Node) /\ Len(s) = e - B
  <2>1. SubSeq(c, B + 1, e) \in Seq(Node) /\ Len(SubSeq(c, B + 1, e)) = e - B
    BY <1>0, <1>6, PartAfter
  <2> QED
    BY <1>2, <1>3, <1>4, <1>5, <2>1
<1>8. PICK n \in 0 .. e - B : n = LeftEnd(s)
  BY <1>7, LeftEndIn
<1>9. PICK q \in o + 1 .. N + 1 : q = Rgt(c, o + 1)
  BY <1>1
<1>10. SubSeq(s, 1, n) = SubSeq(c, B + 1, B + n)
  <2>1. s = SubSeq(c, B + 1, e)
    BY <1>2, <1>3, <1>4, <1>5
  <2> QED
    BY <1>0, <1>6, <1>8, <2>1, PartBegin
<1>11. SubSeq(s, n + 1, Len(s)) = SubSeq(c, (B + n) + 1, o - 1)
  <2>1. PICK a \in 1 .. Len(c) + 1 : a = B + 1 /\ a - 1 = B
    <3>1. B + 1 \in 1 .. Len(c) + 1 /\ (B + 1) - 1 = B
      BY <1>1
    <3> QED
      BY <3>1
  <2>2. e \in a - 1 .. Len(c) /\ n + 1 \in 1 .. e - (a - 1) + 1
    BY <1>1, <2>1
  <2>3. SubSeq(SubSeq(c, a, e), n + 1, e - (a - 1)) = SubSeq(c, (a - 1) + (n + 1), e)
    BY <1>0, <2>2, PartOfPart
  <2>4. (a - 1) + (n + 1) = (B + n) + 1
    BY <2>1
  <2>5. s = SubSeq(c, a, e)
    BY <1>2, <1>3, <1>4, <1>5, <2>1
  <2> QED
    BY <1>5, <1>7, <2>1, <2>3, <2>4, <2>5
<1>12. PICK f \in Int : f = B + n
  OBVIOUS
<1>13. f \in 0 .. o - 1 /\ f <= N
  BY <1>1, <1>5, <1>12
<1>14. PICK r \in Seq(Part) : /\ r = l \o Converted(SubSeq(s, 1, n)) /\ Len(r) = L + n
                              /\ \E d : Cover(c, r, d) /\ d[L + n] = f
  <2>1. b[Len(l)] = B /\ B + n <= Len(c) /\ n \in Nat
    BY <1>1, <1>3, <1>4, <1>12, <1>13
  <2>2. Singles(c, b[Len(l)] + 1, b[Len(l)] + n)
    <3>1. \A m \in B + 1 .. B + n : m \in B + 1 .. o - 1
      BY <1>5
    <3>2. \A m \in B + 1 .. o - 1 : ~IsComparison(c[m])
      BY <1>2, <2>1 DEF Singles
    <3> QED
      BY <2>1, <3>1, <3>2 DEF Singles
  <2>3. LET r == l \o Converted(SubSeq(c, b[Len(l)] + 1, b[Len(l)] + n)) IN
        /\ r \in Seq(Part) /\ Len(r) = Len(l) + n
        /\ \E d : Cover(c, r, d) /\ d[Len(l) + n] = b[Len(l)] + n
    BY <1>0, <1>2, <2>1, <2>2, CoverSingles
  <2> QED
    BY <1>3, <1>10, <1>12, <2>1, <2>3
<1>15. PICK d : Cover(c, r, d) /\ d[Len(r)] = f
  BY <1>14
<1>16. PICK g \in 0 .. N : g = q - 1 /\ f < g /\ o \in f + 1 .. g /\ g + 1 = q
  <2>1. q - 1 \in 0 .. N /\ f < q - 1 /\ o \in f + 1 .. q - 1 /\ (q - 1) + 1 = q
    BY <1>13
  <2> QED
    BY <2>1
<1>17. x = Comparison(c, f + 1, o, g)
  BY <1>8, <1>9, <1>11, <1>12, <1>16 DEF Comparison
<1>18. Cuts(c) => f = Lft(c, o)
  <2>1. AtLast(c, B) /\ s = SubSeq(c, B + 1, o - 1)
    BY <1>2, <1>3, <1>4
  <2> QED
    BY <1>8, <1>12, <2>1, CutsAgree
<1>19. Takes(c, x, f, g)
  BY <1>9, <1>16, <1>17, <1>18 DEF Takes
<1>20. PICK u \in Seq(Part) : u = Append(r, x) /\ Len(u) = Len(r) + 1
  <2>1. Append(r, x) \in Seq(Part) /\ Len(Append(r, x)) = Len(r) + 1
    BY AppendProperties
  <2> QED
    BY <2>1
<1>21. \E h : Cover(c, u, h) /\ h[Len(u)] = g
  <2>1. d[Len(r)] < g /\ Takes(c, x, d[Len(r)], g) /\ g \in 0 .. Len(c)
    BY <1>1, <1>15, <1>16, <1>19
  <2>2. \E h : Cover(c, Append(r, x), h) /\ h[Len(r) + 1] = g
    BY <1>0, <1>15, <2>1, CoverMore
  <2> QED
    BY <1>20, <2>2
<1>22. PICK h : Cover(c, u, h) /\ h[Len(u)] = g
  BY <1>21
<1>23. AtLast(c, g)
  <2>1. o \in 1 .. g
    BY <1>16
  <2> QED
    BY <1>9, <1>16, <2>1 DEF AtLast
<1>24. <<>> = SubSeq(c, g + 1, q - 1) /\ g < q /\ Singles(c, g + 1, q - 1)
  BY <1>0, <1>16 DEF Singles
<1>25. Splitting(c, u, <<>>, q)
  BY <1>22, <1>23, <1>24 DEF Splitting
<1> QED
  BY <1>8, <1>9, <1>14, <1>20, <1>25

\* A node is kept.
LEMMA SplittingKeeps ==
  ASSUME NEW c \in Seq(Node), NEW l \in Seq(Part), NEW s, NEW o \in 1 .. Len(c), Splitting(c, l, s, o),
         ~IsComparison(c[o])
  PROVE  Splitting(c, l, Append(s, c[o]), o + 1)
<1>1. PICK N \in Nat : N = Len(c)
  OBVIOUS
<1>2. PICK b : /\ Cover(c, l, b) /\ AtLast(c, b[Len(l)]) /\ b[Len(l)] < o
               /\ s = SubSeq(c, b[Len(l)] + 1, o - 1)
               /\ Singles(c, b[Len(l)] + 1, o - 1)
  BY DEF Splitting
<1>3. PICK B \in 0 .. N : B = b[Len(l)] /\ B < o
  <2>1. b[Len(l)] \in 0 .. N
    BY <1>1, <1>2 DEF Cover
  <2> QED
    BY <1>2, <2>1
<1>4. SubSeq(c, B + 1, o) = Append(SubSeq(c, B + 1, o - 1), c[o])
  <2>1. PICK d \in 1 .. N + 1 : d = B + 1
    OBVIOUS
  <2>2. o \in d .. N
    BY <1>1, <1>3, <2>1
  <2>3. SubSeq(c, d, o) = Append(SubSeq(c, d, o - 1), c[o])
    BY <1>1, <2>2
  <2> QED
    BY <2>1, <2>3
<1>5. (o + 1) - 1 = o /\ B < o + 1
  BY <1>3
<1>6. Singles(c, B + 1, o)
  <2>1. \A m \in B + 1 .. o : m \in B + 1 .. o - 1 \/ m = o
    BY <1>3
  <2> QED
    BY <1>2, <1>3, <2>1 DEF Singles
<1>7. Append(s, c[o]) = SubSeq(c, B + 1, (o + 1) - 1)
  BY <1>2, <1>3, <1>4, <1>5
<1> QED
  BY <1>2, <1>3, <1>5, <1>6, <1>7 DEF Splitting

\* What is left at the end is taken too: all of the condition.
LEMMA SplittingEnds ==
  ASSUME NEW c \in Seq(Node), NEW l \in Seq(Part), NEW s, Splitting(c, l, s, Len(c) + 1)
  PROVE  \E b : Cover(c, l \o Converted(s), b) /\ b[Len(l \o Converted(s))] = Len(c)
<1>1. PICK N \in Nat : N = Len(c)
  OBVIOUS
<1>2. PICK b : /\ Cover(c, l, b) /\ b[Len(l)] < N + 1
               /\ s = SubSeq(c, b[Len(l)] + 1, (N + 1) - 1)
               /\ Singles(c, b[Len(l)] + 1, (N + 1) - 1)
  BY <1>1 DEF Splitting
<1>3. PICK B \in 0 .. N : B = b[Len(l)]
  BY <1>1, <1>2 DEF Cover
<1>4. PICK n \in Nat : B + n = N /\ (N + 1) - 1 = N
  <2>1. N - B \in Nat /\ B + (N - B) = N /\ (N + 1) - 1 = N
    BY <1>3
  <2> QED
    BY <2>1
<1>5. b[Len(l)] + n <= Len(c) /\ Singles(c, b[Len(l)] + 1, b[Len(l)] + n)
  BY <1>1, <1>2, <1>3, <1>4
<1>6. LET r == l \o Converted(SubSeq(c, b[Len(l)] + 1, b[Len(l)] + n)) IN
      /\ r \in Seq(Part) /\ Len(r) = Len(l) + n
      /\ \E d : Cover(c, r, d) /\ d[Len(l) + n] = b[Len(l)] + n
  BY <1>2, <1>5, CoverSingles
<1> QED
  BY <1>1, <1>2, <1>3, <1>4, <1>6

=============================================================================
