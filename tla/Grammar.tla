------------------------------ MODULE Grammar ------------------------------
(***************************************************************************)
(* What a formula means, independently of how expression.cc reads it: the  *)
(* usual grammar of + and - over * / and % over numbers, fields and        *)
(* brackets, each level taken from the left, as expression.h announces,    *)
(* with x/0 = 0 as db.conf announces; a departure: 0/0 is NaN.             *)
(***************************************************************************)
EXTENDS Formula

OperatorsOf(level) == IF level = 1 THEN Binding ELSE {"kadd", "minus"}

Apply(t, a, b) ==
  CASE t = "kadd" -> Plus(a, b)
    [] t = "minus" -> Less(a, b)
    [] t = "kmulti" -> Times(a, b)
    [] t = "kdiv" -> IF b[1] # 0 THEN Fraction(a, b)
                     ELSE IF IsNaN(b) \/ a[1] = 0 THEN NaN ELSE Int2Num(0)
    [] t = "kmod" -> IF HasModulo(a, b) THEN Modulo(a, b) ELSE NaN

\* A reading of text s: the part of it from one place to another stands for the
\* number, as a primary (level 0), as a product (1) or as a sum (2).
Reading(level, from, to, number) ==
  [level |-> level, from |-> from, to |-> to, number |-> number]

\* Numbers, fields, and numbers with a sign.
Simple(s, value) ==
  LET At(type) == {n \in DOMAIN s : s[n].type = type} IN
  {Reading(0, n, n, Int2Num(s[n].v)) : n \in At("kint8")} \cup
  {Reading(0, n, n, Int2Num(value[s[n].v])) : n \in At("kname")} \cup
  {Reading(0, n, n + 1, Int2Num(0 - s[n + 1].v)) : n \in {n \in At("minus") : Glued(s, n)}}

\* What readings give at once: one of the next level, a bracket around a sum, and
\* two parts with an operator of the level of the first between them.
Further(s, readings) ==
  {Reading(r.level + 1, r.from, r.to, r.number) : r \in {r \in readings : r.level < 2}} \cup
  {Reading(0, r.from - 1, r.to + 1, r.number) : r \in {r \in readings :
     /\ r.level = 2 /\ r.from > 1 /\ r.to < Len(s)
     /\ s[r.from - 1].type = "kleft" /\ s[r.to + 1].type = "kright"}} \cup
  UNION {
    {Reading(l.level, l.from, r.to, Apply(s[l.to + 1].type, l.number, r.number)) :
       r \in {r \in readings :
         /\ r.level = l.level - 1 /\ r.from = l.to + 2
         /\ s[l.to + 1].type \in OperatorsOf(l.level)}} : l \in readings}

\* The numbers that the whole of s may stand for: none if it is malformed.  No
\* reading takes more than three steps for each lexeme.
Meanings(s, value) ==
  LET made[n \in 0 .. 3 * Len(s)] ==
        IF n = 0 THEN Simple(s, value)
        ELSE LET readings == made[n - 1] IN readings \cup Further(s, readings)
      whole == {r \in made[3 * Len(s)] : r.level = 2 /\ r.from = 1 /\ r.to = Len(s)}
  IN {r.number : r \in whole}

Plain(text) ==
  LET plain[n \in 0 .. Len(text)] ==
        IF n = 0 THEN <<>>
        ELSE IF text[n].type = "space" THEN plain[n - 1] ELSE Append(plain[n - 1], text[n])
  IN plain[Len(text)]
=============================================================================
