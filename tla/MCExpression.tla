---------------------------- MODULE MCExpression ----------------------------
(***************************************************************************)
(* Instances of Expression.tla for TLC: every text of at most MaxLen       *)
(* lexemes over a small alphabet, and longer texts that are mostly sound.  *)
(***************************************************************************)
EXTENDS Expression

CONSTANT MaxLen

Left == Token("kleft")
Right == Token("kright")
Signs == {Token("minus"), Token("kadd"), Token("kmulti"), Token("kdiv"), Token("kmod")}
Operands == {Name(1), Name(2), Number(2)}

\* Digits directly after a name or digits would be one lexeme with them.
Separate(s) ==
  \A i \in 2 .. Len(s) :
    ~(s[i].type \in {"kint8", "kname"} /\ s[i - 1].type \in {"kint8", "kname"})

Short == {s \in BoundedSeq({Left, Right, Token("minus"), Token("kadd"), Token("kmulti"),
                            Name(1), Number(2)}, MaxLen) : Separate(s)}
Odd == {s \in BoundedSeq({Token("space"), Token("bad"), Token("kand"),
                          Token("minus"), Name(1), Number(2)}, 4) : Separate(s)}
Chains == {<<a, p, b, q, c>> : a, b, c \in Operands, p, q \in Signs}
Bracketed ==
  {<<Left, a, p, b, Right, q, c>> : a, b \in Operands, c \in {Name(2)}, p, q \in Signs}
Nested ==
  {<<Left, Left, a, p, b, Right, q, b, Right, r, a>> :
     a \in {Name(1)}, b \in Operands, p, q, r \in Signs}

MCText == Short \cup Odd \cup Chains \cup Bracketed \cup Nested
MCValues == {<<7, 3>>, <<-5, 0>>}
=============================================================================
