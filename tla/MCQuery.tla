------------------------------ MODULE MCQuery ------------------------------
(***************************************************************************)
(* Instances of Query.tla for TLC.  Conditions of all shapes are each the  *)
(* subject of one GET over a small table; a few of them are part of longer *)
(* sessions, in which requests of all kinds follow one another.            *)
(*                                                                         *)
(* Fields 0 to 5 are of the types int1, int4, int8, double, char and char; *)
(* 6 is the id one past the last, and no field has the name 9.             *)
(***************************************************************************)
EXTENDS Query

CONSTANT MaxUnits

MCFieldType == 0 :> "kint1" @@ 1 :> "kint4" @@ 2 :> "kint8" @@ 3 :> "kdouble"
               @@ 4 :> "kchar" @@ 5 :> "kchar"

\* 1 is the empty string, 2 to 5 are "a", "b", "ab", "ba", 6 is "aba", which is also
\* the name of fields 4 and 5, and the others are patterns.
MCTexts == << <<>>, <<97>>, <<98>>, <<97, 98>>, <<98, 97>>, <<97, 98, 97>>,
              <<94, 97>>, <<97, 36>>, <<94, 97, 98, 97, 36>>, <<94>>, <<36>>, <<94, 36>> >>
MCFieldName == [f \in 0 .. 5 |-> IF f \in {4, 5} THEN 6 ELSE 1]

Left == Token("kleft")
Right == Token("kright")
And == Token("kand")
Or == Token("kor")
Text(n) == [type |-> "kchar", v |-> n]

-----------------------------------------------------------------------------
(* Conditions. *)

Equal(f) == <<Name(f), Token("keq"), Number(1)>>
Greater == <<Left, Name(1), Token("kadd"), Name(2), Right, Token("kgt"), Left, Name(3), Right>>
Like == <<Name(4), Token("klike"), Text(7)>>
Mixed == <<Name(4), Token("kne"), Number(1)>>
Unknown == <<Name(9), Token("kne"), Number(1)>>

Conditions(units, n) == {FlattenSeq(s) : s \in BoundedSeq(units, n) \ {<<>>}}

Units == Conditions({Equal(1), Greater, <<Left>>, <<Right>>, <<And>>}, MaxUnits)
Kinds == Conditions({Equal(1), Like, Mixed, Unknown, <<Or>>}, 3)
Nodes == Conditions({<<Name(1)>>, <<Name(4)>>, <<Text(2)>>, <<Token("klike")>>,
                     <<Token("keq")>>, <<Left>>, <<Right>>, <<And>>}, 4)
Joined3 ==
  {Equal(1) \o <<j>> \o Equal(2) \o <<k>> \o Equal(3) : j, k \in {And, Or}} \cup
  {<<Left>> \o Equal(1) \o <<j>> \o Equal(2) \o <<Right, k>> \o Equal(3) : j, k \in {And, Or}} \cup
  {Equal(1) \o <<j, Left>> \o Equal(2) \o <<k>> \o Equal(3) \o <<Right>> : j, k \in {And, Or}}
Deep ==
  {Equal(1) \o <<j, Left>> \o Equal(2) \o <<k, Left>> \o Equal(3) \o <<j>> \o Equal(1)
     \o <<Right, Right>> : j, k \in {And, Or}}
  \cup {<<Left, Left, Left>> \o Equal(1) \o <<Right, j>> \o Equal(2) \o <<Right, Right>> : j \in {And, Or}}

\* Every comparison of every type, with quotients that are not whole, and divisions
\* and remainders by zero.
EachComparison ==
  {<<Name(f), Token("kdiv"), Number(2), Token(t), Name(g)>> :
     f, g \in {1, 2, 3}, t \in CompareTypes} \cup
  {<<Name(f), Token(o), Name(g), Token(t), Number(0)>> :
     o \in {"kdiv", "kmod"}, f \in {1, 3}, g \in {1, 2}, t \in {"keq", "kne", "klt"}} \cup
  {<<Name(4), Token(t), Text(n)>> : t \in CompareTypes, n \in 1 .. 6} \cup
  {<<Name(4), Token(t), Name(5)>> : t \in {"keq", "klt"}} \cup
  {<<Name(4), Token(t), Text(n)>> : t \in LikeTypes, n \in DOMAIN MCTexts}

-----------------------------------------------------------------------------
(* Tables and sessions. *)

Record(k, i1, i4, i8, d, s, t) ==
  [key |-> k, row |-> 0 :> i1 @@ 1 :> i4 @@ 2 :> i8 @@ 3 :> d @@ 4 :> s @@ 5 :> t]

\* Both values of three numbers, and all strings.
Table ==
  << Record("k1", 0, 0, 0, 0, 1, 2), Record("k2", 0, 1, 0, 1, 2, 5), Record("k3", 0, 0, 1, 1, 4, 2),
     Record("k4", 0, 1, 1, 0, 5, 2), Record("k5", 0, 1, 1, 1, 6, 6), Record("k6", 0, 0, 0, 1, 3, 3) >>

\* Ties, signs, an int8 beyond a byte, and strings that would run together.
A == Record("a", 1, -2, 1, 1, 2, 5)
B == Record("b", 2, -1, 256, 1, 4, 2)
C == Record("c", 1, -2, 3, -1, 2, 5)
Tables == {<<>>, <<A, B, C>>, <<C, B, A>>, <<B, A, C>>, <<A>>}

Get(fields, keys, where, order, offset, n) ==
  [op |-> "GET", req |-> [NoRequest EXCEPT !.fields = fields, !.keys = keys, !.where = where,
                            !.order = order, !.offset = offset, !.size = n]]
Agg(aggs, where, group) ==
  [op |-> "AGG", req |-> [NoRequest EXCEPT !.aggs = aggs, !.where = where, !.group = group]]
Del(keys, where) == [op |-> "DEL", req |-> [NoRequest EXCEPT !.keys = keys, !.where = where]]
By(f, t) == [id |-> f, type |-> t]
Fun(a, f) == [aid |-> a, fid |-> f]

Some == <<Name(1), Token("klt"), Number(-1)>>
Other == <<Name(4), Token("klike"), Text(8)>>
Bad == <<Name(1), Token("keq")>>
Wheres == {<<>>, Some, Bad}

Gets ==
  {Get(<<-1>>, keys, w, <<By(f, t)>>, o, n) :
     keys \in {<<>>, <<"c", "a", "x", "a">>}, w \in {<<>>, Some}, f \in {1, 4}, t \in {1, 2},
     o \in {0, 1}, n \in {-1, 2}} \cup
  {Get(<<2, 0>>, <<>>, <<>>, order, 0, n) :
     order \in {<<>>, <<By(0, 1)>>, <<By(0, 2), By(3, 1)>>, <<By(3, 2), By(1, 1)>>,
                <<By(2, 1)>>, <<By(2, 2)>>}, n \in {-1, 1}} \cup
  {Get(fs, <<"b">>, w, <<>>, o, n) :
     fs \in {<<>>, <<-2>>, <<1, 7>>, <<6>>, <<1, -1>>, <<3>>}, w \in Wheres, o \in {-1, 0, 4}, n \in {0, 5, -2}}

Aggs ==
  {Agg(fs, w, g) :
     fs \in {<<Fun(1, 0), Fun(2, 1), Fun(3, 2)>>, <<Fun(4, 1), Fun(5, 1), Fun(4, 0), Fun(5, 0)>>,
             <<Fun(4, 4), Fun(5, 4), Fun(9, 1)>>, <<>>, <<Fun(1, 7)>>, <<Fun(1, 6)>>},
     w \in Wheres, g \in {<<>>, <<0>>, <<4, 5>>, <<1, -1>>, <<6>>}}

Dels == {Del(k, w) : k \in {<<>>, <<"a", "a", "x">>}, w \in Wheres \cup {Other}}

Firsts == Dels \cup
  {Get(<<1>>, <<"a", "c">>, Other, <<By(1, 2)>>, 1, 1), Get(<<7>>, <<"b">>, Some, <<By(1, 1)>>, 1, 1),
   Agg(<<Fun(2, 2)>>, Other, <<1, 4>>), Agg(<<Fun(2, 2), Fun(7, 7)>>, Bad, <<1>>)}

Session(d, rs) == [data |-> d, requests |-> rs]

MCCondition == Units \cup Kinds \cup Nodes \cup Joined3 \cup Deep \cup EachComparison

MCSessions ==
  {Session(Table, <<Get(<<1>>, <<>>, c, <<>>, 0, -1)>>) : c \in MCCondition} \cup
  {Session(d, <<r>>) : d \in Tables, r \in Gets \cup Aggs \cup Dels} \cup
  {Session(<<A, B, C>>, <<r, s>>) : r \in Firsts, s \in Gets \cup Aggs \cup Dels}
=============================================================================
