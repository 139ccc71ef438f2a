---------------------------- MODULE Client_proofs ----------------------------
(***************************************************************************)
(* Proofs about the clients for any number of calls, of connections lost,  *)
(* of restarts of the server, and any size of answers.                     *)
(***************************************************************************)
EXTENDS Client, SequenceTheorems, FiniteSetTheorems, TLAPS

Counters == calls \in Nat /\ tries \in Nat /\ packed \in Nat /\ schema \in Nat
Shapes ==
  /\ lang \in {"py", "cc"}
  /\ pc \in {"connect", "send", "header", "body", "idle", "killed"}
  /\ stack \in Seq({"call", "column"})
  /\ fields \in [of : Nat, whole : BOOLEAN]
  /\ pc \in {"send", "header", "body"} => stack # <<>>
  /\ pc = "idle" => stack = <<>>

\* Units of answers, and requests, that fit the server that runs now.
AnyUnit == [call : Nat, try : Nat, schema : Nat, part : Nat]
Typed == out \in Seq(AnyUnit) /\ got \in Seq(AnyUnit)
Units == {u \in AnyUnit : u.schema = schema}
Fresh == {r \in [call : Nat, try : Nat, packed : Nat] :
            r.call = 0 \/ r.packed \in {0, schema} \/ (lang = "py" /\ r.try > 1)}

\* As long as the connection is up, all that is on it is of this server.
OfServer ==
  link = "up" =>
    /\ out \in Seq(Units) /\ inbox \in Seq(Fresh)
    /\ pc \in {"header", "body"} => got \in Seq(Units)

\* And the fields known are its fields, or none, while they are not asked for.
Known ==
  link = "up" /\ pc # "connect" /\ (stack = <<>> \/ Top = "call") => fields.of \in {0, schema}

\* A call was sent already whenever something else is done for it; before that its
\* ids are those of the fields known.
HasCall == \E i \in 1 .. Len(stack) : stack[i] = "call"
SendsCall == pc = "send" /\ stack # <<>> /\ Top = "call"
SentOnce == pc \in {"connect", "send", "header", "body"} /\ HasCall /\ ~SendsCall => tries > 0
PackedNow == SendsCall /\ tries = 0 => packed = fields.of

\* The C++ client connects once, and never sends a call twice.
CcOnce ==
  lang = "cc" =>
    /\ Len(stack) <= 1 /\ (pc = "connect" => stack = <<>>)
    /\ SendsCall => tries = 0
    /\ pc = "connect" \/ (stack # <<>> /\ Top = "column") => fields.of = 0

Control == Shapes /\ Known /\ SentOnce /\ PackedNow /\ CcOnce
ClientInv == Counters /\ Typed /\ OfServer /\ Control /\ StaleOnlyResent

-----------------------------------------------------------------------------
(* Sequences.                                                              *)

\* What is read was in the socket, and so is what is left.
LEMMA ReadKeeps ==
  ASSUME NEW S, got \in Seq(S), out \in Seq(S), NEW n \in Nat, Read(n)
  PROVE  got' \in Seq(S) /\ out' \in Seq(S)
<1>1. n \in 0 .. Len(out)
  BY LenProperties DEF Read
<1>2. \A i \in 1 .. Len(out) : out[i] \in S
  BY ElementOfSeq
<1>3. SubSeq(out, 1, n) \in Seq(S)
  BY <1>1, <1>2, SubSeqProperties
<1>4. SubSeq(out, n + 1, Len(out)) \in Seq(S)
  BY <1>1, <1>2, SubSeqProperties, LenProperties
<1> QED
  BY <1>3, <1>4, ConcatProperties DEF Read

\* The stack with a request more, and with one less.
LEMMA Pushed ==
  ASSUME stack \in Seq({"call", "column"}), stack' = Asked
  PROVE  /\ stack' \in Seq({"call", "column"}) /\ stack' # <<>> /\ Top' = "column"
         /\ Len(stack') = Len(stack) + 1
         /\ HasCall' => HasCall
BY DEF Asked, Top, HasCall

LEMMA Prefix ==
  ASSUME NEW S, NEW s \in Seq(S), NEW n \in 0 .. Len(s)
  PROVE  /\ SubSeq(s, 1, n) \in Seq(S) /\ Len(SubSeq(s, 1, n)) = n
         /\ \A i \in 1 .. n : SubSeq(s, 1, n)[i] = s[i]
<1>1. \A i \in 1 .. n : s[i] \in S
  BY ElementOfSeq
<1>2. \A i \in 1 .. n : SubSeq(s, 1, n)[i] = s[1 + i - 1]
  BY <1>1, SubSeqProperties
<1> QED
  BY <1>1, <1>2, SubSeqProperties

LEMMA Popped ==
  ASSUME stack \in Seq({"call", "column"}), stack # <<>>, stack' = Pop
  PROVE  /\ stack' \in Seq({"call", "column"}) /\ Len(stack') = Len(stack) - 1
         /\ HasCall' => HasCall
<1>1. Len(stack) - 1 \in 0 .. Len(stack)
  BY EmptySeq
<1> DEFINE Requests == {"call", "column"}
           n == Len(stack) - 1
<1>2. n \in 0 .. Len(stack) /\ stack \in Seq(Requests) /\ stack' = SubSeq(stack, 1, n)
  BY <1>1 DEF Pop
<1> HIDE DEF Requests, n
<1>3. /\ stack' \in Seq(Requests) /\ Len(stack') = n
      /\ \A i \in 1 .. n : stack'[i] = stack[i]
  BY <1>2, Prefix
<1>4. HasCall' => HasCall
  BY <1>2, <1>3 DEF HasCall
<1> QED
  BY <1>3, <1>4 DEF Requests, n

-----------------------------------------------------------------------------
(* The first state, and each step.                                         *)

\* Initially nothing was sent and nothing is known.
LEMMA InitInv == Init => ClientInv
BY ClientAssumption DEF Init, ClientInv, Control, Typed, Counters, Shapes, OfServer, Known, SentOnce, PackedNow,
  CcOnce, StaleOnlyResent, NoFields, HasCall, SendsCall, Top

\* A server executes a request that fits it.
LEMMA ExecuteStep == ClientInv /\ Execute => ClientInv'
<1> SUFFICES ASSUME ClientInv, Execute PROVE ClientInv'
  OBVIOUS
<1>1. link = "up" /\ inbox \in Seq(Fresh) /\ inbox # <<>> /\ out \in Seq(Units)
  BY DEF Execute, ClientInv, OfServer
<1>2. Head(inbox) \in Fresh /\ Tail(inbox) \in Seq(Fresh)
  BY <1>1, HeadTailProperties
<1>3. Answer(Head(inbox)) \in Seq(Units)
  <2>1. HeaderUnits + BodyUnits \in Nat
    BY ClientAssumption DEF HeaderUnits
  <2>2. \A p \in 1 .. HeaderUnits + BodyUnits :
          [call |-> Head(inbox).call, try |-> Head(inbox).try, schema |-> schema, part |-> p]
          \in Units
    BY <1>2, <2>1 DEF Fresh, Units, AnyUnit, ClientInv, Counters
  <2> QED
    BY <2>1, <2>2 DEF Answer
<1>4. OfServer'
  <2>1. out' \in Seq(Units) /\ inbox' \in Seq(Fresh)
    BY <1>1, <1>2, <1>3, ConcatProperties, EmptySeq DEF Execute
  <2> QED
    BY <1>1, <2>1 DEF Execute, clientVars, ClientInv, OfServer, Fresh, Units
<1>5. StaleOnlyResent'
  BY <1>1, <1>2 DEF Execute, clientVars, ClientInv, StaleOnlyResent, Fresh
<1>6. Typed'
  <2>1. \A u \in Units : u \in AnyUnit
    BY DEF Units
  <2>2. Answer(Head(inbox)) \in Seq(AnyUnit)
    BY <1>3, <2>1, SeqMonotonic
  <2> QED
    BY <2>2, ConcatProperties DEF Execute, clientVars, ClientInv, Typed
<1> QED
  BY <1>4, <1>5, <1>6 DEF Execute, clientVars, ClientInv, Control, Counters, Shapes, Known, SentOnce, PackedNow,
    CcOnce, HasCall, SendsCall, Top

\* A server that goes takes the connection with it.
LEMMA DisconnectStep == ClientInv /\ Disconnect => ClientInv'
<1> SUFFICES ASSUME ClientInv, Disconnect PROVE ClientInv'
  OBVIOUS
<1>1. link' # "up" /\ schema' \in Nat
  BY ClientAssumption DEF Disconnect, ClientInv, Counters
<1>2. Typed'
  BY Prefix, LenProperties DEF Disconnect, clientVars, ClientInv, Typed
<1> QED
  BY <1>1, <1>2 DEF Disconnect, clientVars, ClientInv, Control, Counters, Shapes, OfServer, Known, SentOnce,
    PackedNow, CcOnce, StaleOnlyResent, HasCall, SendsCall, Top

\* The ids of a new call are those of the fields known.
LEMMA BeginStep == ClientInv /\ Begin => ClientInv'
BY DEF Begin, netVars, ClientInv, Control, Typed, Counters, Shapes, OfServer, Known, SentOnce, PackedNow, CcOnce,
  StaleOnlyResent, HasCall, SendsCall, Top, Units, Fresh

\* The first thing asked over a new socket is the list of fields.
LEMMA ConnectStep == ClientInv /\ Connect => ClientInv'
<1> SUFFICES ASSUME ClientInv, Connect PROVE ClientInv'
  OBVIOUS
<1>1. /\ stack' \in Seq({"call", "column"}) /\ stack' # <<>> /\ Top' = "column"
      /\ Len(stack') = Len(stack) + 1
      /\ HasCall' => HasCall
  BY Pushed DEF Connect, ClientInv, Control, Shapes
<1>2. ~SendsCall /\ ~SendsCall'
  BY <1>1 DEF Connect, SendsCall
<1>3. Counters' /\ Typed' /\ Shapes' /\ OfServer'
  BY <1>1 DEF Connect, ClientInv, Control, Counters, Typed, Shapes, OfServer
<1>4. Known' /\ SentOnce' /\ PackedNow'
  BY <1>1, <1>2 DEF Connect, ClientInv, Control, Known, SentOnce, PackedNow
<1>5. CcOnce'
  BY <1>1, <1>2 DEF Connect, ClientInv, Control, CcOnce
<1> QED
  BY <1>3, <1>4, <1>5 DEF Connect, ClientInv, Control, StaleOnlyResent

-----------------------------------------------------------------------------
(* How a call goes on: a failure, another connection, an answer used.      *)

\* A C++ call that fails leaves the fields known as they were.
LEMMA FailControl ==
  ASSUME ClientInv, Fail, lang = "cc", pc # "connect", UNCHANGED <<lang, tries, packed, link, schema>>
  PROVE  Control' /\ pc' = "idle"
<1>1. stack # <<>> => Top \in {"call", "column"}
  BY EmptySeq, ElementOfSeq DEF ClientInv, Control, Shapes, Top
<1> QED
  BY <1>1 DEF ClientInv, Control, Shapes, Known, SentOnce, PackedNow, CcOnce, HasCall, SendsCall,
    Top, Fail

\* Python connects again when a request was sent.
LEMMA ReconnectControl ==
  ASSUME ClientInv, Reconnect, lang = "py", pc \in {"header", "body"},
         UNCHANGED <<lang, tries, packed>>
  PROVE  Control' /\ pc' = "connect"
BY DEF ClientInv, Control, Shapes, Known, SentOnce, PackedNow, CcOnce, HasCall, SendsCall, Top,
  Reconnect

\* Either way, the answer is no longer waited for.
LEMMA BrokenControl ==
  ASSUME ClientInv, Broken, pc \in {"header", "body"},
         UNCHANGED <<lang, tries, packed, link, schema>>
  PROVE  Control' /\ pc' \in {"idle", "connect"}
BY FailControl, ReconnectControl DEF Broken, ClientInv

\* The list of fields learnt is that of the server that sent it.
LEMMA LearntIsServers ==
  ASSUME ClientInv, pc = "body"
  PROVE  /\ Learnt \in [of : Nat, whole : BOOLEAN]
         /\ link = "up" => Learnt.of \in {0, schema}
<1>1. HeaderUnits + BodyUnits \in Nat \ {0} /\ HeaderUnits \in Nat /\ Len(got) \in Nat
  BY ClientAssumption, LenProperties DEF HeaderUnits, ClientInv, Typed
<1>2. 1 \in 1 .. Len(got) => got[1].schema \in Nat
  <2>1. 1 \in 1 .. Len(got) => got[1] \in AnyUnit
    BY ElementOfSeq DEF ClientInv, Typed
  <2> QED
    BY <2>1 DEF AnyUnit
<1>3. 1 \in 1 .. Len(got) /\ link = "up" => got[1].schema = schema
  BY ElementOfSeq DEF ClientInv, OfServer, Units
<1> QED
  BY <1>1, <1>2, <1>3 DEF Learnt, NoFields

\* The fields known when a call is packed are those of the server.
LEMMA UseControl ==
  ASSUME ClientInv, Use, pc = "body", UNCHANGED <<lang, tries, packed, link, schema>>
  PROVE  Control' /\ pc' \in {"idle", "send", "connect"}
<1>1. CASE UseCall
  BY <1>1 DEF UseCall, ClientInv, Control, Shapes, Known, SentOnce, PackedNow, CcOnce, HasCall,
    SendsCall, Top
<1>2. CASE UseColumn
  <2>1. /\ stack' \in Seq({"call", "column"}) /\ Len(stack') = Len(stack) - 1
        /\ HasCall' => HasCall
    BY <1>2, Popped DEF UseColumn, ClientInv, Control, Shapes
  <2>2. fields' \in [of : Nat, whole : BOOLEAN]
    BY <1>2, LearntIsServers DEF UseColumn, ClientInv, Control, Shapes
  <2>3. pc' = "send" => stack' # <<>>
    BY <1>2 DEF UseColumn
  <2>4. pc' = "idle" => stack' = <<>>
    BY <1>2 DEF UseColumn
  <2>5. Shapes' /\ pc' \in {"idle", "send", "connect"}
    BY <1>2, <2>1, <2>2, <2>3, <2>4 DEF UseColumn, ClientInv, Control, Shapes
  <2>6. Known'
    BY <1>2, LearntIsServers DEF UseColumn, Known
  <2>7. HasCall => tries > 0
    BY DEF ClientInv, Control, SentOnce, SendsCall
  <2>8. SentOnce'
    BY <2>1, <2>7 DEF SentOnce
  <2>9. PackedNow'
    <3>1. SendsCall' => HasCall'
      BY <2>1, EmptySeq DEF SendsCall, HasCall, Top
    <3> QED
      BY <2>1, <2>7, <3>1 DEF ClientInv, Counters, PackedNow
  <2>10. CcOnce'
    <3>1. lang = "cc" => stack' = <<>> /\ pc' # "connect"
      BY <1>2, <2>1, EmptySeq DEF UseColumn, ClientInv, Control, CcOnce
    <3> QED
      BY <2>5, <3>1 DEF CcOnce, SendsCall
  <2> QED
    BY <2>5, <2>6, <2>8, <2>9, <2>10 DEF Control
<1> QED
  BY <1>1, <1>2 DEF Use

-----------------------------------------------------------------------------
(* The steps that send and receive.                                        *)

\* A request fits the server when it is sent for the first time.
LEMMA SentStep == ClientInv /\ Sent => ClientInv'
<1> SUFFICES ASSUME ClientInv, Sent PROVE ClientInv'
  OBVIOUS
<1>1. stack # <<>> /\ Top \in {"call", "column"}
  BY EmptySeq, ElementOfSeq DEF Sent, ClientInv, Control, Shapes, Top
<1>2. SendsCall <=> Top = "call"
  BY <1>1 DEF Sent, SendsCall
<1>3. Counters' /\ Typed'
  BY EmptySeq DEF Sent, ClientInv, Counters, Typed
<1>4. OfServer'
  <2>1. CASE link = "up"
    <3>1. Request \in Fresh
      <4>1. CASE Top = "column"
        BY <4>1 DEF Request, Fresh, ClientInv, Counters
      <4>2. CASE Top = "call" /\ tries = 0
        <5>1. packed \in {0, schema}
          BY <1>2, <2>1, <4>2 DEF Sent, ClientInv, Control, Known, PackedNow
        <5> QED
          BY <4>2, <5>1 DEF Request, Fresh, ClientInv, Counters
      <4>3. CASE Top = "call" /\ tries # 0
        <5>1. lang = "py" /\ tries + 1 > 1
          BY <1>2, <4>3 DEF ClientInv, Control, Counters, Shapes, CcOnce
        <5> QED
          BY <4>3, <5>1 DEF Request, Fresh, ClientInv, Counters
      <4> QED
        BY <1>1, <4>1, <4>2, <4>3
    <3>2. inbox' \in Seq(Fresh) /\ out' \in Seq(Units) /\ got' = <<>>
      BY <2>1, <3>1, AppendProperties DEF Sent, ClientInv, OfServer
    <3> QED
      BY <3>2, EmptySeq DEF Sent, OfServer, Fresh, Units
  <2>2. CASE link # "up"
    BY <2>2 DEF Sent, OfServer
  <2> QED
    BY <2>1, <2>2
<1>5. Control'
  BY <1>1, <1>2 DEF Sent, ClientInv, Counters, Control, Shapes, Known, SentOnce, PackedNow, CcOnce,
    HasCall, SendsCall, Top
<1> QED
  BY <1>3, <1>4, <1>5 DEF Sent, ClientInv, StaleOnlyResent

\* A reset, and what a request that is not sent does to the client.
LEMMA CutShortStep == ClientInv /\ CutShort => ClientInv'
BY DEF CutShort, clientVars, ClientInv, Control, Typed, Counters, Shapes, OfServer, Known, SentOnce,
  PackedNow, CcOnce, StaleOnlyResent, HasCall, SendsCall, Top

LEMMA SendFailsStep == ClientInv /\ SendFails => ClientInv'
<1> SUFFICES ASSUME ClientInv, SendFails PROVE ClientInv'
  OBVIOUS
<1>1. Counters' /\ Typed' /\ OfServer' /\ StaleOnlyResent'
  BY DEF SendFails, netVars, ClientInv, Counters, Typed, OfServer, StaleOnlyResent
<1>2. CASE Fail
  BY <1>1, <1>2, FailControl DEF SendFails, netVars, ClientInv
<1>3. CASE pc' = "killed" /\ UNCHANGED <<stack, outcome, fields>>
  BY <1>1, <1>3 DEF SendFails, netVars, ClientInv, Control, Shapes, Known, SentOnce, PackedNow,
    CcOnce, HasCall, SendsCall, Top
<1> QED
  BY <1>2, <1>3 DEF SendFails

\* What is read while an answer is waited for is of the server.
LEMMA ReadFits ==
  ASSUME ClientInv, pc \in {"header", "body"}, NEW n \in Nat, Read(n),
         UNCHANGED <<lang, link, inbox, schema>>
  PROVE  Typed' /\ OfServer'
<1>1. Typed'
  BY ReadKeeps DEF ClientInv, Typed
<1>2. link = "up" => got' \in Seq(Units) /\ out' \in Seq(Units)
  BY ReadKeeps DEF ClientInv, OfServer
<1> QED
  BY <1>1, <1>2 DEF ClientInv, OfServer, Units, Fresh

\* The header of an answer.
LEMMA RecvHeaderStep == ClientInv /\ RecvHeader => ClientInv'
<1> SUFFICES ASSUME ClientInv, RecvHeader PROVE ClientInv'
  OBVIOUS
<1>1. Typed' /\ OfServer'
  BY ReadFits DEF RecvHeader, HeaderUnits
<1>2. Counters' /\ StaleOnlyResent'
  BY DEF RecvHeader, ClientInv, Counters, StaleOnlyResent
<1>3. Control'
  <2>1. CASE pc' = "body" /\ UNCHANGED <<stack, outcome, fields>>
    BY <2>1 DEF RecvHeader, ClientInv, Control, Shapes, Known, SentOnce, PackedNow, CcOnce, HasCall,
      SendsCall, Top
  <2>2. CASE lang = "cc" /\ Fail
    BY <2>2, FailControl DEF RecvHeader
  <2> QED
    BY <2>1, <2>2 DEF RecvHeader
<1> QED
  BY <1>1, <1>2, <1>3 DEF ClientInv

\* A part of a header, or nothing.
LEMMA RecvPartStep == ClientInv /\ RecvPart => ClientInv'
<1> SUFFICES ASSUME ClientInv, RecvPart PROVE ClientInv'
  OBVIOUS
<1>1. Typed' /\ OfServer'
  <2>1. PICK n \in Nat : Read(n)
    BY DEF RecvPart, HeaderUnits
  <2> QED
    BY <2>1, ReadFits DEF RecvPart
<1>2. Counters' /\ StaleOnlyResent'
  BY DEF RecvPart, ClientInv, Counters, StaleOnlyResent
<1> QED
  BY <1>1, <1>2, BrokenControl DEF RecvPart, ClientInv

\* Part of a body.
LEMMA RecvBodyStep == ClientInv /\ RecvBody => ClientInv'
<1> SUFFICES ASSUME ClientInv, RecvBody PROVE ClientInv'
  OBVIOUS
<1>1. PICK n \in 1 .. HeaderUnits + need - Len(got) : Read(n)
  BY DEF RecvBody
<1>2. n \in Nat
  OBVIOUS
<1>3. Typed' /\ OfServer'
  BY <1>1, <1>2, ReadFits DEF RecvBody
<1> QED
  BY <1>3 DEF RecvBody, ClientInv, Counters, Control, Shapes, Known, SentOnce, PackedNow, CcOnce,
    StaleOnlyResent, HasCall, SendsCall, Top

\* Once an answer is used nothing of it is kept but the list of fields.
LEMMA NotReceiving ==
  ASSUME ClientInv, pc' \notin {"header", "body"}, UNCHANGED <<lang, calls, tries, packed, got, netVars>>
  PROVE  Counters' /\ Typed' /\ OfServer' /\ StaleOnlyResent'
BY DEF netVars, ClientInv, Counters, Typed, OfServer, StaleOnlyResent, Units, Fresh

\* The whole of an answer, or the end of the connection inside it.
LEMMA RecvDoneStep == ClientInv /\ RecvDone => ClientInv'
BY UseControl, NotReceiving DEF RecvDone, netVars, ClientInv

LEMMA RecvCutStep == ClientInv /\ RecvCut => ClientInv'
<1> SUFFICES ASSUME ClientInv, RecvCut PROVE ClientInv'
  OBVIOUS
<1>1. Control' /\ pc' \notin {"header", "body"}
  BY UseControl, BrokenControl DEF RecvCut, netVars
<1> QED
  BY <1>1, NotReceiving DEF RecvCut, ClientInv

-----------------------------------------------------------------------------
(* The theorem.                                                            *)

\* Every step keeps the invariant.
LEMMA NextKeepsInv == ClientInv /\ [Next]_vars => ClientInv'
<1> SUFFICES ASSUME ClientInv, [Next]_vars PROVE ClientInv'
  OBVIOUS
<1>1. CASE UNCHANGED vars
  BY <1>1 DEF vars, clientVars, netVars, ClientInv, Counters, Typed, Control, Shapes, OfServer,
    Known, SentOnce, PackedNow, CcOnce, StaleOnlyResent, HasCall, SendsCall, Top, Units, Fresh
<1>2. CASE Next
  BY <1>2, BeginStep, ConnectStep, SentStep, SendFailsStep, RecvHeaderStep, RecvPartStep,
    RecvBodyStep, RecvDoneStep, RecvCutStep, CutShortStep, ExecuteStep, DisconnectStep
  DEF Next, Client
<1> QED
  BY <1>1, <1>2

\* For any number of calls, of connections lost and of lists of fields, and answers
\* of any size: the ids of a request that is executed are those of the server that
\* executes it, unless Python sends the request again; no request of C++ is ever
\* executed with the ids of another list.  (__connect, __send_and_recv;
\* Client::Client, Client::Recv.)
THEOREM FirstSendingFresh == Spec => []StaleOnlyResent
<1>1. ClientInv => StaleOnlyResent
  BY DEF ClientInv
<1> QED
  BY <1>1, InitInv, NextKeepsInv, PTL DEF Spec

-----------------------------------------------------------------------------
(* Whose answer it is.                                                     *)

Total == HeaderUnits + BodyUnits

\* No Recv of C++ has left part of an answer behind.
Clean == lang = "py" \/ ~skewed

\* The request under way, once it was sent, and the last sending of the last call.
Sending == [call |-> IF Top = "call" THEN calls ELSE 0,
            try  |-> IF Top = "call" THEN tries ELSE 0,
            packed |-> packed]
Last == [call |-> calls, try |-> tries, packed |-> packed]

\* u is unit p of the answer to s, which a server has executed.
Fits(u, p, s, R) ==
  /\ u.part = p /\ u.call = s.call /\ u.try = s.try
  /\ s.call # 0 => [call |-> s.call, try |-> s.try, packed |-> s.packed, schema |-> u.schema] \in R

Quiet == inbox = <<>> /\ out = <<>>

\* What was read and what is left are of the answer that is waited for, all of it
\* while the connection is up.
Coming ==
  /\ inbox = <<>>
  /\ Len(got) + Len(out) <= Total
  /\ link = "up" => Len(got) + Len(out) = Total
  /\ \A p \in 1 .. Len(got) : Fits(got[p], p, Sending, ran)
  /\ \A p \in 1 .. Len(out) : Fits(out[p], Len(got) + p, Sending, ran)

\* One request and one answer at a time.
Exchange ==
  /\ link # "up" => inbox = <<>>
  /\ Len(inbox) <= 1
  /\ pc \in {"idle", "send"} => Quiet
  /\ pc = "header" =>
       got = <<>> /\ ((link = "up" /\ inbox = <<Sending>> /\ out = <<>>) \/ Coming)
  /\ pc = "body" => need = BodyUnits /\ Len(got) >= HeaderUnits /\ Coming

\* Every sending is executed once at most.
Made(r, call, try) ==
  /\ r.call \in Nat /\ r.try \in Nat \ {0} /\ r.call <= call
  /\ r.call = call => r.try <= try
Same(r, q) == r.call = q.call /\ r.try = q.try
Executed ==
  /\ \A r \in ran : Made(r, calls, tries)
  /\ \A r, q \in ran : Same(r, q) => r = q
  /\ \A i \in 1 .. Len(inbox) : inbox[i].call # 0 =>
       Made(inbox[i], calls, tries) /\ \A r \in ran : ~Same(r, inbox[i])

OneAtATime == Clean => Exchange /\ Executed

\* The list that is known, the stack, and what is on the way are within bounds.
RequestOf == [call : 0 .. MaxCalls, try : 0 .. MaxFaults + 1, packed : 0 .. MaxSchema]
Bounds ==
  /\ got \in Seq(Unit) /\ out \in Seq(Unit) /\ inbox \in Seq(RequestOf)
  /\ \A i \in 2 .. Len(stack) : stack[i] = "column"
  /\ calls \in 0 .. MaxCalls /\ packed \in 0 .. MaxSchema /\ fields.of \in 0 .. MaxSchema
  /\ schema \in 1 .. MaxSchema /\ faults \in 0 .. MaxFaults
  /\ outcome \in {"none", "answered", "failed"} /\ link \in {"up", "fin", "rst"}

\* What is asked for again, and how deep, was paid for with a failure.
One(b) == IF b THEN 1 ELSE 0
Waits == HasCall /\ ~(Top = "call" /\ pc \in {"header", "body"})
CallCounted == HasCall => calls > 0
LossCounted == link # "up" => faults > 0
PyDepth == lang = "py" => Len(stack) + One(pc = "connect" \/ link # "up") <= faults + 2
PyTries == lang = "py" => tries + One(link # "up" /\ pc # "connect") <= faults + One(~Waits)
CcQueue == lang = "cc" => tries <= 1 /\ Len(inbox) + One(pc \in {"connect", "send"}) <= calls + 1
Costs == CallCounted /\ LossCounted /\ PyDepth /\ PyTries /\ CcQueue

\* The call that was answered.
Answered ==
  outcome = "answered" =>
    /\ pc = "idle" /\ calls > 0
    /\ Clean => /\ Len(got) >= HeaderUnits
                /\ Len(got) = Total \/ (lang = "py" /\ link # "up")
                /\ \A p \in 1 .. Len(got) : Fits(got[p], p, Last, ran)

AnswerInv == OneAtATime /\ Bounds /\ Costs /\ Answered

\* The sizes of what there is.
LEMMA Sizes ==
  ASSUME ClientInv
  PROVE  /\ HeaderUnits = 2 /\ BodyUnits \in Nat \ {0} /\ Total = 2 + BodyUnits
         /\ Len(got) \in Nat /\ Len(out) \in Nat /\ Len(stack) \in Nat
         /\ got \in Seq(AnyUnit) /\ out \in Seq(AnyUnit)
         /\ calls \in Nat /\ tries \in Nat /\ lang \in {"py", "cc"}
BY ClientAssumption, LenProperties DEF ClientInv, Control, Shapes, Typed, Counters, Total, HeaderUnits

\* A step after which no answer is waited for.
LEMMA Ended ==
  ASSUME OneAtATime, UNCHANGED <<lang, calls, tries, ran, inbox, link>>, Clean' => Clean,
         pc' \notin {"header", "body"},
         Clean /\ pc' \in {"idle", "send"} => Quiet'
  PROVE  OneAtATime'
<1>1. CASE Clean'
  <2>1. Exchange /\ Executed
    BY <1>1 DEF OneAtATime
  <2>2. Exchange'
    BY <1>1, <2>1 DEF Exchange
  <2>3. Executed'
    BY <2>1 DEF Executed
  <2> QED
    BY <2>2, <2>3 DEF OneAtATime
<1> QED
  BY <1>1 DEF OneAtATime

\* What is read moves.
LEMMA ReadMoves ==
  ASSUME NEW S, got \in Seq(S), out \in Seq(S), NEW n \in Nat, Read(n)
  PROVE  /\ Len(got') = Len(got) + n /\ Len(out') = Len(out) - n /\ n <= Len(out)
         /\ \A p \in 1 .. Len(got) + n :
              got'[p] = IF p <= Len(got) THEN got[p] ELSE out[p - Len(got)]
         /\ \A p \in 1 .. Len(out) - n : out'[p] = out[n + p]
<1>1. n \in 0 .. Len(out) /\ Len(out) \in Nat /\ Len(got) \in Nat
  BY LenProperties DEF Read
<1>2. /\ SubSeq(out, 1, n) \in Seq(S) /\ Len(SubSeq(out, 1, n)) = n
      /\ \A i \in 1 .. n : SubSeq(out, 1, n)[i] = out[i]
  BY <1>1, Prefix
<1>3. /\ Len(got') = Len(got) + n
      /\ \A p \in 1 .. Len(got) + n :
           got'[p] = IF p <= Len(got) THEN got[p] ELSE SubSeq(out, 1, n)[p - Len(got)]
  BY <1>2, ConcatProperties DEF Read
<1>4. \A p \in 1 .. Len(got) + n :
        got'[p] = IF p <= Len(got) THEN got[p] ELSE out[p - Len(got)]
  BY <1>1, <1>2, <1>3
<1>5. \A i \in n + 1 .. Len(out) : out[i] \in S
  BY <1>1, ElementOfSeq
<1>6. /\ Len(SubSeq(out, n + 1, Len(out))) = Len(out) - n
      /\ \A p \in 1 .. Len(out) - n : SubSeq(out, n + 1, Len(out))[p] = out[n + p]
  BY <1>1, <1>5, SubSeqProperties
<1> QED
  BY <1>1, <1>3, <1>4, <1>6 DEF Read

\* And stays part of the same answer.
LEMMA ReadComing ==
  ASSUME ClientInv, Coming, NEW n \in Nat, Read(n),
         UNCHANGED <<stack, calls, tries, packed, link, inbox, ran>>
  PROVE  Coming'
<1>1. /\ Len(got') = Len(got) + n /\ Len(out') = Len(out) - n /\ n <= Len(out)
      /\ \A p \in 1 .. Len(got) + n :
           got'[p] = IF p <= Len(got) THEN got[p] ELSE out[p - Len(got)]
      /\ \A p \in 1 .. Len(out) - n : out'[p] = out[n + p]
  BY ReadMoves DEF ClientInv, Typed
<1>2. Len(got) \in Nat /\ Len(out) \in Nat
  BY Sizes
<1>3. Sending' = Sending
  BY DEF Sending, Top
<1>4. \A p \in 1 .. Len(got') : Fits(got'[p], p, Sending, ran)
  <2> SUFFICES ASSUME NEW p \in 1 .. Len(got') PROVE Fits(got'[p], p, Sending, ran)
    OBVIOUS
  <2>1. CASE p <= Len(got)
    BY <1>1, <1>2, <2>1 DEF Coming
  <2>2. CASE p > Len(got)
    <3>1. PICK q \in 1 .. Len(out) : p = Len(got) + q /\ q = p - Len(got)
      BY <1>1, <1>2, <2>2
    <3>2. got'[p] = out[q]
      BY SMTT(30), <1>1, <1>2, <2>2, <3>1
    <3>3. Fits(out[q], Len(got) + q, Sending, ran)
      BY DEF Coming
    <3> QED
      BY <3>1, <3>2, <3>3
  <2> QED
    BY <1>1, <1>2, <2>1, <2>2
<1>5. \A p \in 1 .. Len(out') : Fits(out'[p], Len(got') + p, Sending, ran)
  <2> SUFFICES ASSUME NEW p \in 1 .. Len(out') PROVE Fits(out'[p], Len(got') + p, Sending, ran)
    OBVIOUS
  <2>1. PICK q \in 1 .. Len(out) : q = n + p
    BY <1>1, <1>2
  <2>2. out'[p] = out[q] /\ Len(got') + p = Len(got) + q
    BY <1>1, <1>2, <2>1
  <2>3. Fits(out[q], Len(got) + q, Sending, ran)
    BY DEF Coming
  <2> QED
    BY <2>2, <2>3
<1>6. Len(got') + Len(out') = Len(got) + Len(out)
  BY <1>1, <1>2
<1> QED
  BY <1>3, <1>4, <1>5, <1>6 DEF Coming

-----------------------------------------------------------------------------
(* One at a time: each step.                                               *)

\* A server answers the request it executes, and has not executed it before.
LEMMA ExecuteOne == ClientInv /\ AnswerInv /\ Execute => OneAtATime'
<1> SUFFICES ASSUME ClientInv, AnswerInv, Execute, Clean PROVE (Exchange /\ Executed)'
  BY DEF OneAtATime, Execute, clientVars, Clean
<1>1. Exchange /\ Executed
  BY DEF AnswerInv, OneAtATime
<1>2. /\ link = "up" /\ inbox # <<>> /\ inbox \in Seq(RequestOf)
      /\ UNCHANGED <<clientVars, link, schema>>
  BY DEF Execute, AnswerInv, Bounds
<1>3. PICK r \in RequestOf : inbox = <<r>>
  BY SMTT(30), <1>1, <1>2, EmptySeq, LenProperties, ElementOfSeq DEF Exchange
<1>4. inbox' = <<>> /\ Len(inbox') = 0
  BY <1>3 DEF Execute
<1>5. out' = out \o Answer(r)
  BY <1>3 DEF Execute
<1>6. ran' = ran \cup {[call |-> q.call, try |-> q.try, packed |-> q.packed, schema |-> schema] :
                       q \in {i \in {r} : i.call # 0}}
  BY <1>3 DEF Execute
<1> DEFINE x == [call |-> r.call, try |-> r.try, packed |-> r.packed, schema |-> schema]
<1>7. ran' = IF r.call # 0 THEN ran \cup {x} ELSE ran
  BY <1>6
<1>8. r.call # 0 => Made(r, calls, tries) /\ \A q \in ran : ~Same(q, r)
  BY <1>1, <1>3 DEF Executed
<1>9. Made(x, calls, tries) <=> Made(r, calls, tries)
  BY DEF Made
<1>10. \A q : Same(q, x) <=> Same(q, r)
  BY DEF Same
<1>11. Executed'
  <2>1. calls' = calls /\ tries' = tries
    BY <1>2 DEF clientVars
  <2>2. \A q, s : Same(q, s) <=> Same(s, q)
    BY DEF Same
  <2> HIDE DEF x
  <2>3. \A q \in ran' : Made(q, calls, tries)
    BY <1>1, <1>7, <1>8, <1>9 DEF Executed
  <2>4. \A q, s \in ran' : Same(q, s) => q = s
    BY <1>1, <1>7, <1>8, <1>10, <2>2 DEF Executed
  <2>5. \A i \in 1 .. Len(inbox') : FALSE
    BY <1>4
  <2> QED
    BY <2>1, <2>3, <2>4, <2>5 DEF Executed
<1>12. Exchange'
  <2>1. pc \notin {"idle", "send", "body"}
    BY <1>1, <1>3 DEF Exchange, Quiet, Coming
  <2>2. CASE pc = "header"
    <3>1. got = <<>> /\ out = <<>> /\ r = Sending
      BY <1>1, <1>3, <2>2 DEF Exchange, Coming
    <3>2. Total \in Nat
      BY Sizes
    <3> DEFINE a == Answer(r)
    <3>3. /\ Len(a) = Total
          /\ \A p \in 1 .. Total :
               a[p] = [call |-> r.call, try |-> r.try, schema |-> schema, part |-> p]
      BY <3>2 DEF Answer, Total
    <3>4. out' = a
      <4> DEFINE S == {[call |-> r.call, try |-> r.try, schema |-> schema, part |-> p] :
                       p \in 1 .. HeaderUnits + BodyUnits}
      <4>1. HeaderUnits + BodyUnits \in Nat
        BY <3>2 DEF Total
      <4>2. \A p \in 1 .. HeaderUnits + BodyUnits :
              [call |-> r.call, try |-> r.try, schema |-> schema, part |-> p] \in S
        OBVIOUS
      <4> HIDE DEF S
      <4>3. a \in Seq(S)
        BY <4>1, <4>2 DEF Answer
      <4> HIDE DEF a
      <4> QED
        BY <1>5, <3>1, <4>3, ConcatEmptySeq DEF a
    <3> HIDE DEF a
    <3>5. \A p \in 1 .. Len(out') : Fits(out'[p], p, r, ran')
      BY <1>7, <3>3, <3>4 DEF Fits
    <3>6. Sending' = r /\ got' = <<>> /\ Len(got') = 0 /\ link' = "up" /\ pc' = "header"
      BY <1>2, <2>2, <3>1 DEF clientVars, Sending, Top
    <3>7. Len(out') = Total
      BY <3>3, <3>4
    <3>8. Coming'
      <4>1. \A p \in 1 .. Len(out') : 0 + p = p
        BY <3>2, <3>7
      <4>2. \A p \in 1 .. Len(got') : FALSE
        BY <3>6
      <4>3. Len(got') + Len(out') = Total
        BY <3>2, <3>6, <3>7
      <4> QED
        BY <1>4, <3>2, <3>5, <3>6, <4>1, <4>2, <4>3 DEF Coming
    <3> QED
      BY <1>4, <3>6, <3>8 DEF Exchange
  <2>3. CASE pc \notin {"idle", "send", "body", "header"}
    BY <1>2, <1>4, <2>3 DEF Exchange, clientVars
  <2> QED
    BY <2>1, <2>2, <2>3
<1> QED
  BY <1>11, <1>12

\* A server that goes leaves the beginning of what it wrote.
LEMMA DisconnectOne == ClientInv /\ AnswerInv /\ Disconnect => OneAtATime'
<1> SUFFICES ASSUME ClientInv, AnswerInv, Disconnect, Clean PROVE (Exchange /\ Executed)'
  BY DEF OneAtATime, Disconnect, clientVars, Clean
<1>1. Exchange /\ Executed
  BY DEF AnswerInv, OneAtATime
<1>2. link' # "up" /\ inbox' = <<>> /\ Len(inbox') = 0 /\ UNCHANGED <<clientVars, ran>>
  BY DEF Disconnect
<1>3. PICK n \in 0 .. Len(out) : out' = SubSeq(out, 1, n)
  BY DEF Disconnect
<1>4. /\ out \in Seq(AnyUnit) /\ Len(out) \in Nat /\ Len(got) \in Nat
  BY Sizes
<1>5. Len(out') = n /\ \A i \in 1 .. n : out'[i] = out[i]
  BY <1>3, <1>4, Prefix
<1>6. Sending' = Sending
  BY <1>2 DEF clientVars, Sending, Top
<1>7. Executed'
  BY <1>1, <1>2 DEF Executed, clientVars
<1>8. Coming => Coming'
  <2> SUFFICES ASSUME Coming PROVE Coming'
    OBVIOUS
  <2>1. \A p \in 1 .. Len(out') : Fits(out'[p], Len(got) + p, Sending, ran)
    BY <1>4, <1>5 DEF Coming
  <2>2. Len(got) + Len(out') <= Total
    BY <1>4, <1>5, Sizes DEF Coming
  <2> QED
    BY <1>2, <1>6, <2>1, <2>2 DEF Coming, clientVars
<1>9. out = <<>> => out' = <<>>
  BY <1>3, <1>4, <1>5, EmptySeq, Prefix
<1>10. pc = "header" => Coming'
  <2>1. CASE got = <<>> /\ out = <<>>
    <3>1. Len(got') = 0 /\ Len(out') = 0 /\ Total \in Nat
      BY <1>2, <1>9, <2>1, Sizes DEF clientVars
    <3> QED
      BY <1>2, <3>1 DEF Coming
  <2> QED
    BY <1>1, <1>8, <2>1 DEF Exchange
<1>11. Exchange'
  BY <1>1, <1>2, <1>8, <1>9, <1>10 DEF Exchange, Quiet, clientVars, Coming
<1> QED
  BY <1>7, <1>11

\* A call that begins has no sendings.
LEMMA BeginOne == ClientInv /\ AnswerInv /\ Begin => OneAtATime'
<1> SUFFICES ASSUME ClientInv, AnswerInv, Begin, Clean PROVE (Exchange /\ Executed)'
  BY DEF OneAtATime, Begin, Clean
<1>1. Exchange /\ Executed
  BY DEF AnswerInv, OneAtATime
<1>2. Quiet /\ pc' = "send" /\ calls' = calls + 1 /\ UNCHANGED netVars /\ calls \in Nat
  BY <1>1, Sizes DEF Begin, Exchange
<1>3. Exchange'
  BY <1>1, <1>2 DEF Exchange, Quiet, netVars
<1>4. \A r : Made(r, calls, tries) => Made(r, calls', tries')
  BY <1>2 DEF Made
<1>5. Executed'
  BY <1>1, <1>2, <1>4 DEF Executed, netVars
<1> QED
  BY <1>3, <1>5

\* A new connection is empty.
LEMMA ConnectOne == ClientInv /\ AnswerInv /\ Connect => OneAtATime'
<1> SUFFICES ASSUME ClientInv, AnswerInv, Connect, Clean PROVE (Exchange /\ Executed)'
  BY DEF OneAtATime, Connect, Clean
<1>1. Exchange /\ Executed
  BY DEF AnswerInv, OneAtATime
<1>2. /\ inbox' = <<>> /\ out' = <<>> /\ Len(inbox') = 0 /\ pc' = "send"
      /\ UNCHANGED <<calls, tries, ran>>
  BY DEF Connect
<1> QED
  BY <1>1, <1>2 DEF Exchange, Quiet, Executed

\* A sending is a new one.
LEMMA SentOne == ClientInv /\ AnswerInv /\ Sent => OneAtATime'
<1> SUFFICES ASSUME ClientInv, AnswerInv, Sent, Clean PROVE (Exchange /\ Executed)'
  BY DEF OneAtATime, Sent, Clean
<1>1. Exchange /\ Executed /\ Quiet
  BY DEF AnswerInv, OneAtATime, Sent, Exchange
<1>2. calls \in Nat /\ tries \in Nat /\ Total \in Nat
  BY Sizes
<1>3. pc' = "header" /\ got' = <<>> /\ Len(got') = 0 /\ UNCHANGED <<stack, calls, packed, out, ran>>
  BY DEF Sent
<1>4. Sending' = Request
  BY <1>3 DEF Sent, Sending, Request, Top
<1>5. tries' \in Nat /\ tries' >= tries
  BY <1>2 DEF Sent
<1>6. \A r : Made(r, calls, tries) => Made(r, calls', tries')
  BY <1>2, <1>3, <1>5 DEF Made
<1>7. CASE link = "up" /\ inbox' = Append(inbox, Request) /\ UNCHANGED link
  <2>0. PICK q : q = Request
    OBVIOUS
  <2>1. inbox' = <<q>> /\ Len(inbox') = 1 /\ inbox'[1] = q
    BY <1>1, <1>7, <2>0 DEF Quiet
  <2>2. q.call # 0 => Made(q, calls', tries') /\ \A r \in ran : ~Same(r, q)
    <3> SUFFICES ASSUME q.call # 0 PROVE Made(q, calls', tries') /\ \A r \in ran : ~Same(r, q)
      OBVIOUS
    <3>1. q.call = calls /\ q.try = tries + 1 /\ tries' = tries + 1
      BY <2>0 DEF Request, Sent
    <3>2. Made(q, calls', tries')
      BY <1>2, <1>3, <3>1 DEF Made
    <3>3. \A r \in ran : ~Same(r, q)
      BY <1>1, <1>2, <3>1 DEF Executed, Made, Same
    <3> QED
      BY <3>2, <3>3
  <2>3. Executed'
    <3>1. \A r \in ran' : Made(r, calls', tries')
      BY <1>1, <1>3, <1>6 DEF Executed
    <3>2. \A r, s \in ran' : Same(r, s) => r = s
      BY <1>1, <1>3 DEF Executed
    <3>3. \A i \in 1 .. Len(inbox') : inbox'[i].call # 0 =>
            Made(inbox'[i], calls', tries') /\ \A r \in ran' : ~Same(r, inbox'[i])
      <4>1. \A i \in 1 .. Len(inbox') : inbox'[i] = q
        BY <2>1
      <4> QED
        BY <1>3, <2>2, <4>1
    <3> QED
      BY <3>1, <3>2, <3>3 DEF Executed
  <2>4. Exchange'
    BY <1>1, <1>3, <1>4, <1>7, <2>0, <2>1 DEF Exchange, Quiet
  <2> QED
    BY <2>3, <2>4
<1>8. CASE link = "fin" /\ link' \in {"fin", "rst"} /\ UNCHANGED inbox
  <2>1. inbox' = <<>> /\ out' = <<>> /\ Len(inbox') = 0 /\ Len(out') = 0
    BY <1>1, <1>3, <1>8 DEF Quiet
  <2>2. Coming'
    BY <1>2, <1>3, <1>8, <2>1 DEF Coming
  <2>3. Exchange'
    BY <1>3, <1>8, <2>1, <2>2 DEF Exchange
  <2>4. Executed'
    BY <1>1, <1>3, <1>6, <2>1 DEF Executed
  <2> QED
    BY <2>3, <2>4
<1> QED
  BY <1>7, <1>8 DEF Sent

\* What becomes of a connection that is not read.
LEMMA CutShortOne == ClientInv /\ AnswerInv /\ CutShort => OneAtATime'
BY DEF AnswerInv, CutShort, clientVars, OneAtATime, Clean, Exchange, Quiet, Executed, Made

\* A request that is not sent leaves no answer to wait for.
LEMMA SendFailsOne == ClientInv /\ AnswerInv /\ SendFails => OneAtATime'
<1> SUFFICES ASSUME ClientInv, AnswerInv, SendFails PROVE OneAtATime'
  OBVIOUS
<1>1. /\ pc = "send" /\ pc' \in {"idle", "killed"}
      /\ UNCHANGED <<lang, calls, tries, skewed, netVars>>
  BY DEF SendFails, Fail
<1>2. Clean => Quiet'
  BY <1>1 DEF AnswerInv, OneAtATime, Exchange, Quiet, netVars
<1>3. OneAtATime
  BY DEF AnswerInv
<1> QED
  BY <1>1, <1>2, <1>3, Ended DEF netVars, Clean

\* The header of an answer is read as one.
LEMMA RecvHeaderOne == ClientInv /\ AnswerInv /\ RecvHeader => OneAtATime'
<1> SUFFICES ASSUME ClientInv, AnswerInv, RecvHeader, Clean PROVE (Exchange /\ Executed)'
  BY DEF OneAtATime, RecvHeader, Clean
<1>1. Exchange /\ Executed
  BY DEF AnswerInv, OneAtATime
<1>2. /\ pc = "header" /\ Read(2)
      /\ UNCHANGED <<lang, calls, tries, packed, skewed, link, inbox, ran>>
  BY DEF RecvHeader, HeaderUnits
<1>3. /\ Len(got) \in Nat /\ Len(out) \in Nat /\ HeaderUnits = 2
      /\ got \in Seq(AnyUnit) /\ out \in Seq(AnyUnit)
  BY Sizes
<1>4. /\ Len(got') = Len(got) + 2 /\ Len(out') = Len(out) - 2 /\ 2 <= Len(out)
      /\ \A p \in 1 .. Len(got) + 2 :
           got'[p] = IF p <= Len(got) THEN got[p] ELSE out[p - Len(got)]
  BY <1>2, <1>3, ReadMoves
<1>5. got = <<>> /\ Len(got) = 0 /\ Coming
  BY <1>1, <1>2, <1>4 DEF Exchange
<1>6. Aligned(got')
  <2>1. \A p \in 1 .. Len(got') : got'[p] = out[p] /\ p \in 1 .. Len(out)
    BY <1>3, <1>4, <1>5
  <2>2. \A p \in 1 .. Len(out) : Fits(out[p], p, Sending, ran)
    <3>1. \A p \in 1 .. Len(out) : Fits(out[p], Len(got) + p, Sending, ran) /\ Len(got) + p = p
      BY <1>5 DEF Coming
    <3> QED
      BY <3>1
  <2> QED
    BY <2>1, <2>2 DEF Aligned, Fits
<1>7. pc' = "body" /\ UNCHANGED stack /\ need' = BodyUnits
  BY <1>6 DEF RecvHeader
<1>8. Coming'
  BY <1>2, <1>5, <1>7, ReadComing
<1>9. Len(got') >= HeaderUnits
  BY <1>3, <1>4, <1>5
<1>10. Exchange'
  BY <1>1, <1>2, <1>7, <1>8, <1>9 DEF Exchange
<1>11. Executed'
  BY <1>1, <1>2 DEF Executed
<1> QED
  BY <1>10, <1>11

\* recv() falls short of a header only when no more will come.
LEMMA PartIsAll ==
  ASSUME ClientInv, Exchange, pc = "header", NEW n \in 0 .. HeaderUnits - 1, Read(n),
         n = Len(out), n > 0 \/ link # "up"
  PROVE  link # "up" /\ inbox = <<>> /\ out' = <<>>
<1>1. /\ Len(got) \in Nat /\ Len(out) \in Nat /\ HeaderUnits = 2 /\ n \in Nat
      /\ got \in Seq(AnyUnit) /\ out \in Seq(AnyUnit) /\ Total > 2
  BY Sizes
<1>2. Len(out') = 0 /\ out' \in Seq(AnyUnit)
  BY <1>1, ReadMoves, ReadKeeps
<1>3. ~(link = "up" /\ inbox = <<Sending>> /\ out = <<>>)
  BY <1>1
<1>4. got = <<>> /\ Len(got) = 0 /\ Coming
  BY <1>3 DEF Exchange
<1>5. link # "up" /\ inbox = <<>>
  BY <1>1, <1>4 DEF Coming
<1> QED
  BY <1>2, <1>5, EmptySeq

\* A header that falls short is not waited for.
LEMMA RecvPartOne == ClientInv /\ AnswerInv /\ RecvPart => OneAtATime'
<1> SUFFICES ASSUME ClientInv, AnswerInv, RecvPart PROVE OneAtATime'
  OBVIOUS
<1>1. /\ OneAtATime /\ pc = "header" /\ pc' \in {"idle", "connect"} /\ (pc' = "idle" => lang = "cc")
      /\ UNCHANGED <<lang, calls, tries, link, inbox, ran>>
  BY DEF AnswerInv, RecvPart, Broken, Reconnect, Fail
<1>4. Clean' => Clean
  <2>1. lang' = lang /\ (skewed' = skewed \/ skewed' = (skewed \/ lang = "cc"))
    BY DEF RecvPart
  <2> QED
    BY <2>1, ZenonT(30) DEF Clean
<1>2. ASSUME Clean', pc' = "idle" PROVE Quiet'
  <2>1. Exchange /\ lang = "cc" /\ ~skewed'
    BY <1>1, <1>2, <1>4 DEF OneAtATime, Clean
  <2>2. PICK n \in 0 .. HeaderUnits - 1 : Read(n) /\ n = Len(out) /\ (n > 0 \/ link # "up")
    BY <2>1 DEF RecvPart
  <2> QED
    BY <1>1, <2>1, <2>2, PartIsAll DEF Quiet
<1>3. CASE Clean'
  BY <1>1, <1>2, <1>3, <1>4, Ended
<1> QED
  BY <1>3 DEF OneAtATime

\* Part of a body.
LEMMA RecvBodyOne == ClientInv /\ AnswerInv /\ RecvBody => OneAtATime'
<1> SUFFICES ASSUME ClientInv, AnswerInv, RecvBody, Clean PROVE (Exchange /\ Executed)'
  BY DEF OneAtATime, RecvBody, Clean
<1>1. Exchange /\ Executed
  BY DEF AnswerInv, OneAtATime
<1>2. PICK n \in 1 .. HeaderUnits + need - Len(got) : Read(n)
  BY DEF RecvBody
<1>3. UNCHANGED <<pc, stack, calls, tries, packed, need, link, inbox, ran>> /\ pc = "body"
  BY DEF RecvBody
<1>4. /\ n \in Nat /\ Len(got) \in Nat /\ HeaderUnits = 2
      /\ got \in Seq(AnyUnit) /\ out \in Seq(AnyUnit)
  BY Sizes
<1>5. Len(got') = Len(got) + n
  BY <1>2, <1>4, ReadMoves
<1>6. Coming'
  BY <1>1, <1>2, <1>3, <1>4, ReadComing DEF Exchange
<1>7. Len(got') >= HeaderUnits
  BY <1>1, <1>3, <1>4, <1>5 DEF Exchange
<1> QED
  BY <1>1, <1>3, <1>6, <1>7 DEF Exchange, Executed

\* What is used is all that came.
LEMMA UseQuiet ==
  ASSUME ClientInv, AnswerInv, Clean, pc = "body",
         Len(got) = HeaderUnits + need \/ (out = <<>> /\ link # "up")
  PROVE  Quiet /\ Coming /\ Len(got) >= HeaderUnits /\ (Len(got) = Total \/ link # "up")
<1>1. need = BodyUnits /\ Coming /\ Len(got) >= HeaderUnits
  BY DEF AnswerInv, OneAtATime, Exchange
<1>2. Len(got) \in Nat /\ Len(out) \in Nat /\ out \in Seq(AnyUnit)
  BY Sizes
<1>3. CASE Len(got) = HeaderUnits + need
  <2>1. Len(got) = Total /\ Len(out) = 0
    BY <1>1, <1>2, <1>3, Sizes DEF Total, Coming
  <2> QED
    BY <1>1, <1>2, <2>1, EmptySeq DEF Quiet, Coming
<1>4. CASE out = <<>> /\ link # "up"
  BY <1>1, <1>4 DEF Quiet, Coming
<1> QED
  BY <1>3, <1>4

\* The whole of an answer, or the end of the connection inside it.
LEMMA RecvDoneOne == ClientInv /\ AnswerInv /\ (RecvDone \/ RecvCut) => OneAtATime'
<1> SUFFICES ASSUME ClientInv, AnswerInv, RecvDone \/ RecvCut PROVE OneAtATime'
  OBVIOUS
<1>1. /\ OneAtATime /\ pc = "body" /\ UNCHANGED <<lang, calls, tries, skewed, netVars>>
      /\ Len(got) = HeaderUnits + need \/ (out = <<>> /\ link # "up")
  BY DEF AnswerInv, RecvDone, RecvCut, Ends
<1>2. pc' \in {"idle", "send", "connect"}
  BY UseControl, BrokenControl DEF RecvDone, RecvCut, netVars
<1>3. Clean => Quiet'
  BY <1>1, UseQuiet DEF netVars, Quiet
<1> QED
  BY <1>1, <1>2, <1>3, Ended DEF netVars, Clean

-----------------------------------------------------------------------------
(* Within bounds: each step.                                               *)

\* Below the top there are requests for the list, and the call at the bottom.
Deep == \A i \in 2 .. Len(stack) : stack[i] = "column"
LEMMA StackBound ==
  ASSUME ClientInv, Deep, stack' = stack \/ stack' = <<>> \/ stack' = <<"call">> \/ stack' = Asked
                          \/ (stack # <<>> /\ stack' = Pop)
  PROVE  Deep'
<1>1. stack \in Seq({"call", "column"}) /\ Len(stack) \in Nat
  BY Sizes DEF ClientInv, Control, Shapes
<1>2. CASE stack' = Asked
  <2>1. Len(stack') = Len(stack) + 1 /\ \A i \in 1 .. Len(stack) + 1 :
          stack'[i] = IF i = Len(stack) + 1 THEN "column" ELSE stack[i]
    BY <1>1, <1>2, AppendProperties DEF Asked
  <2> QED
    BY <1>1, <2>1 DEF Deep
<1>3. CASE stack # <<>> /\ stack' = Pop
  <2> DEFINE S == {"call", "column"}
             n == Len(stack) - 1
  <2>1. n \in 0 .. Len(stack) /\ stack \in Seq(S) /\ stack' = SubSeq(stack, 1, n)
    BY <1>1, <1>3, EmptySeq DEF Pop
  <2> HIDE DEF S, n
  <2>2. Len(stack') = n /\ \A i \in 1 .. n : stack'[i] = stack[i]
    BY <2>1, Prefix
  <2>3. \A i \in 2 .. n : i \in 1 .. n /\ i \in 2 .. Len(stack)
    BY <1>1, <2>1
  <2> QED
    BY <2>2, <2>3 DEF Deep
<1>4. CASE stack' = stack
  BY <1>4 DEF Deep
<1>5. CASE stack' = <<>> \/ stack' = <<"call">>
  BY <1>5 DEF Deep
<1> QED
  BY <1>2, <1>3, <1>4, <1>5

\* Answers to requests within bounds.
LEMMA ExecuteBounds == ClientInv /\ AnswerInv /\ Execute => Bounds'
<1> SUFFICES ASSUME ClientInv, AnswerInv, Execute PROVE Bounds'
  OBVIOUS
<1>1. Bounds /\ Deep
  BY DEF AnswerInv, Bounds, Deep
<1>2. UNCHANGED <<clientVars, link, schema, faults>>
  BY DEF Execute
<1>3. Head(inbox) \in RequestOf /\ inbox' \in Seq(RequestOf)
  <2>1. inbox \in Seq(RequestOf) /\ inbox # <<>> /\ inbox' \in {Tail(inbox), <<>>}
    BY <1>1 DEF Execute, Bounds
  <2>2. Head(inbox) \in RequestOf /\ Tail(inbox) \in Seq(RequestOf)
    BY <2>1, HeadTailProperties
  <2>3. <<>> \in Seq(RequestOf)
    BY EmptySeq
  <2> QED
    BY <2>1, <2>2, <2>3
<1>4. Answer(Head(inbox)) \in Seq(Unit)
  <2>1. HeaderUnits + BodyUnits \in Nat
    BY ClientAssumption DEF HeaderUnits
  <2>2. \A p \in 1 .. HeaderUnits + BodyUnits :
          [call |-> Head(inbox).call, try |-> Head(inbox).try, schema |-> schema, part |-> p] \in Unit
    BY SMTT(30), <1>1, <1>3, <2>1 DEF Bounds, Unit, RequestOf
  <2> QED
    BY <2>1, <2>2 DEF Answer
<1>5. out' \in Seq(Unit)
  BY <1>1, <1>4, ConcatProperties DEF Execute, Bounds
<1> QED
  BY <1>1, <1>2, <1>3, <1>5 DEF Bounds, clientVars

\* The lists of fields are those there are.
LEMMA DisconnectBounds == ClientInv /\ AnswerInv /\ Disconnect => Bounds'
<1> SUFFICES ASSUME ClientInv, AnswerInv, Disconnect PROVE Bounds'
  OBVIOUS
<1>1. Bounds
  BY DEF AnswerInv
<1>2. out' \in Seq(Unit)
  BY <1>1, Prefix DEF Disconnect, Bounds
<1>3. inbox' \in Seq(RequestOf)
  BY EmptySeq DEF Disconnect
<1>4. faults' \in 0 .. MaxFaults /\ schema' \in 1 .. MaxSchema /\ link' \in {"up", "fin", "rst"}
  BY SMTT(30), <1>1, ClientAssumption DEF Disconnect, Bounds
<1> QED
  BY <1>1, <1>2, <1>3, <1>4 DEF Disconnect, Bounds, clientVars

\* The calls are those that the program makes.
LEMMA BeginBounds == ClientInv /\ AnswerInv /\ Begin => Bounds'
<1> SUFFICES ASSUME ClientInv, AnswerInv, Begin PROVE Bounds'
  OBVIOUS
<1>1. Bounds /\ Deep
  BY DEF AnswerInv, Bounds, Deep
<1>2. Deep'
  BY <1>1, StackBound DEF Begin
<1>3. calls' \in 0 .. MaxCalls
  BY <1>1, ClientAssumption DEF Begin, Bounds
<1> QED
  BY <1>1, <1>2, <1>3 DEF Begin, Bounds, Deep, netVars

\* A new socket holds nothing.
LEMMA ConnectBounds == ClientInv /\ AnswerInv /\ Connect => Bounds'
<1> SUFFICES ASSUME ClientInv, AnswerInv, Connect PROVE Bounds'
  OBVIOUS
<1>1. Bounds /\ Deep
  BY DEF AnswerInv, Bounds, Deep
<1>2. Deep'
  BY <1>1, StackBound DEF Connect
<1>3. inbox' \in Seq(RequestOf) /\ out' \in Seq(Unit)
  BY EmptySeq DEF Connect
<1> QED
  BY <1>1, <1>2, <1>3 DEF Connect, Bounds, Deep

\* A call is not sent more often than it may fail, and once.
LEMMA TriesBound ==
  ASSUME ClientInv, AnswerInv, pc = "send", Top = "call"
  PROVE  tries \in 0 .. MaxFaults
<1>1. stack # <<>> /\ Len(stack) \in 1 .. Len(stack) /\ Len(stack) \in Nat
  BY Sizes, EmptySeq DEF ClientInv, Control, Shapes
<1>2. HasCall /\ SendsCall /\ Waits
  BY <1>1 DEF HasCall, SendsCall, Waits, Top
<1>3. tries \in Nat /\ faults \in 0 .. MaxFaults /\ MaxFaults \in Nat /\ lang \in {"py", "cc"}
  BY Sizes, ClientAssumption DEF AnswerInv, Bounds
<1>4. CASE lang = "py"
  BY <1>2, <1>3, <1>4 DEF AnswerInv, Costs, PyTries, One
<1>5. CASE lang = "cc"
  BY <1>2, <1>3, <1>5 DEF ClientInv, Control, CcOnce
<1> QED
  BY <1>3, <1>4, <1>5

\* Its request is within bounds.
LEMMA SentBounds == ClientInv /\ AnswerInv /\ Sent => Bounds'
<1> SUFFICES ASSUME ClientInv, AnswerInv, Sent PROVE Bounds'
  OBVIOUS
<1>1. Bounds /\ Deep
  BY DEF AnswerInv, Bounds, Deep
<1>2. Deep'
  BY <1>1, StackBound DEF Sent
<1>3. Request \in RequestOf
  BY SMTT(30), <1>1, TriesBound, ClientAssumption DEF Sent, Request, RequestOf, Bounds
<1>4. Append(inbox, Request) \in Seq(RequestOf) /\ inbox \in Seq(RequestOf)
  BY <1>1, <1>3, AppendProperties DEF Bounds
<1>6. inbox' \in Seq(RequestOf) /\ link' \in {"up", "fin", "rst"}
  <2>1. inbox' \in {inbox, Append(inbox, Request)} /\ link' \in {"up", "fin", "rst"}
    BY DEF Sent
  <2> QED
    BY <1>4, <2>1
<1>5. got' \in Seq(Unit)
  BY EmptySeq DEF Sent
<1> QED
  BY <1>1, <1>2, <1>5, <1>6 DEF Sent, Bounds, Deep

\* A reset changes none of the bounds.
LEMMA CutShortBounds == ClientInv /\ AnswerInv /\ CutShort => Bounds'
BY DEF AnswerInv, CutShort, clientVars, Bounds

\* What is read, and what becomes of a call that fails.
LEMMA ReadBounds ==
  ASSUME AnswerInv, NEW n \in Nat, Read(n)
  PROVE  got' \in Seq(Unit) /\ out' \in Seq(Unit)
BY ReadKeeps DEF AnswerInv, Bounds

\* A call that fails keeps the list that is known.
LEMMA BrokenBounds ==
  ASSUME ClientInv, AnswerInv, Broken \/ Fail \/ UNCHANGED <<stack, outcome, fields>>
  PROVE  Deep' /\ outcome' \in {"none", "answered", "failed"} /\ fields'.of \in 0 .. MaxSchema
<1>1. Bounds /\ Deep
  BY DEF AnswerInv, Bounds, Deep
<1>2. (stack' = stack \/ stack' = <<>>) /\ outcome' \in {outcome, "failed"} /\ fields' = fields
  BY DEF Broken, Reconnect, Fail
<1> QED
  BY <1>1, <1>2, StackBound DEF Bounds

\* So does a request that is not sent,
LEMMA SendFailsBounds == ClientInv /\ AnswerInv /\ SendFails => Bounds'
<1> SUFFICES ASSUME ClientInv, AnswerInv, SendFails PROVE Bounds'
  OBVIOUS
<1>1. Deep' /\ outcome' \in {"none", "answered", "failed"} /\ fields'.of \in 0 .. MaxSchema
  BY BrokenBounds DEF SendFails
<1> QED
  BY <1>1 DEF SendFails, AnswerInv, Bounds, Deep, netVars

\* a header, read or refused,
LEMMA RecvHeaderBounds == ClientInv /\ AnswerInv /\ RecvHeader => Bounds'
<1> SUFFICES ASSUME ClientInv, AnswerInv, RecvHeader PROVE Bounds'
  OBVIOUS
<1>1. Deep' /\ outcome' \in {"none", "answered", "failed"} /\ fields'.of \in 0 .. MaxSchema
  BY BrokenBounds DEF RecvHeader
<1>2. got' \in Seq(Unit) /\ out' \in Seq(Unit)
  BY ReadBounds DEF RecvHeader, HeaderUnits
<1> QED
  BY <1>1, <1>2 DEF RecvHeader, AnswerInv, Bounds, Deep

\* a part of a header,
LEMMA RecvPartBounds == ClientInv /\ AnswerInv /\ RecvPart => Bounds'
<1> SUFFICES ASSUME ClientInv, AnswerInv, RecvPart PROVE Bounds'
  OBVIOUS
<1>1. Deep' /\ outcome' \in {"none", "answered", "failed"} /\ fields'.of \in 0 .. MaxSchema
  BY BrokenBounds DEF RecvPart
<1>2. PICK n \in Nat : Read(n)
  BY DEF RecvPart, HeaderUnits
<1>3. got' \in Seq(Unit) /\ out' \in Seq(Unit)
  BY <1>2, ReadBounds
<1>4. faults' \in 0 .. MaxFaults
  BY SMTT(30), ClientAssumption DEF RecvPart, AnswerInv, Bounds
<1> QED
  BY <1>1, <1>3, <1>4 DEF RecvPart, AnswerInv, Bounds, Deep

\* and a part of a body.
LEMMA RecvBodyBounds == ClientInv /\ AnswerInv /\ RecvBody => Bounds'
<1> SUFFICES ASSUME ClientInv, AnswerInv, RecvBody PROVE Bounds'
  OBVIOUS
<1>1. PICK n \in 1 .. HeaderUnits + need - Len(got) : Read(n)
  BY DEF RecvBody
<1>2. n \in Nat
  OBVIOUS
<1>3. got' \in Seq(Unit) /\ out' \in Seq(Unit)
  BY <1>1, <1>2, ReadBounds
<1> QED
  BY <1>3 DEF RecvBody, AnswerInv, Bounds

\* A list that is learnt is one there is.
LEMMA LearntBound ==
  ASSUME ClientInv, Bounds
  PROVE  Learnt.of \in 0 .. MaxSchema
<1>1. HeaderUnits + BodyUnits \in Nat \ {0} /\ HeaderUnits \in Nat /\ Len(got) \in Nat /\ MaxSchema \in Nat
  BY Sizes, ClientAssumption DEF HeaderUnits
<1>2. 1 \in 1 .. Len(got) => got[1].schema \in 1 .. MaxSchema
  <2>1. 1 \in 1 .. Len(got) => got[1] \in Unit
    BY ElementOfSeq DEF Bounds
  <2> QED
    BY <2>1 DEF Unit
<1> QED
  BY <1>1, <1>2 DEF Learnt, NoFields

\* What is used leaves the list learnt or the one known.
LEMMA RecvDoneBounds == ClientInv /\ AnswerInv /\ (RecvDone \/ RecvCut) => Bounds'
<1> SUFFICES ASSUME ClientInv, AnswerInv, RecvDone \/ RecvCut PROVE Bounds'
  OBVIOUS
<1>1. Bounds /\ Deep
  BY DEF AnswerInv, Bounds, Deep
<1>2. UNCHANGED <<lang, calls, packed, got, netVars>> /\ stack # <<>>
  BY DEF RecvDone, RecvCut, ClientInv, Control, Shapes
<1>3. Deep' /\ outcome' \in {"none", "answered", "failed"} /\ fields'.of \in 0 .. MaxSchema
  <2>1. CASE Use
    <3>1. stack' = <<>> \/ stack' = Pop
      BY <2>1 DEF Use, UseCall, UseColumn
    <3>2. outcome' \in {outcome, "answered"} /\ fields' \in {fields, Learnt}
      BY <2>1 DEF Use, UseCall, UseColumn
    <3> QED
      BY <1>1, <1>2, <3>1, <3>2, StackBound, LearntBound DEF Bounds
  <2>2. CASE Broken
    BY <2>2, BrokenBounds
  <2> QED
    BY <2>1, <2>2 DEF RecvDone, RecvCut
<1> QED
  BY <1>1, <1>2, <1>3 DEF Bounds, Deep, netVars

-----------------------------------------------------------------------------
(* What was paid for: each step.                                           *)

\* The numbers there are, and the call that is at the top.
LEMMA Amounts ==
  ASSUME ClientInv, AnswerInv
  PROVE  /\ {Len(stack), Len(inbox), calls, tries, faults} \subseteq Nat
         /\ stack \in Seq({"call", "column"}) /\ lang \in {"py", "cc"}
         /\ stack # <<>> /\ Top = "call" => HasCall
         /\ stack # <<>> => Top \in {"call", "column"}
<1>1. /\ stack \in Seq({"call", "column"}) /\ inbox \in Seq(RequestOf) /\ faults \in Nat
      /\ calls \in Nat /\ tries \in Nat /\ lang \in {"py", "cc"}
  BY Sizes, ClientAssumption DEF ClientInv, Control, Shapes, AnswerInv, Bounds
<1>2. Len(stack) \in Nat /\ Len(inbox) \in Nat
  BY <1>1, LenProperties
<1>3. stack # <<>> => Len(stack) \in 1 .. Len(stack)
  BY <1>1, <1>2, EmptySeq
<1> QED
  BY <1>1, <1>2, <1>3, ElementOfSeq DEF HasCall, Top

\* The server costs nothing.
LEMMA ExecuteCosts == ClientInv /\ AnswerInv /\ Execute => Costs'
<1> SUFFICES ASSUME ClientInv, AnswerInv, Execute PROVE Costs'
  OBVIOUS
<1>1. Costs /\ inbox \in Seq(RequestOf) /\ inbox # <<>>
  BY DEF AnswerInv, Bounds, Execute
<1>2. Len(inbox') <= Len(inbox) /\ Len(inbox') \in Nat
  <2>1. Len(Tail(inbox)) = Len(inbox) - 1 /\ Len(inbox) \in Nat /\ Len(inbox) # 0
    BY <1>1, HeadTailProperties, EmptySeq, LenProperties
  <2>2. inbox' = Tail(inbox) \/ (inbox' = <<>> /\ Len(inbox') = 0)
    BY DEF Execute
  <2> QED
    BY <2>1, <2>2
<1>3. UNCHANGED <<lang, pc, stack, calls, tries, link, faults>>
  BY DEF Execute, clientVars
<1>4. Waits' = Waits /\ HasCall' = HasCall
  BY <1>3 DEF Waits, HasCall, Top
<1>5. CcQueue'
  BY <1>1, <1>2, <1>3, Amounts DEF Costs, CcQueue, One
<1> QED
  BY <1>1, <1>3, <1>4, <1>5 DEF Costs, CallCounted, LossCounted, PyDepth, PyTries, CcQueue

\* A connection lost is a failure.
LEMMA DisconnectCosts == ClientInv /\ AnswerInv /\ Disconnect => Costs'
<1> SUFFICES ASSUME ClientInv, AnswerInv, Disconnect PROVE Costs'
  OBVIOUS
<1>1. Costs
  BY DEF AnswerInv
<1>2. /\ UNCHANGED <<lang, pc, stack, calls, tries>> /\ faults' = faults + 1 /\ inbox' = <<>>
      /\ link = "up" /\ pc # "connect" /\ Len(inbox') = 0
  BY DEF Disconnect, clientVars
<1>3. Waits' = Waits /\ HasCall' = HasCall
  BY <1>2 DEF Waits, HasCall, Top
<1>4. CallCounted' /\ LossCounted' /\ PyDepth' /\ CcQueue'
  BY <1>1, <1>2, <1>3, Amounts DEF Costs, CallCounted, LossCounted, PyDepth, CcQueue, One
<1>5. PyTries'
  BY <1>1, <1>2, <1>3, Amounts DEF Costs, PyTries, One
<1> QED
  BY <1>4, <1>5 DEF Costs

\* A call more, which is not sent yet.
LEMMA BeginCosts == ClientInv /\ AnswerInv /\ Begin => Costs'
<1> SUFFICES ASSUME ClientInv, AnswerInv, Begin PROVE Costs'
  OBVIOUS
<1>1. Costs
  BY DEF AnswerInv
<1>2. /\ UNCHANGED <<lang, link, inbox, faults>> /\ calls' = calls + 1 /\ tries' = 0 /\ pc = "idle"
      /\ pc' = "send" /\ Len(stack') = 1
  BY DEF Begin, netVars
<1>3. CallCounted' /\ LossCounted' /\ PyDepth'
  BY <1>1, <1>2, Amounts DEF Costs, CallCounted, LossCounted, PyDepth, One
<1>4. PyTries'
  BY <1>1, <1>2, Amounts DEF Costs, LossCounted, PyTries, One
<1>5. CcQueue'
  BY <1>1, <1>2, Amounts DEF Costs, CcQueue, One
<1> QED
  BY <1>3, <1>4, <1>5 DEF Costs

\* A request more on the stack, for a connection that was lost.
LEMMA ConnectCosts == ClientInv /\ AnswerInv /\ Connect => Costs'
<1> SUFFICES ASSUME ClientInv, AnswerInv, Connect PROVE Costs'
  OBVIOUS
<1>1. Costs
  BY DEF AnswerInv
<1>2. /\ UNCHANGED <<lang, calls, tries, faults>> /\ link' = "up" /\ Len(inbox') = 0
      /\ pc = "connect" /\ pc' = "send"
  BY DEF Connect
<1>3. Len(stack') = Len(stack) + 1 /\ Top' = "column" /\ (HasCall' => HasCall)
  BY Pushed, Amounts DEF Connect
<1>4. Waits' => Waits
  BY <1>2, <1>3 DEF Waits
<1>5. CallCounted' /\ LossCounted' /\ PyDepth'
  BY <1>1, <1>2, <1>3, Amounts DEF Costs, CallCounted, LossCounted, PyDepth, One
<1>6. PyTries'
  BY <1>1, <1>2, <1>4, Amounts DEF Costs, PyTries, One
<1>7. CcQueue'
  BY <1>1, <1>2, Amounts DEF Costs, CcQueue, One
<1> QED
  BY <1>5, <1>6, <1>7 DEF Costs

\* A sending more of a call that waited for it.
LEMMA SentCosts == ClientInv /\ AnswerInv /\ Sent => Costs'
<1> SUFFICES ASSUME ClientInv, AnswerInv, Sent PROVE Costs'
  OBVIOUS
<1>1. Costs /\ inbox \in Seq(RequestOf)
  BY DEF AnswerInv, Bounds
<1>2. /\ UNCHANGED <<lang, stack, calls, faults>> /\ link' \in {"up", "fin", "rst"}
      /\ (link' = "up" <=> link = "up") /\ pc = "send" /\ pc' = "header" /\ stack # <<>>
      /\ tries' = IF Top = "call" THEN tries + 1 ELSE tries
  BY DEF Sent, ClientInv, Control, Shapes
<1>3. HasCall' = HasCall /\ Top' = Top
  BY <1>2 DEF HasCall, Top
<1>4. Len(inbox') \in Nat /\ Len(inbox') <= Len(inbox) + 1
  <2>1. inbox' = inbox \/ (inbox' = Append(inbox, Request) /\ Len(inbox') = Len(inbox) + 1)
    BY <1>1, AppendProperties DEF Sent
  <2> QED
    BY <2>1, Amounts
<1>5. CallCounted' /\ LossCounted' /\ PyDepth'
  BY <1>1, <1>2, <1>3, Amounts DEF Costs, CallCounted, LossCounted, PyDepth, One
<1>6. PyTries'
  <2>1. CASE Top = "call"
    <3>1. Waits /\ ~Waits'
      BY <1>2, <1>3, <2>1, Amounts DEF Waits
    <3> QED
      BY <1>1, <1>2, <2>1, <3>1, Amounts DEF Costs, PyTries, One
  <2>2. CASE Top # "call"
    <3>1. Waits' <=> Waits
      BY <1>2, <1>3, <2>2 DEF Waits
    <3> QED
      BY <1>1, <1>2, <2>2, <3>1, Amounts DEF Costs, PyTries, One
  <2> QED
    BY <2>1, <2>2
<1>7. CcQueue'
  <2>1. lang = "cc" /\ Top = "call" => tries = 0
    BY <1>2 DEF ClientInv, Control, CcOnce, SendsCall
  <2> QED
    BY <1>1, <1>2, <1>4, <2>1, Amounts DEF Costs, CcQueue, One
<1> QED
  BY <1>5, <1>6, <1>7 DEF Costs

\* A connection that is reset was lost before.
LEMMA CutShortCosts == ClientInv /\ AnswerInv /\ CutShort => Costs'
<1> SUFFICES ASSUME ClientInv, AnswerInv, CutShort PROVE Costs'
  OBVIOUS
<1>1. Costs
  BY DEF AnswerInv
<1>2. UNCHANGED <<lang, pc, stack, calls, tries, faults, inbox>> /\ link # "up" /\ link' # "up"
  BY DEF CutShort, clientVars
<1>3. Waits' = Waits /\ HasCall' = HasCall
  BY <1>2 DEF Waits, HasCall, Top
<1> QED
  BY <1>1, <1>2, <1>3 DEF Costs, CallCounted, LossCounted, PyDepth, PyTries, CcQueue, One

\* Python connects again after a failure that was counted; C++ gives up.
LEMMA BrokenCosts ==
  ASSUME ClientInv, AnswerInv, Broken \/ (lang = "cc" /\ Fail), pc \in {"send", "header", "body"},
         pc = "send" => lang = "cc",
         UNCHANGED <<lang, calls, tries, link, inbox>>, faults' \in Nat, faults' >= faults,
         lang = "py" => faults' > faults \/ link # "up"
  PROVE  Costs'
<1>1. Costs
  BY DEF AnswerInv
<1>2. CASE lang = "py" /\ Reconnect
  <2>1. UNCHANGED stack /\ pc' = "connect"
    BY <1>2 DEF Reconnect
  <2>2. HasCall' = HasCall /\ Top' = Top
    BY <2>1 DEF HasCall, Top
  <2>3. CallCounted' /\ LossCounted'
    BY <1>1, <2>2, Amounts DEF Costs, CallCounted, LossCounted
  <2>4. PyDepth'
    BY <1>1, <2>1, Amounts DEF Costs, PyDepth, One
  <2>5. PyTries'
    BY <1>1, <2>1, Amounts DEF Costs, PyTries, One
  <2>6. CcQueue'
    BY <1>2 DEF CcQueue
  <2> QED
    BY <2>3, <2>4, <2>5, <2>6 DEF Costs
<1>3. CASE lang = "cc" /\ Fail
  <2>1. stack' = <<>> /\ pc' = "idle" /\ Len(stack') = 0
    BY <1>3 DEF Fail
  <2>2. ~HasCall'
    BY <2>1 DEF HasCall
  <2>3. CallCounted' /\ LossCounted' /\ PyDepth' /\ PyTries'
    BY <1>1, <1>3, <2>2, Amounts DEF Costs, CallCounted, LossCounted, PyDepth, PyTries
  <2>4. CcQueue'
    BY <1>1, <2>1, Amounts DEF Costs, CcQueue, One
  <2> QED
    BY <2>3, <2>4 DEF Costs
<1> QED
  BY <1>2, <1>3 DEF Broken

\* A request that is not sent ends the call.
LEMMA SendFailsCosts == ClientInv /\ AnswerInv /\ SendFails => Costs'
<1> SUFFICES ASSUME ClientInv, AnswerInv, SendFails PROVE Costs'
  OBVIOUS
<1>1. /\ Costs /\ pc = "send" /\ lang = "cc" /\ faults \in Nat
      /\ UNCHANGED <<lang, calls, tries, link, inbox, faults>>
  BY Amounts DEF AnswerInv, SendFails, netVars
<1>2. CASE Fail
  BY <1>1, <1>2, BrokenCosts
<1>3. CASE pc' = "killed" /\ UNCHANGED stack
  <2>1. HasCall' = HasCall
    BY <1>3 DEF HasCall
  <2> QED
    BY <1>1, <1>3, <2>1, Amounts DEF Costs, CallCounted, LossCounted, PyDepth, PyTries, CcQueue, One
<1> QED
  BY <1>2, <1>3 DEF SendFails

\* A header is of a request that was sent.
LEMMA RecvHeaderCosts == ClientInv /\ AnswerInv /\ RecvHeader => Costs'
<1> SUFFICES ASSUME ClientInv, AnswerInv, RecvHeader PROVE Costs'
  OBVIOUS
<1>1. /\ Costs /\ pc = "header" /\ faults \in Nat /\ lang \in {"py", "cc"}
      /\ UNCHANGED <<lang, calls, tries, link, inbox, faults>>
  BY Amounts DEF AnswerInv, RecvHeader
<1>2. CASE pc' = "body" /\ UNCHANGED stack
  <2>1. HasCall' = HasCall /\ Top' = Top
    BY <1>2 DEF HasCall, Top
  <2>2. Waits' <=> Waits
    BY <1>1, <1>2, <2>1 DEF Waits
  <2> QED
    BY <1>1, <1>2, <2>1, <2>2 DEF Costs, CallCounted, LossCounted, PyDepth, PyTries, CcQueue, One
<1>3. CASE lang = "cc" /\ Fail
  BY <1>1, <1>3, BrokenCosts
<1> QED
  BY <1>2, <1>3 DEF RecvHeader

\* Nothing of a header comes only from a connection that was lost.
LEMMA RecvPartCosts == ClientInv /\ AnswerInv /\ RecvPart => Costs'
<1> SUFFICES ASSUME ClientInv, AnswerInv, RecvPart PROVE Costs'
  OBVIOUS
<1>1. pc = "header" /\ Broken /\ UNCHANGED <<lang, calls, tries, link, inbox>> /\ faults \in Nat
  BY Amounts DEF RecvPart
<1>2. faults' \in Nat /\ faults' >= faults
  BY <1>1 DEF RecvPart
<1>3. lang = "py" => faults' > faults \/ link # "up"
  <2> SUFFICES ASSUME lang = "py", ~(faults' > faults) PROVE link # "up"
    OBVIOUS
  <2>1. Exchange
    BY DEF AnswerInv, OneAtATime, Clean
  <2>2. PICK n \in 0 .. HeaderUnits - 1 : Read(n) /\ n = Len(out) /\ (n > 0 \/ link # "up")
    BY <1>1 DEF RecvPart
  <2> QED
    BY <1>1, <2>1, <2>2, PartIsAll
<1> QED
  BY <1>1, <1>2, <1>3, BrokenCosts

\* A part of a body costs nothing.
LEMMA RecvBodyCosts == ClientInv /\ AnswerInv /\ RecvBody => Costs'
<1> SUFFICES ASSUME ClientInv, AnswerInv, RecvBody PROVE Costs'
  OBVIOUS
<1>1. Costs /\ UNCHANGED <<lang, pc, stack, calls, tries, link, inbox, faults>>
  BY DEF AnswerInv, RecvBody
<1>2. Waits' = Waits /\ HasCall' = HasCall
  BY <1>1 DEF Waits, HasCall, Top
<1> QED
  BY <1>1, <1>2 DEF Costs, CallCounted, LossCounted, PyDepth, PyTries, CcQueue, One

\* A request less on the stack.
LEMMA UseCosts ==
  ASSUME ClientInv, AnswerInv, Use, pc = "body", UNCHANGED <<lang, calls, tries, link, inbox, faults>>
  PROVE  Costs'
<1>1. Costs /\ stack # <<>>
  BY DEF AnswerInv, ClientInv, Control, Shapes
<1>2. CASE UseCall
  <2>1. stack' = <<>> /\ Len(stack') = 0 /\ pc' = "idle"
    BY <1>2 DEF UseCall
  <2>2. ~HasCall' /\ ~Waits'
    BY <2>1 DEF HasCall, Waits
  <2>3. CallCounted' /\ LossCounted'
    BY <1>1, <2>2 DEF Costs, CallCounted, LossCounted
  <2>4. PyDepth'
    BY <1>1, <2>1, Amounts DEF Costs, PyDepth, One
  <2>5. PyTries'
    BY <1>1, <2>1, <2>2, Amounts DEF Costs, PyTries, One
  <2>6. CcQueue'
    BY <1>1, <2>1, Amounts DEF Costs, CcQueue, One
  <2> QED
    BY <2>3, <2>4, <2>5, <2>6 DEF Costs
<1>3. CASE UseColumn
  <2>1. /\ Len(stack') = Len(stack) - 1 /\ (HasCall' => HasCall)
        /\ stack' \in Seq({"call", "column"})
    BY <1>1, <1>3, Popped, Amounts DEF UseColumn
  <2>2. Waits' => Waits
    BY <1>3, <2>1 DEF Waits, UseColumn
  <2>3. CallCounted' /\ LossCounted'
    BY <1>1, <2>1 DEF Costs, CallCounted, LossCounted
  <2>4. PyDepth'
    BY <1>1, <2>1, Amounts DEF Costs, PyDepth, One
  <2>5. PyTries'
    BY <1>1, <2>2, Amounts DEF Costs, PyTries, One
  <2>6. lang = "cc" => pc' = "idle"
    <3>1. lang = "cc" => Len(stack') = 0
      BY <1>1, <2>1, Amounts, EmptySeq DEF ClientInv, Control, CcOnce
    <3>2. lang = "cc" => stack' = <<>> /\ stack' = Pop
      BY <1>3, <2>1, <3>1, EmptySeq DEF UseColumn
    <3> QED
      BY <1>3, <3>2 DEF UseColumn
  <2>7. CcQueue'
    BY <1>1, <2>6, Amounts DEF Costs, CcQueue, One
  <2> QED
    BY <2>3, <2>4, <2>5, <2>7 DEF Costs
<1> QED
  BY <1>2, <1>3 DEF Use

\* The whole of an answer, or the end of the connection inside it.
LEMMA RecvDoneCosts == ClientInv /\ AnswerInv /\ (RecvDone \/ RecvCut) => Costs'
<1> SUFFICES ASSUME ClientInv, AnswerInv, RecvDone \/ RecvCut PROVE Costs'
  OBVIOUS
<1>1. pc = "body" /\ UNCHANGED <<lang, calls, tries, link, inbox, faults>> /\ faults \in Nat
  BY Amounts DEF RecvDone, RecvCut, netVars
<1>2. CASE Use
  BY <1>1, <1>2, UseCosts
<1>3. CASE Broken /\ link # "up"
  BY <1>1, <1>3, BrokenCosts
<1> QED
  BY <1>2, <1>3 DEF RecvDone, RecvCut, Ends

-----------------------------------------------------------------------------
(* The call that was answered: each step.                                  *)

\* Nothing takes an answer back.
LEMMA StaysAnswered ==
  ASSUME AnswerInv, UNCHANGED <<lang, pc, calls, tries, packed, got, outcome, skewed>>,
         link' = link \/ link' # "up", ran \subseteq ran'
  PROVE  Answered'
<1> SUFFICES ASSUME outcome' = "answered"
             PROVE  /\ pc' = "idle" /\ calls' > 0
                    /\ Clean' => /\ Len(got') >= HeaderUnits
                                 /\ Len(got') = Total \/ (lang' = "py" /\ link' # "up")
                                 /\ \A p \in 1 .. Len(got') : Fits(got'[p], p, Last', ran')
  BY DEF Answered
<1>1. /\ pc = "idle" /\ calls > 0
      /\ Clean => /\ Len(got) >= HeaderUnits
                  /\ Len(got) = Total \/ (lang = "py" /\ link # "up")
                  /\ \A p \in 1 .. Len(got) : Fits(got[p], p, Last, ran)
  BY DEF AnswerInv, Answered
<1>2. Last' = Last /\ (Clean' <=> Clean)
  BY DEF Last, Clean
<1>3. \A u, p : Fits(u, p, Last, ran) => Fits(u, p, Last, ran')
  BY DEF Fits
<1> QED
  BY <1>1, <1>2, <1>3

\* While a call is under way there is no answer, and it ends with one in UseCall only.
LEMMA NoAnswer ==
  ASSUME AnswerInv, pc # "idle", outcome' = outcome \/ outcome' # "answered"
  PROVE  Answered'
BY DEF AnswerInv, Answered

\* A failure is not an answer.
LEMMA BrokenAnswer ==
  ASSUME Broken \/ Fail \/ UNCHANGED <<stack, outcome, fields>>
  PROVE  outcome' = outcome \/ outcome' # "answered"
BY DEF Broken, Reconnect, Fail

\* What is used is the answer to the last sending.
LEMMA UseAnswer ==
  ASSUME ClientInv, AnswerInv, UseCall, RecvDone \/ (RecvCut /\ lang = "py")
  PROVE  Answered'
<1>1. /\ pc = "body" /\ pc' = "idle"
      /\ UNCHANGED <<lang, calls, tries, packed, got, need, skewed, netVars>>
      /\ Len(got) = HeaderUnits + need \/ (out = <<>> /\ link # "up" /\ lang = "py")
  BY DEF RecvDone, RecvCut, UseCall, Ends
<1>2. calls > 0 /\ Top = "call" /\ calls # 0
  BY <1>1, Amounts DEF AnswerInv, Costs, CallCounted, UseCall, ClientInv, Control, Shapes
<1>3. Last' = Last /\ Sending = Last /\ (Clean' <=> Clean)
  BY <1>1, <1>2 DEF Last, Sending, Clean
<1>4. ASSUME Clean
      PROVE  /\ Len(got) >= HeaderUnits
             /\ Len(got) = Total \/ (lang = "py" /\ link # "up")
             /\ \A p \in 1 .. Len(got) : Fits(got[p], p, Last, ran)
  <2>1. Coming /\ Len(got) >= HeaderUnits
    BY <1>1, <1>4, UseQuiet
  <2>2. Len(got) = Total \/ (lang = "py" /\ link # "up")
    BY <1>1, <1>4 DEF AnswerInv, OneAtATime, Exchange, Total
  <2> QED
    BY <1>3, <2>1, <2>2 DEF Coming
<1>5. UNCHANGED <<lang, got, link, ran, calls>>
  BY <1>1 DEF netVars
<1> QED
  BY <1>1, <1>2, <1>3, <1>4, <1>5 DEF Answered

\* An answer is given when it is used.
LEMMA RecvDoneAnswer == ClientInv /\ AnswerInv /\ (RecvDone \/ RecvCut) => Answered'
<1> SUFFICES ASSUME ClientInv, AnswerInv, RecvDone \/ RecvCut PROVE Answered'
  OBVIOUS
<1>1. pc # "idle"
  BY DEF RecvDone, RecvCut
<1>2. CASE UseCall /\ (RecvDone \/ (RecvCut /\ lang = "py"))
  BY <1>2, UseAnswer
<1>3. CASE UseColumn \/ Broken
  BY <1>1, <1>3, BrokenAnswer, NoAnswer DEF UseColumn
<1> QED
  BY <1>2, <1>3 DEF RecvDone, RecvCut, Use

\* Nowhere else.
LEMMA OtherAnswer ==
  ClientInv /\ AnswerInv /\ (Begin \/ Connect \/ Sent \/ SendFails \/ RecvHeader \/ RecvPart
                             \/ RecvBody \/ CutShort \/ Execute \/ Disconnect)
  => Answered'
<1> SUFFICES ASSUME ClientInv, AnswerInv PROVE
      (Begin \/ Connect \/ Sent \/ SendFails \/ RecvHeader \/ RecvPart
       \/ RecvBody \/ CutShort \/ Execute \/ Disconnect) => Answered'
  OBVIOUS
<1>1. Begin => Answered'
  BY DEF Begin, Answered
<1>2. Connect \/ Sent \/ RecvBody \/ CutShort => Answered'
  BY NoAnswer DEF Connect, Sent, RecvBody, CutShort, clientVars
<1>3. SendFails \/ RecvHeader \/ RecvPart => Answered'
  BY NoAnswer, BrokenAnswer DEF SendFails, RecvHeader, RecvPart
<1>4. Execute \/ Disconnect => Answered'
  BY StaysAnswered DEF Execute, Disconnect, clientVars
<1> QED
  BY <1>1, <1>2, <1>3, <1>4

-----------------------------------------------------------------------------
(* The theorems about answers.                                             *)

\* Initially nothing is on its way.
LEMMA InitAnswer == Init => AnswerInv
<1> SUFFICES ASSUME Init PROVE AnswerInv
  OBVIOUS
<1>1. OneAtATime
  BY DEF Init, OneAtATime, Exchange, Executed
<1>2. Bounds
  BY ClientAssumption, EmptySeq DEF Init, Bounds, NoFields
<1>3. Costs
  BY DEF Init, Costs, CallCounted, LossCounted, PyDepth, PyTries, CcQueue, HasCall, Waits, One
<1>4. Answered
  BY DEF Init, Answered
<1> QED
  BY <1>1, <1>2, <1>3, <1>4 DEF AnswerInv

\* Every step keeps the four parts.
LEMMA NextAnswer == ClientInv /\ AnswerInv /\ [Next]_vars => AnswerInv'
<1> SUFFICES ASSUME ClientInv, AnswerInv, [Next]_vars PROVE AnswerInv'
  OBVIOUS
<1>1. CASE UNCHANGED vars
  <2>1. Sending' = Sending /\ Last' = Last /\ HasCall' = HasCall /\ Waits' = Waits
    BY <1>1 DEF vars, clientVars, netVars, Sending, Last, HasCall, Waits, Top
  <2>2. OneAtATime'
    <3>1. Coming' = Coming /\ Quiet' = Quiet
      BY <1>1, <2>1 DEF vars, clientVars, netVars, Coming, Quiet
    <3>2. Exchange' = Exchange /\ Executed' = Executed /\ Clean' = Clean
      BY <1>1, <2>1, <3>1 DEF vars, clientVars, netVars, Exchange, Executed, Clean
    <3> QED
      BY <3>2 DEF OneAtATime, AnswerInv
  <2>3. Bounds'
    BY <1>1 DEF vars, clientVars, netVars, AnswerInv, Bounds
  <2>4. Costs'
    BY <1>1, <2>1 DEF vars, clientVars, netVars, AnswerInv, Costs, CallCounted, LossCounted, PyDepth, PyTries,
      CcQueue
  <2>5. Answered'
    BY <1>1, StaysAnswered DEF vars, clientVars, netVars
  <2> QED
    BY <2>2, <2>3, <2>4, <2>5 DEF AnswerInv
<1>2. CASE Next
  <2>1. OneAtATime'
    BY <1>2, BeginOne, ConnectOne, SentOne, SendFailsOne, RecvHeaderOne, RecvPartOne, RecvBodyOne,
      RecvDoneOne, CutShortOne, ExecuteOne, DisconnectOne DEF Next, Client
  <2>2. Bounds'
    BY <1>2, BeginBounds, ConnectBounds, SentBounds, SendFailsBounds, RecvHeaderBounds, RecvPartBounds,
      RecvBodyBounds, RecvDoneBounds, CutShortBounds, ExecuteBounds, DisconnectBounds DEF Next, Client
  <2>3. Costs'
    BY <1>2, BeginCosts, ConnectCosts, SentCosts, SendFailsCosts, RecvHeaderCosts, RecvPartCosts,
      RecvBodyCosts, RecvDoneCosts, CutShortCosts, ExecuteCosts, DisconnectCosts DEF Next, Client
  <2>4. Answered'
    BY <1>2, RecvDoneAnswer, OtherAnswer DEF Next, Client
  <2> QED
    BY <2>1, <2>2, <2>3, <2>4 DEF AnswerInv
<1> QED
  BY <1>1, <1>2

\* The executions of the last call are of different sendings.
LEMMA RunsAreSendings ==
  ASSUME Executed, tries \in Nat
  PROVE  IsFiniteSet(Runs) /\ Cardinality(Runs) <= tries
<1> DEFINE f == [r \in Runs |-> r.try]
<1>1. \A r \in Runs : r.try \in 1 .. tries
  BY DEF Executed, Made, Runs
<1>2. \A r, q \in Runs : f[r] = f[q] => r = q
  BY DEF Executed, Same, Runs
<1>3. f \in Injection(Runs, 1 .. tries)
  BY <1>1, <1>2 DEF Injection, IsInjective
<1>4. IsFiniteSet(1 .. tries) /\ Cardinality(1 .. tries) = tries
  BY FS_Interval
<1> HIDE DEF f
<1>5. IsFiniteSet(Runs) /\ Cardinality(Runs) <= Cardinality(1 .. tries)
  BY <1>3, <1>4, FS_Injection
<1> QED
  BY <1>4, <1>5

\* The invariant gives the property.
LEMMA AnswerInvTells == ClientInv /\ AnswerInv => AnswerTells
<1> SUFFICES ASSUME ClientInv, AnswerInv, outcome = "answered"
             PROVE  \/ lang = "cc" /\ skewed
                    \/ /\ OfThisCall
                       /\ Len(got) = HeaderUnits + BodyUnits \/ (lang = "py" /\ link # "up")
                       /\ [call |-> calls, try |-> tries, packed |-> packed, schema |-> got[1].schema] \in Runs
                       /\ Cardinality(Runs) <= tries
  BY DEF AnswerTells
<1>1. CASE ~Clean
  BY <1>1, Sizes DEF Clean
<1>2. CASE Clean
  <2>1. /\ calls > 0 /\ Len(got) >= HeaderUnits
        /\ Len(got) = Total \/ (lang = "py" /\ link # "up")
        /\ \A p \in 1 .. Len(got) : Fits(got[p], p, Last, ran)
    BY <1>2 DEF AnswerInv, Answered
  <2>2. calls \in Nat /\ tries \in Nat /\ Len(got) \in Nat /\ HeaderUnits = 2
    BY Sizes
  <2>3. OfThisCall
    BY <2>1 DEF OfThisCall, Fits, Last
  <2>4. [call |-> calls, try |-> tries, packed |-> packed, schema |-> got[1].schema] \in Runs
    <3>1. Fits(got[1], 1, Last, ran) /\ calls # 0
      BY <2>1, <2>2
    <3> QED
      BY <3>1 DEF Fits, Last, Runs
  <2>5. Cardinality(Runs) <= tries
    BY <1>2, <2>2, RunsAreSendings DEF AnswerInv, OneAtATime
  <2> QED
    BY <2>1, <2>3, <2>4, <2>5 DEF Total
<1> QED
  BY <1>1, <1>2

\* And the types.
LEMMA AnswerInvTypes == ClientInv /\ AnswerInv => ClientTypeOK
<1> SUFFICES ASSUME ClientInv, AnswerInv PROVE ClientTypeOK
  OBVIOUS
<1>1. Bounds /\ Costs /\ OneAtATime
  BY DEF AnswerInv
<1>2. /\ {Len(stack), Len(inbox), calls, tries, faults} \subseteq Nat
      /\ stack \in Seq({"call", "column"}) /\ lang \in {"py", "cc"}
  BY Amounts
<1>3. /\ calls <= MaxCalls /\ packed \in 0 .. MaxSchema /\ fields.of \in 0 .. MaxSchema
      /\ schema \in 1 .. MaxSchema /\ faults <= MaxFaults /\ faults \in Nat
      /\ outcome \in {"none", "answered", "failed"} /\ link \in {"up", "fin", "rst"}
  BY <1>1, ClientAssumption DEF Bounds
<1>4. pc \in {"connect", "send", "header", "body", "idle", "killed"}
  BY DEF ClientInv, Control, Shapes
<1>5. \A i \in 1 .. Len(stack) : stack[i] \in {"column", IF i = 1 THEN "call" ELSE "column"}
  <2>1. \A i \in 1 .. Len(stack) : stack[i] \in {"call", "column"}
    BY <1>2, ElementOfSeq
  <2>2. \A i \in 1 .. Len(stack) : i = 1 \/ i \in 2 .. Len(stack)
    BY <1>2
  <2> QED
    BY <1>1, <2>1, <2>2 DEF Bounds
<1>6. \A i \in 1 .. Len(got) : got[i] \in Unit
  BY <1>1, ElementOfSeq DEF Bounds
<1>7. Len(stack) <= faults + 2 /\ tries <= faults + 1
  <2>1. CASE lang = "py"
    BY <1>1, <1>2, <2>1 DEF Costs, PyDepth, PyTries, One
  <2>2. CASE lang = "cc"
    BY <1>1, <1>2, <2>2 DEF Costs, CcQueue, ClientInv, Control, CcOnce
  <2> QED
    BY <1>2, <2>1, <2>2
<1>8. lang = "py" => Len(inbox) <= 1
  BY <1>1 DEF OneAtATime, Exchange, Clean
<1>9. Len(inbox) <= MaxCalls + 1
  BY SMTT(30), <1>1, <1>2, <1>3, <1>8, ClientAssumption DEF Costs, CcQueue, One
<1> QED
  BY <1>2, <1>3, <1>4, <1>5, <1>6, <1>7, <1>8, <1>9 DEF ClientTypeOK

\* For any number of calls, of connections lost and of lists of fields, and answers
\* of any size: an answer that the program gets is that of the last sending of its
\* own call, which a server has executed, each sending once at most; and all of it
\* unless Python lost the connection inside the body; except in C++ once a Recv has
\* failed between the bytes of a size.  (__recv, __send_and_recv; Client::Recv.)
THEOREM AnswerOfThisCall == Spec => []AnswerTells
<1>1. Init => ClientInv /\ AnswerInv
  BY InitInv, InitAnswer
<1>2. ClientInv /\ AnswerInv /\ [Next]_vars => (ClientInv /\ AnswerInv)'
  BY NextKeepsInv, NextAnswer
<1>3. ClientInv /\ AnswerInv => AnswerTells
  BY AnswerInvTells
<1> QED
  BY <1>1, <1>2, <1>3, PTL DEF Spec

\* However often the connection is lost: no request is sent, and no list of fields
\* asked for, more often than there were failures; Python never has more than one
\* request on its way.  (__connect, __send_and_recv.)
THEOREM ClientTypes == Spec => []ClientTypeOK
<1>1. Init => ClientInv /\ AnswerInv
  BY InitInv, InitAnswer
<1>2. ClientInv /\ AnswerInv /\ [Next]_vars => (ClientInv /\ AnswerInv)'
  BY NextKeepsInv, NextAnswer
<1>3. ClientInv /\ AnswerInv => ClientTypeOK
  BY AnswerInvTypes
<1> QED
  BY <1>1, <1>2, <1>3, PTL DEF Spec
=============================================================================
