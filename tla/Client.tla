------------------------------- MODULE Client -------------------------------
(***************************************************************************)
(* The clients of client.cc and stoxdb.py over a connection that the       *)
(* server may close at any time, a restart with another list of fields     *)
(* included.  Both ask for that list when they connect, and pack the ids   *)
(* of fields into later requests.  The Python client connects and sends    *)
(* again when an answer does not come; the C++ client reports a failure.   *)
(* An answer is a sequence of units, HeaderUnits of header and BodyUnits   *)
(* of body, of which any number may have arrived when the client looks.    *)
(***************************************************************************)
EXTENDS Integers, Sequences, FiniteSets

CONSTANTS
  MaxCalls,   \* calls of the program that uses the client
  MaxFaults,  \* connections lost and headers that arrive in pieces
  MaxSchema,  \* lists of fields, numbered from 1, that the server starts with
  BodyUnits,  \* units of the body of an answer
  MaxNeed     \* units that a misread header may announce

ASSUMPTION ClientAssumption ==
  /\ {MaxCalls, MaxFaults, MaxNeed} \subseteq Nat
  /\ {MaxSchema, BodyUnits} \subseteq Nat \ {0}

VARIABLES
  lang,     \* "py" or "cc"
  pc,       \* connect, send, header, body; idle between calls; killed
  stack,    \* the requests under way: under a "column" is what it was asked for
  calls,    \* calls made; the last is the one under way
  tries,    \* times the request of that call was sent
  packed,   \* the list of fields its ids were taken from
  fields,   \* the list of fields known, 0 if none; `whole' if not cut
  got,      \* units of the answer read so far
  need,     \* units of body that the header announces
  outcome,  \* of the last call: none, answered or failed
  skewed,   \* a failed Recv has left part of an answer in the socket
  link,     \* up; fin: closed by the server; rst: reset
  inbox,    \* requests the server has not executed
  out,      \* units of answers that the client has not read
  schema,   \* the list of fields of the server
  ran,      \* history: the requests of calls that were executed
  faults

clientVars == <<lang, pc, stack, calls, tries, packed, fields, got, need, outcome, skewed>>
netVars == <<link, inbox, out, schema, ran, faults>>
vars == <<clientVars, netVars>>

HeaderUnits == 2
NoFields == [of |-> 0, whole |-> FALSE]

Top == stack[Len(stack)]
Pop == SubSeq(stack, 1, Len(stack) - 1)

Init ==
  /\ lang \in {"py", "cc"} /\ pc = "connect" /\ stack = <<>>
  /\ calls = 0 /\ tries = 0 /\ packed = 0 /\ fields = NoFields
  /\ got = <<>> /\ need = 0 /\ outcome = "none" /\ skewed = FALSE
  /\ link = "up" /\ inbox = <<>> /\ out = <<>>
  /\ schema = 1 /\ ran = {} /\ faults = 0

-----------------------------------------------------------------------------
(* The server and the network.                                             *)

\* Call 0 is the request for the list of fields, which no call of the program is.
Answer(r) ==
  [p \in 1 .. HeaderUnits + BodyUnits |->
     [call |-> r.call, try |-> r.try, schema |-> schema, part |-> p]]

\* A request is executed; what was read after it with the same read() is dropped.
Execute ==
  /\ link = "up" /\ inbox # <<>>
  /\ inbox' \in {Tail(inbox), <<>>}
  /\ out' = out \o Answer(Head(inbox))
  /\ ran' = ran \cup {[call |-> r.call, try |-> r.try, packed |-> r.packed, schema |-> schema] :
                      r \in {i \in {Head(inbox)} : i.call # 0}}
  /\ UNCHANGED <<clientVars, link, schema, faults>>

\* close_connection, or the end of the process, which may start again with
\* another list of fields.  What had not left is lost.  The kernel resets a
\* connection that is closed with bytes unread, which part of a request may be.
Disconnect ==
  /\ link = "up" /\ pc # "connect" /\ faults < MaxFaults
  /\ faults' = faults + 1
  /\ link' \in IF inbox # <<>> THEN {"rst"}
               ELSE IF pc = "send" THEN {"fin", "rst"} ELSE {"fin"}
  /\ \E n \in 0 .. Len(out) : out' = SubSeq(out, 1, n)
  /\ inbox' = <<>>
  /\ schema' \in {schema, schema + 1} \cap 1 .. MaxSchema
  /\ UNCHANGED <<clientVars, ran>>

-----------------------------------------------------------------------------
(* One call.                                                               *)

\* The program makes a call, whose request holds ids of the fields known.
Begin ==
  /\ pc = "idle" /\ calls < MaxCalls
  /\ pc' = "send" /\ stack' = <<"call">>
  /\ calls' = calls + 1 /\ tries' = 0 /\ packed' = fields.of
  /\ outcome' = "none"
  /\ UNCHANGED <<lang, fields, got, need, skewed, netVars>>

\* The mutation asks for the list once.
AskedOnce == IF calls = 0 THEN Append(stack, "column") ELSE stack
Asked == Append(stack, "column")

\* A new socket, over which the list of fields is asked for.  A connection that
\* is refused is tried again.
Connect ==
  /\ pc = "connect" /\ pc' = "send"
  /\ stack' = Asked
  /\ link' = "up" /\ inbox' = <<>> /\ out' = <<>>
  /\ UNCHANGED <<lang, calls, tries, packed, fields, got, need, outcome, skewed,
                 schema, ran, faults>>

\* A call of C++ that fails: the socket is kept, whatever its state.
Fail ==
  /\ pc' = "idle" /\ stack' = <<>>
  /\ outcome' = IF Top = "call" THEN "failed" ELSE outcome
  /\ UNCHANGED fields

\* An answer does not come.  Python's __send_and_recv connects again; the mutation
\* only sends again.
KeepSocket == pc' = "send" /\ UNCHANGED <<stack, outcome, fields>>
Reconnect == pc' = "connect" /\ UNCHANGED <<stack, outcome, fields>>

Broken ==
  \/ lang = "py" /\ Reconnect
  \/ lang = "cc" /\ Fail

Request == [call |-> IF Top = "call" THEN calls ELSE 0,
            try  |-> IF Top = "call" THEN tries + 1 ELSE 0,
            packed |-> packed]

\* The whole request leaves.  A server that has closed does not read it, and its
\* kernel answers with a reset, before the next call or after.
Sent ==
  /\ pc = "send" /\ link # "rst"
  /\ pc' = "header" /\ got' = <<>>
  /\ tries' = IF Top = "call" THEN tries + 1 ELSE tries
  /\ \/ link = "up" /\ inbox' = Append(inbox, Request) /\ UNCHANGED link
     \/ link = "fin" /\ link' \in {"fin", "rst"} /\ UNCHANGED inbox
  /\ UNCHANGED <<lang, stack, calls, packed, fields, need, outcome, skewed,
                 out, schema, ran, faults>>

\* The reset comes while a long request is being sent.
CutShort ==
  /\ pc = "send" /\ link = "fin" /\ link' = "rst"
  /\ UNCHANGED <<clientVars, inbox, out, schema, ran, faults>>

\* send() on a connection that was reset fails in C++, or ends the process, as
\* nothing ignores SIGPIPE.  Python's __send tries the same socket again for ever:
\* it takes no step.
SendFails ==
  /\ pc = "send" /\ link = "rst" /\ lang = "cc"
  /\ \/ Fail
     \/ pc' = "killed" /\ UNCHANGED <<stack, outcome, fields>>
  /\ UNCHANGED <<lang, calls, tries, packed, got, need, skewed, netVars>>

\* n units are read.
Read(n) ==
  /\ n <= Len(out)
  /\ got' = got \o SubSeq(out, 1, n)
  /\ out' = SubSeq(out, n + 1, Len(out))

Aligned(units) == \A p \in 1 .. Len(units) : units[p].part = p

\* A whole header is read.  C++ takes any four bytes for a size: a misread one may
\* be too large for expand_buffer, or be a number of bytes to wait for.
RecvHeader ==
  /\ pc = "header" /\ Read(HeaderUnits)
  /\ \/ /\ pc' = "body" /\ UNCHANGED <<stack, outcome, fields>>
        /\ need' \in IF Aligned(got') THEN {BodyUnits} ELSE 0 .. MaxNeed
     \/ lang = "cc" /\ ~Aligned(got') /\ Fail /\ UNCHANGED need
  /\ UNCHANGED <<lang, calls, tries, packed, skewed, link, inbox, schema, ran, faults>>

\* recv() returns a part of the header, none of it, or an error.  Neither client
\* waits for the rest.
RecvPart ==
  /\ pc = "header"
  /\ \E n \in 0 .. HeaderUnits - 1 :
       /\ Read(n)
       /\ \/ n = Len(out) /\ (n > 0 \/ link # "up") /\ UNCHANGED <<faults, skewed>>
          \/ /\ n \in 1 .. Len(out) - 1 /\ faults < MaxFaults
             /\ faults' = faults + 1 /\ skewed' = (skewed \/ lang = "cc")
  /\ Broken
  /\ UNCHANGED <<lang, calls, tries, packed, need, link, inbox, schema, ran>>

RecvBody ==
  /\ pc = "body" /\ Len(got) < HeaderUnits + need
  /\ \E n \in 1 .. HeaderUnits + need - Len(got) : Read(n)
  /\ UNCHANGED <<lang, pc, stack, calls, tries, packed, fields, need, outcome, skewed,
                 link, inbox, schema, ran, faults>>

\* The answer goes to the program, or into the list of fields; a list that ends
\* inside a field may make unpack raise, inside __connect.  In Python the request
\* below is then sent.
UseCall ==
  /\ Top = "call"
  /\ pc' = "idle" /\ stack' = <<>> /\ outcome' = "answered"
  /\ UNCHANGED fields

Learnt ==
  IF Len(got) = HeaderUnits + BodyUnits /\ Aligned(got) THEN [of |-> got[1].schema, whole |-> TRUE]
  ELSE IF Len(got) > HeaderUnits /\ Aligned(got) THEN [of |-> got[1].schema, whole |-> FALSE]
  ELSE NoFields

UseColumn ==
  /\ Top = "column" /\ stack' = Pop /\ UNCHANGED outcome
  /\ \/ fields' = Learnt /\ pc' = IF Pop = <<>> THEN "idle" ELSE "send"
     \/ /\ lang = "py" /\ ~Learnt.whole /\ Learnt.of # 0
        /\ pc' = "connect" /\ UNCHANGED fields

Use == UseCall \/ UseColumn

RecvDone ==
  /\ pc = "body" /\ Len(got) = HeaderUnits + need
  /\ Use
  /\ UNCHANGED <<lang, calls, tries, packed, got, need, skewed, netVars>>

\* recv() returns nothing or an error; the mutation only sees the error.
Errs == link = "rst"
Ends == link # "up"

\* The connection ends inside a body.  Python takes an empty recv() for the end of
\* the answer and uses what there is; a reset raises.  C++ fails.
RecvCut ==
  /\ pc = "body" /\ Len(got) < HeaderUnits + need /\ out = <<>> /\ Ends
  /\ IF lang = "py" /\ link = "fin" THEN Use ELSE Broken
  /\ UNCHANGED <<lang, calls, tries, packed, got, need, skewed, netVars>>

Client == Connect \/ Sent \/ SendFails \/ RecvHeader \/ RecvPart \/ RecvBody
          \/ RecvDone \/ RecvCut

Next == Begin \/ Client \/ CutShort \/ Execute \/ Disconnect

Spec == Init /\ [][Next]_vars

\* The program's thread runs, and so does the server's.
FairSpec == Spec /\ WF_vars(Client) /\ WF_vars(Execute)

-----------------------------------------------------------------------------
(* Properties.                                                             *)

Unit == [call : 0 .. MaxCalls, try : 0 .. MaxFaults + 1, schema : 1 .. MaxSchema, part : Nat]

\* The variables keep their types.  Python's __connect and __send_and_recv call
\* each other, once deeper for each connection lost: no request is sent more
\* often, and no list of fields asked for deeper, than there were failures.
ClientTypeOK ==
  /\ lang \in {"py", "cc"}
  /\ pc \in {"connect", "send", "header", "body", "idle", "killed"}
  /\ \A i \in 1 .. Len(stack) : stack[i] \in {"column", IF i = 1 THEN "call" ELSE "column"}
  /\ Len(stack) <= faults + 2 /\ tries <= faults + 1
  /\ calls <= MaxCalls /\ packed \in 0 .. MaxSchema /\ fields.of \in 0 .. MaxSchema
  /\ \A i \in 1 .. Len(got) : got[i] \in Unit
  /\ outcome \in {"none", "answered", "failed"}
  /\ link \in {"up", "fin", "rst"} /\ Len(inbox) <= MaxCalls + 1
  /\ lang = "py" => Len(inbox) <= 1
  /\ schema \in 1 .. MaxSchema /\ faults <= MaxFaults

\* The units read are those of an answer to the last sending of the last call.
OfThisCall == \A p \in 1 .. Len(got) :
  got[p].call = calls /\ got[p].try = tries /\ got[p].part = p

Runs == {r \in ran : r.call = calls}

\* A call that returns an answer returns that of its own request, which the
\* server has executed: once, unless it had to be sent again; and all of it,
\* unless the Python client lost the connection inside the body, which its loop
\* takes for the end.  Not so in C++ once a Recv has failed between the bytes of
\* a size: what was left of that answer is read as the next.
\* (__recv, __send_and_recv; Client::Recv.)
AnswerTells ==
  outcome = "answered" =>
    \/ lang = "cc" /\ skewed
    \/ /\ OfThisCall
       /\ Len(got) = HeaderUnits + BodyUnits \/ (lang = "py" /\ link # "up")
       /\ [call |-> calls, try |-> tries, packed |-> packed, schema |-> got[1].schema] \in Runs
       /\ Cardinality(Runs) <= tries

\* A request packed with the ids of one list of fields is executed by a server
\* with another only if Python sends it again, unchanged, after it has connected to
\* that server: otherwise the connection does not outlive the list.
\* (__connect, __update_fields, setmore; Client::Client, Client::UpdateFields.)
StaleOnlyResent ==
  \A r \in ran : (lang = "py" /\ r.try > 1) \/ r.packed \in {0, r.schema}

\* Python's __send on a connection that was reset, though the comment at
\* __send_and_recv says that it tries again when the connection is lost.
SendsForEver == lang = "py" /\ pc = "send" /\ link = "rst"

\* C++ waits for bytes that will not come: those that a misread header announces,
\* or an answer to a request that the server has dropped with the one before.
WaitsForEver == lang = "cc" /\ skewed /\ pc \in {"header", "body"} /\ link = "up"

\* A call ends, with an answer or a failure, however often the connection is
\* lost, with the two exceptions above and the process killed by SIGPIPE.
CallEnds == pc # "idle" ~> pc \in {"idle", "killed"} \/ SendsForEver \/ WaitsForEver
=============================================================================
