------------------------------- MODULE Record -------------------------------
(***************************************************************************)
(* record.cc: the records in memory, and the operations that change them.  *)
(* setone() applies one entry of a SET in place: it writes the fields the  *)
(* entry names, collects in `decide' the fields whose formulas read them,  *)
(* and recomputes level by level until no field is left.  The steps of     *)
(* setone are steps here, so that its worklist and its early returns can   *)
(* be told apart; no other request runs between them.                      *)
(***************************************************************************)
EXTENDS Integers, Sequences, FiniteSets

CONSTANTS
  Key, LongKey,      \* keys, and those of them longer than 64 bytes
  NumFields,         \* fields_.size(); field ids are 0 .. NumFields - 1
  Value, Zero,       \* the values of a field, and the one of a new record
  Formula, Deps,     \* the fields that have a formula, and the fields each reads
  Eval(_, _),        \* formula_compute, converted to the field's type
  Where,             \* conditions of a DEL that load_and_check_logical accepts
  Matches(_, _),     \* compute_logical
  Writable, BadIds,  \* ids that clients write: fields, and ids setone refuses
  MaxEntries, MaxWrites  \* bounds: entries of a SET, writes of an entry

Field == 0 .. NumFields - 1

Blank == [f \in Field |-> Zero]

ASSUME RecordAssumption ==
  /\ NumFields \in Nat /\ MaxEntries \in Nat /\ MaxWrites \in Nat
  /\ LongKey \subseteq Key /\ Zero \in Value
  /\ Formula \subseteq Field /\ Deps \in [Formula -> SUBSET Field]
  /\ Writable \subseteq Field /\ BadIds \subseteq Int /\ BadIds \cap Field = {}

\* formula_compute reads only the fields that are in the formula, and returns a
\* value of the field.
ASSUME EvalAssumption ==
  \A f \in Formula : \A v, w \in [Field -> Value] :
    /\ Eval(f, v) \in Value
    /\ (\A d \in Deps[f] : v[d] = w[d]) => Eval(f, v) = Eval(f, w)

VARIABLES
  data,      \* data_: the record of every key that has one
  pc,        \* "ready", "entry", "write" (the loop over ids), "compute" (the loop
             \* over decide), "undefined" (memory outside fields_ has been read)
  entries,   \* entries of the request not handled yet, the current one first
  writes,    \* writes of the current entry not done yet
  decide, next,  \* the worklist, and the one of the next level
  ok,        \* entries accepted so far
  before,    \* (history) data_ when the current entry began
  assigned,  \* (history) fields assigned for this entry
  touched    \* (history) keys of records of which a client has written a field
             \* that has a formula, or for which an entry was refused

vars == <<data, pc, entries, writes, decide, next, ok, before, assigned, touched>>

Write == [id : Writable \cup BadIds, val : Value]
WriteList == UNION {[1 .. n -> Write] : n \in 0 .. MaxWrites}
Entry == [key : Key, writes : WriteList]
Request == UNION {[1 .. n -> Entry] : n \in 0 .. MaxEntries}

CurKey == Head(entries).key

\* Field::decide, from load_config: the fields whose formulas read f.
Decide(f) == {g \in Formula : f \in Deps[g]}

NoData == [k \in {} |-> Blank]

Init ==
  /\ data = NoData
  /\ pc = "ready"
  /\ entries = <<>> /\ writes = <<>>
  /\ decide = {} /\ next = {} /\ assigned = {} /\ touched = {}
  /\ ok = 0
  /\ before = NoData

-----------------------------------------------------------------------------

\* opt_set: the next entries to apply.
BeginSet ==
  /\ pc = "ready"
  /\ entries' \in Request
  /\ pc' = "entry" /\ ok' = 0
  /\ UNCHANGED <<data, writes, decide, next, before, assigned, touched>>

\* opt_set answers with the number of entries accepted.
EndSet ==
  /\ pc = "entry" /\ entries = <<>>
  /\ pc' = "ready"
  /\ UNCHANGED <<data, entries, writes, decide, next, ok, before, assigned, touched>>

NextEntry == entries' = Tail(entries) /\ pc' = "entry"

\* The mutation takes keys of any length.
NeverTooLong(k) == FALSE
TooLong(k) == k \in LongKey

\* A key longer than 64 bytes: setone returns before it touches anything.
SkipEntry ==
  /\ pc = "entry" /\ entries # <<>> /\ TooLong(CurKey)
  /\ NextEntry
  /\ UNCHANGED <<data, writes, decide, next, ok, before, assigned, touched>>

\* The record is created, all zeros, before the ids are looked at.
BeginEntry ==
  /\ pc = "entry" /\ entries # <<>> /\ ~TooLong(CurKey)
  /\ before' = data
  /\ data' = [k \in DOMAIN data \cup {CurKey} |-> IF k \in DOMAIN data THEN data[k] ELSE Blank]
  /\ writes' = Head(entries).writes
  /\ decide' = {} /\ next' = {} /\ assigned' = {}
  /\ pc' = "write"
  /\ UNCHANGED <<entries, ok, touched>>

\* setone's test of an id; the mutation has none.
AnyId(f) == TRUE
InRange(f) == f >= 0 /\ f <= NumFields

\* decide once field f is written; the mutation keeps the last field's only.
CollectLast(f) == Decide(f)
Collect(f) == decide \cup Decide(f)

WriteField ==
  LET w == Head(writes) IN
  /\ pc = "write" /\ writes # <<>> /\ InRange(w.id) /\ w.id # NumFields
  /\ data' = [data EXCEPT ![CurKey][w.id] = w.val]
  /\ decide' = Collect(w.id)
  /\ assigned' = assigned \cup {w.id}
  /\ touched' = IF w.id \in Formula THEN touched \cup {CurKey} ELSE touched
  /\ writes' = Tail(writes)
  /\ UNCHANGED <<pc, entries, next, ok, before>>

\* The test lets the id through that is one past the last: fields_[id] is then
\* memory outside the vector, and anything may follow.
WriteBeyond ==
  /\ pc = "write" /\ writes # <<>> /\ Head(writes).id = NumFields
  /\ pc' = "undefined"
  /\ UNCHANGED <<data, entries, writes, decide, next, ok, before, assigned, touched>>

\* The mutation counts the entry as accepted.
RefuseIdCounted ==
  /\ pc = "write" /\ writes # <<>> /\ ~InRange(Head(writes).id)
  /\ NextEntry
  /\ writes' = <<>> /\ decide' = {} /\ assigned' = {} /\ before' = NoData
  /\ touched' = touched \cup {CurKey}
  /\ ok' = ok + 1
  /\ UNCHANGED <<data, next>>

\* "id error": setone returns at once, with what it has written in place.
RefuseId ==
  /\ pc = "write" /\ writes # <<>> /\ ~InRange(Head(writes).id)
  /\ NextEntry
  /\ writes' = <<>> /\ decide' = {} /\ assigned' = {} /\ before' = NoData
  /\ touched' = touched \cup {CurKey}
  /\ UNCHANGED <<data, next, ok>>

BeginCompute ==
  /\ pc = "write" /\ writes = <<>>
  /\ pc' = "compute"
  /\ UNCHANGED <<data, entries, writes, decide, next, ok, before, assigned, touched>>

\* The next level once field f is computed; the mutation forgets what reads f.
NotCarried(f) == next
Carried(f) == next \cup Decide(f)

\* The least id of this level; std::set iterates in order.
ComputeField ==
  /\ pc = "compute"
  /\ \E f \in decide :
       /\ \A g \in decide : f <= g
       /\ data' = [data EXCEPT ![CurKey][f] = Eval(f, data[CurKey])]
       /\ decide' = decide \ {f}
       /\ next' = Carried(f)
       /\ assigned' = assigned \cup {f}
  /\ UNCHANGED <<pc, entries, writes, ok, before, touched>>

\* The mutation does not empty `next'.
NextLevelKept ==
  /\ pc = "compute" /\ decide = {} /\ next # {}
  /\ decide' = next
  /\ UNCHANGED <<data, pc, entries, writes, next, ok, before, assigned, touched>>

NextLevel ==
  /\ pc = "compute" /\ decide = {} /\ next # {}
  /\ decide' = next /\ next' = {}
  /\ UNCHANGED <<data, pc, entries, writes, ok, before, assigned, touched>>

EndEntry ==
  /\ pc = "compute" /\ decide = {} /\ next = {}
  /\ ok' = ok + 1
  /\ assigned' = {} /\ before' = NoData
  /\ NextEntry
  /\ UNCHANGED <<data, writes, decide, next, touched>>

-----------------------------------------------------------------------------

Erase(K) == data' = [k \in DOMAIN data \ K |-> data[k]] /\ touched' = touched \ K

\* opt_del with keys, which makes it ignore the condition.
DeleteKeys ==
  /\ pc = "ready"
  /\ \E K \in SUBSET Key \ {{}} : Erase(K)
  /\ UNCHANGED <<pc, entries, writes, decide, next, ok, before, assigned>>

\* opt_del with a condition and no keys.
DeleteWhere ==
  /\ pc = "ready"
  /\ \E w \in Where : Erase({k \in DOMAIN data : Matches(w, data[k])})
  /\ UNCHANGED <<pc, entries, writes, decide, next, ok, before, assigned>>

SetOne ==
  \/ SkipEntry \/ BeginEntry \/ WriteField \/ WriteBeyond \/ RefuseId
  \/ BeginCompute \/ ComputeField \/ NextLevel \/ EndEntry

Next == BeginSet \/ EndSet \/ SetOne \/ DeleteKeys \/ DeleteWhere

Spec == Init /\ [][Next]_vars

\* A request that has begun is worked on until it is answered.
FairSpec == Spec /\ WF_vars(SetOne \/ EndSet)

-----------------------------------------------------------------------------

RecordTypeOK ==
  /\ DOMAIN data \subseteq Key /\ data \in [DOMAIN data -> [Field -> Value]]
  /\ pc \in {"ready", "entry", "write", "compute", "undefined"}
  /\ entries \in Seq(Entry)
  /\ writes \in Seq(Write)
  /\ decide \subseteq Formula /\ next \subseteq Formula
  /\ assigned \subseteq Field /\ touched \subseteq Key
  /\ ok \in Nat

IsCurrent(f, rec) == rec[f] = Eval(f, rec)

\* The worklist forgets nothing: inside an entry, a formula that reads an
\* assigned field is up to date or waits to be computed, although levels are
\* computed in the order of ids, and a field may be computed before one it
\* reads (record.cc:95-135).
NothingForgotten ==
  pc \in {"write", "compute"} =>
    \A f \in Formula : Deps[f] \cap assigned # {} =>
      f \in decide \cup next \/ IsCurrent(f, data[CurKey])

\* Between entries every formula of every record is up to date (record.cc:100,
\* db.conf:70), unless a client has written one itself or had an entry refused
\* on it, and as long as formulas are zero on the record of zeros.
FormulasCurrent ==
  pc \in {"ready", "entry"} =>
    \A k \in DOMAIN data \ touched : \A f \in Formula : IsCurrent(f, data[k])

\* A key longer than 64 bytes is dropped with all its data (readme.md:4).
LongKeysDropped == DOMAIN data \cap LongKey = {}

\* What Store.tla sees: an entry takes effect when setone is done with it.
Promise == INSTANCE Store WITH
  store <- IF pc \in {"write", "compute", "undefined"} THEN before ELSE data,
  Writes <- WriteList

\* Every SET and DEL is what Store.tla promises, an entry of a SET in one step.
ImplementsStore == Promise!Spec

\* setone ends: the levels run out (record.cc:102-135, meta.h:43).
SetEnds == pc # "ready" ~> pc \in {"ready", "undefined"}
=============================================================================
