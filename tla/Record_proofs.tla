--------------------------- MODULE Record_proofs ---------------------------
(***************************************************************************)
(* Proofs about record.cc for every set of keys, every list of fields,     *)
(* every dependency graph (cyclic ones too: only termination needs it to   *)
(* be acyclic) and every formula that reads the fields it names.           *)
(***************************************************************************)
EXTENDS Record, SequenceTheorems, TLAPS

\* Inside an entry there is a record to work on, for a key that is not too long.
EntryOpen ==
  pc \in {"write", "compute"} =>
    entries # <<>> /\ CurKey \in DOMAIN data /\ CurKey \notin LongKey

\* While fields are written nothing is computed, so what a written field decides
\* waits in the first level, even if its formula happens to hold already.
FirstLevel ==
  pc = "write" =>
    /\ next = {}
    /\ \A g \in Formula : Deps[g] \cap assigned # {} => g \in decide

RecordInv == RecordTypeOK /\ EntryOpen /\ FirstLevel /\ NothingForgotten /\ LongKeysDropped

-----------------------------------------------------------------------------
(* Lists, and one assignment to a record.                                  *)

\* The head and the tail of a list that is not empty.
LEMMA HeadTail ==
  ASSUME NEW S, NEW s \in Seq(S), s # <<>>
  PROVE  Head(s) \in S /\ Tail(s) \in Seq(S)
OBVIOUS

\* The requests and the write lists that are enumerated are lists.
LEMMA ListsOf == Request \subseteq Seq(Entry) /\ WriteList \subseteq Seq(Write)
<1>1. ASSUME NEW S, NEW n \in Nat PROVE [1 .. n -> S] \subseteq Seq(S)
  OBVIOUS
<1>2. Request \subseteq Seq(Entry)
  <2> SUFFICES ASSUME NEW r \in Request PROVE r \in Seq(Entry)
    OBVIOUS
  <2>1. PICK n \in 0 .. MaxEntries : r \in [1 .. n -> Entry]
    BY DEF Request
  <2>2. n \in Nat
    BY <2>1, RecordAssumption
  <2> QED BY <1>1, <2>1, <2>2
<1>3. WriteList \subseteq Seq(Write)
  <2> SUFFICES ASSUME NEW r \in WriteList PROVE r \in Seq(Write)
    OBVIOUS
  <2>1. PICK n \in 0 .. MaxWrites : r \in [1 .. n -> Write]
    BY DEF WriteList
  <2>2. n \in Nat
    BY <2>1, RecordAssumption
  <2> QED BY <1>1, <2>1, <2>2
<1> QED BY <1>2, <1>3

\* Assigning one field of a record does not disturb, by EvalAssumption, the
\* other formulas that do not read it.
LEMMA AssignOne ==
  ASSUME NEW v \in [Field -> Value], NEW f \in Field, NEW x \in Value,
         NEW g \in Formula, g # f, g \notin Decide(f), IsCurrent(g, v),
         NEW w, w = [v EXCEPT ![f] = x]
  PROVE  IsCurrent(g, w)
<1>1. w \in [Field -> Value] /\ g \in Field /\ Deps[g] \subseteq Field
  BY RecordAssumption
<1>2. f \notin Deps[g]
  BY DEF Decide
<1>3. \A d \in Deps[g] : w[d] = v[d]
  BY <1>1, <1>2
<1>4. w[g] = v[g]
  BY <1>1
<1>5. Eval(g, v) = Eval(g, w)
  BY <1>1, <1>3, EvalAssumption
<1> QED
  BY <1>4, <1>5 DEF IsCurrent

\* A formula that does not read its own field is up to date once computed.
LEMMA ComputeOne ==
  ASSUME NEW v \in [Field -> Value], NEW f \in Formula, f \notin Decide(f),
         NEW w, w = [v EXCEPT ![f] = Eval(f, v)]
  PROVE  IsCurrent(f, w)
<1>1. f \in Field /\ Deps[f] \subseteq Field /\ Eval(f, v) \in Value
  BY RecordAssumption, EvalAssumption
<1>2. w \in [Field -> Value] /\ w[f] = Eval(f, v)
  BY <1>1
<1>3. \A d \in Deps[f] : w[d] = v[d]
  BY <1>1 DEF Decide
<1>4. Eval(f, v) = Eval(f, w)
  BY <1>2, <1>3, EvalAssumption
<1> QED
  BY <1>2, <1>4 DEF IsCurrent

\* What the two steps that assign a field have in common: the table keeps its
\* keys and its type, and only one field of one record changes.
LEMMA AssignTyped ==
  ASSUME RecordTypeOK, NEW k \in DOMAIN data, NEW f \in Field, NEW x \in Value,
         data' = [data EXCEPT ![k][f] = x]
  PROVE  /\ DOMAIN data' = DOMAIN data
         /\ data' \in [DOMAIN data -> [Field -> Value]]
         /\ data[k] \in [Field -> Value]
         /\ data'[k] = [data[k] EXCEPT ![f] = x]
         /\ \A i \in DOMAIN data : i # k => data'[i] = data[i]
BY DEF RecordTypeOK

-----------------------------------------------------------------------------
(* The invariant of setone, one lemma per step.                            *)

LEMMA RecordInit == Init => RecordInv
BY DEF Init, RecordInv, RecordTypeOK, EntryOpen, FirstLevel, NothingForgotten, LongKeysDropped, NoData

\* What is known of the write at hand.
LEMMA CurrentWrite ==
  ASSUME RecordInv, writes # <<>>
  PROVE  /\ Head(writes) \in Write /\ Tail(writes) \in Seq(Write)
         /\ Head(writes).id \in Int /\ Head(writes).val \in Value
         /\ InRange(Head(writes).id) /\ Head(writes).id # NumFields => Head(writes).id \in Field
<1>1. Head(writes) \in Write /\ Tail(writes) \in Seq(Write)
  BY HeadTail DEF RecordInv, RecordTypeOK
<1>2. Head(writes).id \in Writable \cup BadIds /\ Head(writes).val \in Value
  BY <1>1 DEF Write
<1>3. Field \subseteq Int
  BY RecordAssumption DEF Field
<1>4. Head(writes).id \in Int
  BY <1>2, <1>3, RecordAssumption
<1> HIDE DEF Write
<1>5. \A i \in Int : InRange(i) /\ i # NumFields => i \in Field
  BY RecordAssumption DEF InRange, Field
<1> QED
  BY <1>1, <1>2, <1>4, <1>5

\* setone writes one field of the current record.
LEMMA WritePreserves == RecordInv /\ WriteField => RecordInv'
<1> SUFFICES ASSUME RecordInv, WriteField PROVE RecordInv'
  OBVIOUS
<1> DEFINE f == Head(writes).id
           x == Head(writes).val
           k == CurKey
<1>1. /\ pc = "write" /\ writes # <<>> /\ InRange(f) /\ f # NumFields
      /\ data' = [data EXCEPT ![k][f] = x]
      /\ decide' = decide \cup Decide(f)
      /\ assigned' = assigned \cup {f}
      /\ writes' = Tail(writes)
      /\ pc' = pc /\ entries' = entries /\ next' = next /\ ok' = ok
      /\ touched' \in {touched, touched \cup {k}}
  BY DEF WriteField, Collect
<1>2. f \in Field /\ x \in Value /\ Tail(writes) \in Seq(Write)
  BY <1>1, CurrentWrite
<1>3. RecordTypeOK /\ k \in DOMAIN data /\ k \notin LongKey /\ entries # <<>> /\ next = {}
  BY <1>1 DEF RecordInv, EntryOpen, FirstLevel
<1>4. CurKey' = k
  BY <1>1 DEF CurKey
<1> HIDE DEF f, x, k
<1>5. DOMAIN data' = DOMAIN data /\ data' \in [DOMAIN data -> [Field -> Value]]
  BY <1>1, <1>2, <1>3, AssignTyped
<1>6. Decide(f) \subseteq Formula
  BY DEF Decide
<1>7. RecordTypeOK'
  BY <1>1, <1>2, <1>3, <1>5, <1>6 DEF RecordTypeOK
<1>8. EntryOpen'
  BY <1>1, <1>3, <1>4, <1>5 DEF EntryOpen
<1>9. FirstLevel'
  BY <1>1, <1>3 DEF RecordInv, FirstLevel, Decide
<1>10. NothingForgotten'
  BY <1>1, <1>9 DEF FirstLevel, NothingForgotten
<1> QED
  BY <1>1, <1>3, <1>5, <1>7, <1>8, <1>9, <1>10 DEF RecordInv, LongKeysDropped

\* setone computes the least formula of the level.
LEMMA ComputePreserves == RecordInv /\ ComputeField => RecordInv'
<1> SUFFICES ASSUME RecordInv, ComputeField PROVE RecordInv'
  OBVIOUS
<1> DEFINE k == CurKey
<1>1. PICK f \in decide :
        /\ data' = [data EXCEPT ![k][f] = Eval(f, data[k])]
        /\ decide' = decide \ {f}
        /\ next' = next \cup Decide(f)
        /\ assigned' = assigned \cup {f}
  BY DEF ComputeField, Carried
<1>2. /\ pc = "compute" /\ pc' = pc /\ entries' = entries /\ writes' = writes
      /\ ok' = ok /\ k' = k /\ touched' = touched
  BY DEF ComputeField, CurKey
<1> HIDE DEF k
<1>3. /\ RecordTypeOK /\ k \in DOMAIN data /\ k \notin LongKey /\ entries # <<>>
      /\ f \in Formula /\ f \in Field
  BY <1>1, <1>2, RecordAssumption DEF RecordInv, EntryOpen, RecordTypeOK, k
<1>4. Eval(f, data[k]) \in Value
  BY <1>3, EvalAssumption DEF RecordTypeOK
<1>5. /\ DOMAIN data' = DOMAIN data
      /\ data' \in [DOMAIN data -> [Field -> Value]]
      /\ data[k] \in [Field -> Value]
      /\ data'[k] = [data[k] EXCEPT ![f] = Eval(f, data[k])]
  BY <1>1, <1>3, <1>4, AssignTyped
<1>6. Decide(f) \subseteq Formula
  BY DEF Decide
<1>7. RecordTypeOK'
  BY <1>1, <1>2, <1>3, <1>5, <1>6 DEF RecordTypeOK
<1>8. EntryOpen' /\ FirstLevel'
  BY <1>2, <1>3, <1>5 DEF EntryOpen, FirstLevel, k
<1>9. NothingForgotten'
  <2> SUFFICES ASSUME NEW g \in Formula, Deps[g] \cap assigned' # {}, g \notin decide' \cup next'
               PROVE  IsCurrent(g, data'[k])
    BY <1>2 DEF NothingForgotten, k
  <2>1. g \notin Decide(f) /\ Deps[g] \cap assigned # {} /\ g \notin next
    BY <1>1 DEF Decide
  <2>2. CASE g = f
    BY <1>3, <1>5, <2>1, <2>2, ComputeOne
  <2>3. CASE g # f
    <3>1. IsCurrent(g, data[k])
      BY <1>1, <1>2, <2>1, <2>3 DEF RecordInv, NothingForgotten, k
    <3> QED
      BY <1>3, <1>4, <1>5, <2>1, <2>3, <3>1, AssignOne
  <2> QED BY <2>2, <2>3
<1> QED
  BY <1>3, <1>5, <1>7, <1>8, <1>9 DEF RecordInv, LongKeysDropped

\* A new entry: its record exists from now on.
LEMMA BeginEntryPreserves == RecordInv /\ BeginEntry => RecordInv'
<1> SUFFICES ASSUME RecordInv, BeginEntry PROVE RecordInv'
  OBVIOUS
<1> DEFINE k == CurKey
<1>1. /\ entries # <<>> /\ k \notin LongKey /\ k' = k
      /\ data' = [i \in DOMAIN data \cup {k} |-> IF i \in DOMAIN data THEN data[i] ELSE Blank]
      /\ writes' = Head(entries).writes
      /\ decide' = {} /\ next' = {} /\ assigned' = {}
      /\ pc' = "write" /\ entries' = entries /\ ok' = ok /\ touched' = touched
  BY DEF BeginEntry, TooLong, CurKey
<1>2. Head(entries) \in Entry
  BY <1>1, HeadTail DEF RecordInv, RecordTypeOK
<1>3. k \in Key /\ writes' \in Seq(Write)
  BY <1>1, <1>2, ListsOf DEF Entry, CurKey
<1> HIDE DEF k
<1>4. Blank \in [Field -> Value]
  BY RecordAssumption DEF Blank
<1>5. DOMAIN data' = DOMAIN data \cup {k} /\ data' \in [DOMAIN data' -> [Field -> Value]]
  BY <1>1, <1>4 DEF RecordInv, RecordTypeOK
<1>6. RecordTypeOK'
  BY <1>1, <1>3, <1>5 DEF RecordInv, RecordTypeOK
<1>7. EntryOpen' /\ FirstLevel' /\ NothingForgotten'
  BY <1>1, <1>5 DEF EntryOpen, FirstLevel, NothingForgotten, k
<1> QED
  BY <1>1, <1>5, <1>6, <1>7 DEF RecordInv, LongKeysDropped

\* The steps that only move the control of opt_set and setone.
LEMMA ControlPreserves ==
  RecordInv /\ (BeginSet \/ EndSet \/ SkipEntry \/ WriteBeyond \/ RefuseId
               \/ BeginCompute \/ NextLevel \/ EndEntry) => RecordInv'
<1> USE DEF RecordInv, EntryOpen, FirstLevel, NothingForgotten, LongKeysDropped
<1> SUFFICES ASSUME RecordInv PROVE
      (BeginSet \/ EndSet \/ SkipEntry \/ WriteBeyond \/ RefuseId
        \/ BeginCompute \/ NextLevel \/ EndEntry) => RecordInv'
  OBVIOUS
<1>1. BeginSet => RecordInv'
  BY ListsOf DEF BeginSet, RecordTypeOK
<1>2. EndSet => RecordInv'
  BY DEF EndSet, RecordTypeOK
<1>3. SkipEntry => RecordInv'
  BY HeadTail DEF SkipEntry, NextEntry, RecordTypeOK
<1>4. WriteBeyond => RecordInv'
  BY DEF WriteBeyond, RecordTypeOK
<1>5. RefuseId => RecordInv'
  <2> SUFFICES ASSUME RefuseId PROVE RecordInv'
    OBVIOUS
  <2>1. pc = "write" /\ CurKey \in DOMAIN data /\ CurKey \in Key
    BY DEF RefuseId, RecordTypeOK
  <2> QED BY <2>1, HeadTail DEF RefuseId, NextEntry, RecordTypeOK
<1>6. BeginCompute => RecordInv'
  BY DEF BeginCompute, CurKey, RecordTypeOK
<1>7. NextLevel => RecordInv'
  BY DEF NextLevel, CurKey, RecordTypeOK
<1>8. EndEntry => RecordInv'
  BY HeadTail DEF EndEntry, NextEntry, RecordTypeOK
<1> QED
  BY <1>1, <1>2, <1>3, <1>4, <1>5, <1>6, <1>7, <1>8

\* Records are erased between requests only.
LEMMA DeletePreserves == RecordInv /\ (DeleteKeys \/ DeleteWhere) => RecordInv'
<1> SUFFICES ASSUME RecordInv, DeleteKeys \/ DeleteWhere PROVE RecordInv'
  OBVIOUS
<1>1. PICK K : data' = [k \in DOMAIN data \ K |-> data[k]] /\ touched' = touched \ K
  BY DEF DeleteKeys, DeleteWhere, Erase
<1>2. /\ pc = "ready"
      /\ UNCHANGED <<pc, entries, writes, decide, next, ok, before, assigned>>
  BY DEF DeleteKeys, DeleteWhere
<1>3. DOMAIN data' \subseteq DOMAIN data /\ data' \in [DOMAIN data' -> [Field -> Value]]
  BY <1>1 DEF RecordInv, RecordTypeOK
<1>4. touched' \subseteq touched
  BY <1>1
<1> QED
  BY <1>2, <1>3, <1>4 DEF RecordInv, RecordTypeOK, EntryOpen, FirstLevel, NothingForgotten, LongKeysDropped

LEMMA RecordStep == RecordInv /\ [Next]_vars => RecordInv'
<1> SUFFICES ASSUME RecordInv, [Next]_vars PROVE RecordInv'
  OBVIOUS
<1>1. CASE UNCHANGED vars
  BY <1>1 DEF vars, RecordInv, RecordTypeOK, EntryOpen, FirstLevel, NothingForgotten,
              LongKeysDropped, CurKey
<1>2. CASE SetOne
  BY <1>2, WritePreserves, ComputePreserves, BeginEntryPreserves, ControlPreserves DEF SetOne
<1>3. CASE BeginSet \/ EndSet
  BY <1>3, ControlPreserves
<1>4. CASE DeleteKeys \/ DeleteWhere
  BY <1>4, DeletePreserves
<1> QED
  BY <1>1, <1>2, <1>3, <1>4 DEF Next

LEMMA RecordInductive == Spec => []RecordInv
BY RecordInit, RecordStep, PTL DEF Spec

\* The variables of record.cc's model keep their types, and no record is ever
\* seen that lacks a field.
THEOREM RecordTyped == Spec => []RecordTypeOK
BY RecordInductive, PTL DEF RecordInv

\* Whatever the dependency graph and whatever ids the client writes, formulas
\* included, the worklist of setone forgets no formula (record.cc:95-135).
THEOREM WorklistComplete == Spec => []NothingForgotten
BY RecordInductive, PTL DEF RecordInv

\* No record is ever kept under a key of more than 64 bytes.
THEOREM LongKeysNeverStored == Spec => []LongKeysDropped
BY RecordInductive, PTL DEF RecordInv

-----------------------------------------------------------------------------
(* Formulas are up to date.                                                *)

\* A formula is zero on the record of zeros that setone creates.
BlankCurrent == \A f \in Formula : Eval(f, Blank) = Zero

\* Every formula of every record is up to date, but for those of the record of
\* the current entry that wait on the worklist, and the records whose formulas
\* clients write or for which an entry was refused.
UpToDate ==
  \A k \in DOMAIN data \ touched : \A f \in Formula :
    \/ IsCurrent(f, data[k])
    \/ pc \in {"write", "compute", "undefined"} /\ k = CurKey /\ f \in decide \cup next

\* One field of the current record is assigned; what reads it joins the worklist.
LEMMA AssignKeepsUpToDate ==
  ASSUME RecordInv, UpToDate, pc \in {"write", "compute"}, pc' = pc, entries' = entries,
         NEW f \in Field, NEW x \in Value,
         data' = [data EXCEPT ![CurKey][f] = x],
         (decide \cup next \cup Decide(f)) \ {f} \subseteq decide' \cup next',
         Decide(f) \subseteq decide' \cup next',
         touched \subseteq touched', CurKey \notin touched',
         f \in Formula \ Decide(f) => x = Eval(f, data[CurKey])
  PROVE  UpToDate'
<1> DEFINE k == CurKey
<1>1. k \in DOMAIN data /\ k' = k /\ RecordTypeOK
  BY DEF RecordInv, EntryOpen, CurKey
<1> SUFFICES ASSUME NEW i \in DOMAIN data' \ touched', NEW g \in Formula, ~(i = k /\ g \in decide' \cup next')
             PROVE  IsCurrent(g, data'[i])
  BY <1>1 DEF UpToDate
<1> HIDE DEF k
<1>2. /\ data[k] \in [Field -> Value] /\ DOMAIN data' = DOMAIN data
      /\ data'[k] = [data[k] EXCEPT ![f] = x]
      /\ \A j \in DOMAIN data : j # k => data'[j] = data[j]
  BY <1>1, AssignTyped DEF k
<1>3. CASE i # k
  BY <1>2, <1>3 DEF UpToDate, k
<1>4. CASE i = k /\ g = f
  BY <1>2, <1>4, ComputeOne DEF k
<1>5. CASE i = k /\ g # f
  <2>1. g \notin Decide(f) /\ g \notin decide \cup next
    BY <1>5
  <2>2. IsCurrent(g, data[k])
    BY <1>2, <1>5, <2>1 DEF UpToDate, k
  <2> QED BY <1>2, <1>5, <2>1, <2>2, AssignOne
<1> QED BY <1>3, <1>4, <1>5

\* An assignment to a record that nothing is claimed of.
LEMMA TouchedKeepsUpToDate ==
  ASSUME RecordInv, UpToDate, pc \in {"write", "compute"}, pc' = pc, entries' = entries,
         NEW f \in Field, NEW x \in Value,
         data' = [data EXCEPT ![CurKey][f] = x],
         touched \subseteq touched', CurKey \in touched'
  PROVE  UpToDate'
<1>1. CurKey \in DOMAIN data /\ RecordTypeOK
  BY DEF RecordInv, EntryOpen
<1>2. DOMAIN data' = DOMAIN data /\ \A j \in DOMAIN data : j # CurKey => data'[j] = data[j]
  BY <1>1, AssignTyped
<1> QED BY <1>2 DEF UpToDate

LEMMA UpToDateStep ==
  ASSUME BlankCurrent
  PROVE  RecordInv /\ UpToDate /\ [Next]_vars => UpToDate'
<1> SUFFICES ASSUME RecordInv, UpToDate, [Next]_vars PROVE UpToDate'
  OBVIOUS
<1>1. CASE WriteField
  <2> DEFINE f == Head(writes).id
  <2>1. /\ pc = "write" /\ pc' = pc /\ entries' = entries /\ next' = next
        /\ data' = [data EXCEPT ![CurKey][f] = Head(writes).val]
        /\ decide' = decide \cup Decide(f)
        /\ writes # <<>> /\ InRange(f) /\ f # NumFields
        /\ touched' = IF f \in Formula THEN touched \cup {CurKey} ELSE touched
    BY <1>1 DEF WriteField, Collect
  <2>2. f \in Field /\ Head(writes).val \in Value
    BY <2>1, CurrentWrite
  <2> HIDE DEF f
  <2>3. CASE CurKey \in touched'
    BY <2>1, <2>2, <2>3, TouchedKeepsUpToDate
  <2>4. CASE CurKey \notin touched'
    <3>1. f \notin Formula
      BY <2>1, <2>4
    <3> QED BY <2>1, <2>2, <2>4, <3>1, AssignKeepsUpToDate
  <2> QED BY <2>3, <2>4
<1>2. CASE ComputeField
  <2>1. PICK f \in decide :
          /\ data' = [data EXCEPT ![CurKey][f] = Eval(f, data[CurKey])]
          /\ decide' = decide \ {f}
          /\ next' = next \cup Decide(f)
    BY <1>2 DEF ComputeField, Carried
  <2>2. pc = "compute" /\ pc' = pc /\ entries' = entries /\ touched' = touched
    BY <1>2 DEF ComputeField
  <2>3. f \in Formula /\ f \in Field /\ data[CurKey] \in [Field -> Value]
    BY <2>2, RecordAssumption DEF RecordInv, EntryOpen, RecordTypeOK
  <2>4. Eval(f, data[CurKey]) \in Value
    BY <2>3, EvalAssumption
  <2>5. CASE CurKey \in touched'
    BY <2>1, <2>2, <2>3, <2>4, <2>5, TouchedKeepsUpToDate
  <2>6. CASE CurKey \notin touched'
    BY <2>1, <2>2, <2>3, <2>4, <2>6, AssignKeepsUpToDate
  <2> QED BY <2>5, <2>6
<1>3. CASE BeginEntry
  <2> DEFINE k == CurKey
  <2>1. /\ pc = "entry" /\ pc' = "write" /\ k' = k
        /\ data' = [i \in DOMAIN data \cup {k} |-> IF i \in DOMAIN data THEN data[i] ELSE Blank]
        /\ touched' = touched
    BY <1>3 DEF BeginEntry, CurKey
  <2>2. \A f \in Formula : IsCurrent(f, Blank)
    BY RecordAssumption DEF BlankCurrent, IsCurrent, Blank
  <2> HIDE DEF k
  <2> QED BY <2>1, <2>2 DEF UpToDate
<1>4. CASE DeleteKeys \/ DeleteWhere
  <2>1. PICK K : data' = [i \in DOMAIN data \ K |-> data[i]] /\ touched' = touched \ K
    BY <1>4 DEF DeleteKeys, DeleteWhere, Erase
  <2>2. pc = "ready" /\ pc' = pc
    BY <1>4 DEF DeleteKeys, DeleteWhere
  <2> QED BY <2>1, <2>2 DEF UpToDate
<1>5. CASE BeginSet \/ EndSet \/ SkipEntry
  <2>1. pc \notin {"write", "compute", "undefined"} /\ data' = data /\ touched' = touched
    BY <1>5 DEF BeginSet, EndSet, SkipEntry
  <2> QED BY <2>1 DEF UpToDate
<1>6. CASE BeginCompute \/ NextLevel
  BY <1>6 DEF BeginCompute, NextLevel, UpToDate, CurKey
<1>7. CASE EndEntry
  BY <1>7 DEF EndEntry, UpToDate
<1>8. CASE RefuseId
  <2>1. pc = "write" /\ data' = data /\ touched' = touched \cup {CurKey}
    BY <1>8 DEF RefuseId
  <2> QED BY <2>1 DEF UpToDate
<1>9. CASE WriteBeyond
  BY <1>9 DEF WriteBeyond, UpToDate, CurKey
<1>10. CASE UNCHANGED vars
  BY <1>10 DEF vars, UpToDate, CurKey
<1> QED
  BY <1>1, <1>2, <1>3, <1>4, <1>5, <1>6, <1>7, <1>8, <1>9, <1>10 DEF Next, SetOne

\* Between entries every formula of every record is up to date, but for records
\* whose formulas clients write or for which an entry was refused
\* (record.cc:61-137).  WriteBeyond is no matter: nothing follows it.
THEOREM FormulasAlwaysCurrent ==
  ASSUME BlankCurrent
  PROVE  Spec => []FormulasCurrent
<1>1. Init => UpToDate
  BY DEF Init, NoData, UpToDate
<1>2. UpToDate => FormulasCurrent
  BY DEF UpToDate, FormulasCurrent
<1> QED
  BY <1>1, <1>2, UpToDateStep, RecordInductive, PTL DEF Spec

-----------------------------------------------------------------------------
(* The store that Store.tla promises.                                      *)

\* The entry at hand, and its record before it: what Promise!Current sees.
CurWrites == Head(entries).writes
Base == IF CurKey \in DOMAIN before THEN before[CurKey] ELSE Blank

\* Some write is the last of each field that a list of writes names.
LastOf(s) ==
  \A f \in Promise!Named(s) : \E i \in DOMAIN s :
    s[i].id = f /\ \A j \in DOMAIN s : s[j].id = f => j <= i

\* Only the record of the entry differs from the store before the entry.
OnlyCurrent ==
  pc \in {"write", "compute"} =>
    /\ before \in [DOMAIN before -> [Field -> Value]]
    /\ DOMAIN data = DOMAIN before \cup {CurKey}
    /\ \A i \in DOMAIN before : i # CurKey => data[i] = before[i]

\* s are the writes done: they are what the record shows, and what was assigned.
Shows(s) ==
  /\ assigned = Promise!Named(s) /\ LastOf(s)
  /\ data[CurKey] = Promise!Overlay(Base, s)

\* While fields are written, the entry is what is done and what is left, and the
\* level holds what reads a field written and nothing else.
Prefixed ==
  pc = "write" =>
    /\ \E done \in Seq(Write) : CurWrites = done \o writes /\ Shows(done)
    /\ \A g \in decide : Deps[g] \cap assigned # {}

Down == Promise!Downstream(Promise!Named(CurWrites))

\* While formulas are computed, only what depends on the entry is, and all that
\* reads an assigned field was computed or waits.
Computed ==
  pc = "compute" =>
    /\ decide \cup next \subseteq Down
    /\ Promise!Named(CurWrites) \subseteq assigned
    /\ \A f \in Field \ Down : data[CurKey][f] = Promise!Overlay(Base, CurWrites)[f]
    /\ \A g \in Formula : Deps[g] \cap assigned # {} => g \in decide \cup next \cup assigned

StoreInv == OnlyCurrent /\ Prefixed /\ Computed

\* One more write: it is the last of its field, and leaves the others.
LEMMA OneMoreWrite ==
  ASSUME NEW rec \in [Field -> Value], NEW s \in Seq(Write), LastOf(s),
         NEW w \in Write, w.id \in Field
  PROVE  /\ Promise!Named(Append(s, w)) = Promise!Named(s) \cup {w.id}
         /\ LastOf(Append(s, w))
         /\ Promise!Overlay(rec, Append(s, w)) = [Promise!Overlay(rec, s) EXCEPT ![w.id] = w.val]
<1> DEFINE t == Append(s, w)
           n == Len(s)
<1>1. /\ n \in Nat /\ DOMAIN s = 1 .. n /\ DOMAIN t = 1 .. n + 1
      /\ \A i \in 1 .. n : t[i] = s[i]
      /\ t[n + 1] = w
  BY AppendProperties, LenProperties
<1> HIDE DEF t, n
<1>2. Promise!Named(t) = Promise!Named(s) \cup {w.id}
  BY <1>1 DEF Promise!Named
<1>3. LastOf(t)
  <2> SUFFICES ASSUME NEW f \in Promise!Named(t)
               PROVE  \E i \in DOMAIN t : t[i].id = f /\ \A j \in DOMAIN t : t[j].id = f => j <= i
    BY DEF LastOf
  <2>1. CASE f = w.id
    BY <1>1, <2>1
  <2>2. CASE f # w.id
    <3>1. PICK i \in DOMAIN s : s[i].id = f /\ \A j \in DOMAIN s : s[j].id = f => j <= i
      BY <1>2, <2>2 DEF LastOf
    <3> QED
      BY <1>1, <2>2, <3>1
  <2> QED
    BY <2>1, <2>2
<1>4. Promise!Given(t, w.id) = w.val
  <2> DEFINE P(i) == t[i].id = w.id /\ \A j \in DOMAIN t : t[j].id = w.id => j <= i
  <2>1. n + 1 \in DOMAIN t /\ P(n + 1)
    BY <1>1
  <2>2. \A i \in DOMAIN t : P(i) => i = n + 1
    BY <1>1
  <2>3. (CHOOSE i \in DOMAIN t : P(i)) = n + 1
    BY <2>1, <2>2
  <2> QED
    BY <1>1, <2>3 DEF Promise!Given
<1>5. ASSUME NEW f \in Promise!Named(s), f # w.id PROVE Promise!Given(t, f) = Promise!Given(s, f)
  <2>1. PICK m \in DOMAIN s : s[m].id = f /\ \A j \in DOMAIN s : s[j].id = f => j <= m
    BY DEF LastOf
  <2> DEFINE P(i) == s[i].id = f /\ \A j \in DOMAIN s : s[j].id = f => j <= i
             Q(i) == t[i].id = f /\ \A j \in DOMAIN t : t[j].id = f => j <= i
  <2>2. \A i \in DOMAIN s : P(i) => i = m
    BY <1>1, <2>1
  <2>3. m \in DOMAIN t /\ Q(m) /\ \A i \in DOMAIN t : Q(i) => i = m
    BY <1>1, <1>5, <2>1
  <2>4. (CHOOSE i \in DOMAIN s : P(i)) = m
    BY <2>1, <2>2
  <2>5. (CHOOSE i \in DOMAIN t : Q(i)) = m
    BY <2>3
  <2>6. t[m] = s[m]
    BY <1>1, <2>1
  <2> QED
    BY <2>4, <2>5, <2>6 DEF Promise!Given
<1>6. \A f \in Field : Promise!Overlay(rec, t)[f] = IF f = w.id THEN w.val ELSE Promise!Overlay(rec, s)[f]
  BY <1>2, <1>4, <1>5 DEF Promise!Overlay
<1>7. Promise!Overlay(rec, t) = [Promise!Overlay(rec, s) EXCEPT ![w.id] = w.val]
  BY <1>6 DEF Promise!Overlay
<1> QED
  BY <1>2, <1>3, <1>7 DEF t

\* One write moves from those left to those done.
LEMMA Advance ==
  ASSUME NEW S, NEW done \in Seq(S), NEW left \in Seq(S), left # <<>>
  PROVE  done \o left = Append(done, Head(left)) \o Tail(left)
<1>1. Head(left) \in S /\ Tail(left) \in Seq(S) /\ <<Head(left)>> \in Seq(S)
  BY HeadTailProperties
<1>2. left = <<Head(left)>> \o Tail(left)
  BY <1>1, HeadTailProperties
<1>3. done \o (<<Head(left)>> \o Tail(left)) = (done \o <<Head(left)>>) \o Tail(left)
  BY <1>1, ConcatAssociative
<1> QED
  BY <1>1, <1>2, <1>3, AppendIsConcat

\* What is known of the entry at hand.
LEMMA EntryKnown ==
  ASSUME RecordInv, StoreInv, pc \in {"write", "compute"}
  PROVE  /\ CurKey \in Key /\ CurKey \in DOMAIN data /\ data[CurKey] \in [Field -> Value]
         /\ CurWrites \in WriteList /\ CurWrites \in Seq(Write)
         /\ Base \in [Field -> Value]
<1>1. Head(entries) \in Entry /\ CurKey \in DOMAIN data /\ RecordTypeOK
  BY HeadTail DEF RecordInv, RecordTypeOK, EntryOpen
<1>2. CurKey \in Key /\ CurWrites \in WriteList /\ CurWrites \in Seq(Write)
  BY <1>1, ListsOf DEF Entry, CurKey, CurWrites
<1>3. Blank \in [Field -> Value]
  BY RecordAssumption DEF Blank
<1>4. Base \in [Field -> Value]
  BY <1>3 DEF StoreInv, OnlyCurrent, Base
<1> QED
  BY <1>1, <1>2, <1>4 DEF RecordTypeOK

\* A write moves the prefix on.
LEMMA WriteShows == RecordInv /\ StoreInv /\ WriteField => StoreInv'
<1> SUFFICES ASSUME RecordInv, StoreInv, WriteField PROVE StoreInv'
  OBVIOUS
<1> DEFINE k == CurKey
           w == Head(writes)
           W == CurWrites
<1>1. /\ pc = "write" /\ pc' = pc /\ writes # <<>> /\ InRange(w.id) /\ w.id # NumFields
      /\ data' = [data EXCEPT ![k][w.id] = w.val]
      /\ decide' = decide \cup Decide(w.id) /\ assigned' = assigned \cup {w.id}
      /\ writes' = Tail(writes) /\ UNCHANGED <<entries, before>>
  BY DEF WriteField, Collect
<1>2. /\ w \in Write /\ w.id \in Field /\ w.val \in Value /\ RecordTypeOK
      /\ k \in DOMAIN data /\ W \in Seq(Write) /\ Base \in [Field -> Value]
  BY <1>1, CurrentWrite, EntryKnown DEF RecordInv
<1>3. k' = k /\ W' = W /\ Base' = Base
  BY <1>1 DEF CurKey, CurWrites, Base
<1>4. PICK done \in Seq(Write) : W = done \o writes /\ Shows(done)
  BY <1>1 DEF StoreInv, Prefixed
<1>5. PICK more : more = Append(done, w)
  OBVIOUS
<1>6. more \in Seq(Write) /\ W = more \o writes'
  BY <1>1, <1>2, <1>4, <1>5, Advance, AppendProperties DEF RecordTypeOK
<1> HIDE DEF k, w, W
<1>7. /\ DOMAIN data' = DOMAIN data
      /\ data'[k] = [data[k] EXCEPT ![w.id] = w.val]
      /\ \A i \in DOMAIN data : i # k => data'[i] = data[i]
  BY <1>1, <1>2, AssignTyped
<1>8. Shows(more)'
  <2>1. assigned = Promise!Named(done) /\ LastOf(done) /\ data[k] = Promise!Overlay(Base, done)
    BY <1>4 DEF Shows, k
  <2>2. /\ Promise!Named(more) = Promise!Named(done) \cup {w.id} /\ LastOf(more)
        /\ Promise!Overlay(Base, more) = [Promise!Overlay(Base, done) EXCEPT ![w.id] = w.val]
    BY <1>2, <1>4, <1>5, <2>1, OneMoreWrite
  <2>3. assigned' = Promise!Named(more) /\ data'[k] = Promise!Overlay(Base, more)
    BY <1>1, <1>7, <2>1, <2>2
  <2>4. Promise!Overlay(Base, more)' = Promise!Overlay(Base, more)
    BY <1>3 DEF Promise!Overlay, Promise!Given, Promise!Named
  <2>5. Promise!Named(more)' = Promise!Named(more) /\ (LastOf(more)' <=> LastOf(more))
    BY DEF Promise!Named, LastOf
  <2> QED
    BY <1>3, <2>2, <2>3, <2>4, <2>5 DEF Shows, k
<1>9. OnlyCurrent' /\ Computed'
  BY <1>1, <1>2, <1>3, <1>7 DEF StoreInv, OnlyCurrent, Computed, k
<1>10. \A g \in decide' : Deps[g] \cap assigned' # {}
  BY <1>1 DEF StoreInv, Prefixed, Decide
<1>11. Prefixed'
  BY <1>3, <1>6, <1>8, <1>10 DEF Prefixed, W
<1> QED
  BY <1>9, <1>11 DEF StoreInv

\* What reads a field that depends on the entry depends on it too.
LEMMA DownClosed ==
  ASSUME NEW S, NEW g \in Formula, Deps[g] \cap (S \cup Promise!Downstream(S)) # {}
  PROVE  g \in Promise!Downstream(S)
BY DEF Promise!Downstream, Promise!ClosedOver

\* Computing a formula leaves what does not depend on the entry.
LEMMA ComputeShows == RecordInv /\ StoreInv /\ ComputeField => StoreInv'
<1> SUFFICES ASSUME RecordInv, StoreInv, ComputeField PROVE StoreInv'
  OBVIOUS
<1> DEFINE k == CurKey
<1>1. PICK f \in decide :
        /\ data' = [data EXCEPT ![k][f] = Eval(f, data[k])]
        /\ decide' = decide \ {f}
        /\ next' = next \cup Decide(f)
        /\ assigned' = assigned \cup {f}
  BY DEF ComputeField, Carried
<1>2. pc = "compute" /\ pc' = pc /\ UNCHANGED <<entries, before>>
  BY DEF ComputeField
<1>3. k' = k /\ CurWrites' = CurWrites /\ Base' = Base /\ Down' = Down
  BY <1>2 DEF CurKey, CurWrites, Base, Down, Promise!Downstream, Promise!Named, Promise!ClosedOver
<1>4. /\ k \in DOMAIN data /\ data[k] \in [Field -> Value] /\ RecordTypeOK
      /\ f \in Formula /\ f \in Field
  BY <1>1, <1>2, EntryKnown, RecordAssumption DEF RecordInv, RecordTypeOK
<1>5. Eval(f, data[k]) \in Value
  BY <1>4, EvalAssumption
<1> HIDE DEF k
<1>6. /\ DOMAIN data' = DOMAIN data
      /\ data'[k] = [data[k] EXCEPT ![f] = Eval(f, data[k])]
      /\ \A i \in DOMAIN data : i # k => data'[i] = data[i]
  BY <1>1, <1>4, <1>5, AssignTyped
<1>7. f \in Down /\ \A g \in Decide(f) : g \in Formula /\ g \in Down
  BY <1>1, <1>2, DownClosed DEF StoreInv, Computed, Decide, Down
<1>8. OnlyCurrent' /\ Prefixed'
  BY <1>2, <1>3, <1>4, <1>6 DEF StoreInv, OnlyCurrent, Prefixed, k
<1>9. /\ (decide \cup next)' \subseteq Down
      /\ Promise!Named(CurWrites) \subseteq assigned'
      /\ \A g \in Formula : Deps[g] \cap assigned' # {} => g \in (decide \cup next \cup assigned)'
  BY <1>1, <1>2, <1>7 DEF StoreInv, Computed, Decide
<1>10. \A g \in Field \ Down : data'[k][g] = Promise!Overlay(Base, CurWrites)[g]
  BY <1>2, <1>4, <1>6, <1>7 DEF StoreInv, Computed, k
<1>11. /\ Promise!Named(CurWrites)' = Promise!Named(CurWrites)
       /\ Promise!Overlay(Base, CurWrites)' = Promise!Overlay(Base, CurWrites)
  BY <1>3 DEF Promise!Named, Promise!Overlay, Promise!Given
<1>12. Computed'
  BY <1>3, <1>9, <1>10, <1>11 DEF Computed, k
<1> QED
  BY <1>8, <1>12 DEF StoreInv

\* An entry begins with nothing done.
LEMMA BeginShows == RecordInv /\ StoreInv /\ BeginEntry => StoreInv'
<1> SUFFICES ASSUME RecordInv, BeginEntry PROVE StoreInv'
  OBVIOUS
<1> DEFINE k == CurKey
           W == CurWrites
<1>1. /\ entries # <<>> /\ before' = data /\ UNCHANGED entries
      /\ data' = [i \in DOMAIN data \cup {k} |-> IF i \in DOMAIN data THEN data[i] ELSE Blank]
      /\ writes' = W /\ decide' = {} /\ assigned' = {} /\ pc' = "write"
  BY DEF BeginEntry, CurWrites
<1>2. k' = k /\ W' = W
  BY <1>1 DEF CurKey, CurWrites
<1>3. Head(entries) \in Entry /\ data \in [DOMAIN data -> [Field -> Value]]
  BY <1>1, HeadTail DEF RecordInv, RecordTypeOK
<1>4. W \in Seq(Write)
  BY <1>3, ListsOf DEF Entry, CurWrites
<1> HIDE DEF k, W
<1>5. OnlyCurrent'
  BY <1>1, <1>2, <1>3 DEF OnlyCurrent, k
<1>6. Base' = data'[k]
  BY <1>1, <1>2 DEF Base, k
<1>7. W = <<>> \o writes'
  BY <1>1, <1>4, ConcatEmptySeq
<1>8. Base' \in [Field -> Value]
  <2>1. Blank \in [Field -> Value]
    BY RecordAssumption DEF Blank
  <2> QED
    BY <1>1, <1>3, <1>6, <2>1
<1>9. Shows(<<>>)'
  <2>1. Promise!Named(<<>>) = {} /\ LastOf(<<>>)
    BY EmptySeq DEF Promise!Named, LastOf
  <2>2. Promise!Overlay(Base', <<>>) = Base'
    BY <1>8, <2>1 DEF Promise!Overlay
  <2>3. Promise!Overlay(Base, <<>>)' = Promise!Overlay(Base', <<>>)
    BY DEF Promise!Overlay, Promise!Given, Promise!Named
  <2>4. Promise!Named(<<>>)' = Promise!Named(<<>>) /\ (LastOf(<<>>)' <=> LastOf(<<>>))
    BY DEF Promise!Named, LastOf
  <2> QED
    BY <1>1, <1>2, <1>6, <2>1, <2>2, <2>3, <2>4 DEF Shows, k
<1>10. Prefixed'
  BY <1>1, <1>2, <1>7, <1>9, EmptySeq DEF Prefixed, W
<1> QED
  BY <1>1, <1>5, <1>10 DEF StoreInv, Computed

\* Once all is written, what waits depends on the entry.
LEMMA BeginComputeShows == RecordInv /\ StoreInv /\ BeginCompute => StoreInv'
<1> SUFFICES ASSUME RecordInv, StoreInv, BeginCompute PROVE StoreInv'
  OBVIOUS
<1> DEFINE W == CurWrites
<1>1. /\ pc = "write" /\ writes = <<>> /\ pc' = "compute"
      /\ UNCHANGED <<data, entries, decide, next, before, assigned>>
  BY DEF BeginCompute
<1>2. PICK done \in Seq(Write) : W = done \o <<>> /\ Shows(done)
  BY <1>1 DEF StoreInv, Prefixed
<1>5. Shows(W)
  BY <1>2, ConcatEmptySeq
<1>6. Promise!Named(W) \subseteq assigned /\ data[CurKey] = Promise!Overlay(Base, W)
  BY <1>5 DEF Shows
<1>7. next = {} /\ \A g \in Formula : Deps[g] \cap assigned # {} => g \in decide
  BY <1>1 DEF RecordInv, FirstLevel
<1>8. decide \subseteq Promise!Downstream(Promise!Named(W))
  <2> SUFFICES ASSUME NEW g \in decide PROVE g \in Promise!Downstream(Promise!Named(W))
    OBVIOUS
  <2>1. g \in Formula /\ Deps[g] \cap Promise!Named(W) # {}
    BY <1>1, <1>5 DEF RecordInv, RecordTypeOK, StoreInv, Prefixed, Shows
  <2> QED
    BY <2>1, DownClosed
<1>9. CurKey' = CurKey /\ W' = W /\ Base' = Base /\ Down' = Down
  BY <1>1 DEF CurKey, CurWrites, Base, Down, Promise!Downstream, Promise!Named, Promise!ClosedOver
<1> HIDE DEF W
<1>10. /\ Promise!Named(CurWrites)' = Promise!Named(W)
       /\ Promise!Overlay(Base, CurWrites)' = Promise!Overlay(Base, W)
  BY <1>9 DEF W, Promise!Named, Promise!Overlay, Promise!Given
<1>11. Computed'
  BY <1>1, <1>6, <1>7, <1>8, <1>9, <1>10 DEF Computed, Down, W
<1>12. OnlyCurrent'
  BY <1>1, <1>9 DEF StoreInv, OnlyCurrent
<1> QED
  BY <1>1, <1>11, <1>12 DEF StoreInv, Prefixed

\* The next level begins, or nothing happens: the entry is as far as it was.
LEMMA SameShows == RecordInv /\ StoreInv /\ (NextLevel \/ UNCHANGED vars) => StoreInv'
<1> SUFFICES ASSUME StoreInv, NextLevel \/ UNCHANGED vars PROVE StoreInv'
  OBVIOUS
<1>1. /\ UNCHANGED <<data, pc, entries, writes, before, assigned>>
      /\ decide' \cup next' = decide \cup next
      /\ pc = "write" => decide' = decide
  BY DEF NextLevel, vars
<1>2. CurKey' = CurKey /\ CurWrites' = CurWrites /\ Base' = Base /\ Down' = Down
  BY <1>1 DEF CurKey, CurWrites, Base, Down, Promise!Downstream, Promise!Named, Promise!ClosedOver
<1>3. /\ Promise!Named(CurWrites)' = Promise!Named(CurWrites)
      /\ Promise!Overlay(Base, CurWrites)' = Promise!Overlay(Base, CurWrites)
  BY <1>2 DEF Promise!Named, Promise!Overlay, Promise!Given
<1>4. OnlyCurrent' /\ Computed'
  BY <1>1, <1>2, <1>3 DEF StoreInv, OnlyCurrent, Computed
<1>5. ASSUME pc = "write" PROVE Prefixed'
  <2>1. PICK done \in Seq(Write) : CurWrites = done \o writes /\ Shows(done)
    BY <1>5 DEF StoreInv, Prefixed
  <2>2. Promise!Overlay(Base, done)' = Promise!Overlay(Base, done)
    BY <1>2 DEF Promise!Overlay, Promise!Given, Promise!Named
  <2>3. Promise!Named(done)' = Promise!Named(done) /\ (LastOf(done)' <=> LastOf(done))
    BY DEF Promise!Named, LastOf
  <2>4. Shows(done)'
    BY <1>1, <1>2, <2>1, <2>2, <2>3 DEF Shows
  <2> QED
    BY <1>1, <1>2, <1>5, <2>1, <2>4 DEF StoreInv, Prefixed
<1> QED
  BY <1>1, <1>4, <1>5 DEF StoreInv, Prefixed

\* Outside setone's loops there is nothing to know.
LEMMA OutsideShows == pc' \notin {"write", "compute"} => StoreInv'
BY DEF StoreInv, OnlyCurrent, Prefixed, Computed

LEMMA StoreStep == RecordInv /\ StoreInv /\ [Next]_vars => StoreInv'
<1> SUFFICES ASSUME RecordInv, StoreInv, [Next]_vars PROVE StoreInv'
  OBVIOUS
<1>1. CASE BeginSet \/ EndSet \/ SkipEntry \/ WriteBeyond \/ RefuseId \/ EndEntry
  <2>1. pc' \notin {"write", "compute"}
    BY <1>1 DEF BeginSet, EndSet, SkipEntry, WriteBeyond, RefuseId, EndEntry, NextEntry
  <2> QED BY <2>1, OutsideShows
<1>2. CASE DeleteKeys \/ DeleteWhere
  <2>1. pc' \notin {"write", "compute"}
    BY <1>2 DEF DeleteKeys, DeleteWhere
  <2> QED BY <2>1, OutsideShows
<1> QED
  BY <1>1, <1>2, WriteShows, ComputeShows, BeginShows, BeginComputeShows, SameShows DEF Next, SetOne

-----------------------------------------------------------------------------
(* The refinement, step by step.                                           *)

Shown == IF pc \in {"write", "compute", "undefined"} THEN before ELSE data

\* An entry that is done is settled: the fields that do not depend on it are as
\* its writes leave them, and the others are equal to their formulas, for the
\* fields that were assigned are closed under the dependencies.
LEMMA DoneSettled ==
  ASSUME RecordInv, StoreInv, pc = "compute", decide = {}, next = {}
  PROVE  Promise!Settled(Base, CurWrites, data[CurKey])
<1> DEFINE S == Promise!Named(CurWrites)
           C == {f \in Formula : Deps[f] \cap assigned # {}}
<1>1. /\ S \subseteq assigned
      /\ \A f \in Field \ Promise!Downstream(S) : data[CurKey][f] = Promise!Overlay(Base, CurWrites)[f]
      /\ C \subseteq assigned
  BY DEF StoreInv, Computed, Down
<1>2. \A f \in C : IsCurrent(f, data[CurKey])
  BY DEF RecordInv, NothingForgotten
<1>3. C \in SUBSET Formula /\ Promise!ClosedOver(C, S)
  BY <1>1 DEF Promise!ClosedOver
<1>4. Promise!Downstream(S) \subseteq C
  BY <1>3 DEF Promise!Downstream
<1> HIDE DEF S, C
<1>5. \A f \in Promise!Downstream(S) : data[CurKey][f] = Eval(f, data[CurKey])
  BY <1>2, <1>4 DEF IsCurrent
<1> QED
  BY <1>1, <1>5 DEF Promise!Settled, S

\* What is in memory is what was there before the entry, and the record at hand.
LEMMA ShowsStored ==
  ASSUME RecordInv, StoreInv, pc \in {"write", "compute"}
  PROVE  /\ data = Promise!Stored(CurKey, data[CurKey])
         /\ Promise!Current(CurKey) = Base
<1>1. /\ DOMAIN data = DOMAIN before \cup {CurKey}
      /\ \A i \in DOMAIN before : i # CurKey => data[i] = before[i]
  BY DEF StoreInv, OnlyCurrent
<1>2. data \in [DOMAIN data -> [Field -> Value]]
  BY DEF RecordInv, RecordTypeOK
<1>3. Promise!Stored(CurKey, data[CurKey])
        = [i \in DOMAIN before \cup {CurKey} |-> IF i = CurKey THEN data[CurKey] ELSE before[i]]
  BY DEF Promise!Stored
<1>4. Promise!Current(CurKey) = Base
  BY DEF Promise!Current, Base, Promise!Blank, Blank
<1> HIDE DEF CurKey
<1>5. data = [i \in DOMAIN before \cup {CurKey} |-> IF i = CurKey THEN data[CurKey] ELSE before[i]]
  BY <1>1, <1>2
<1> QED
  BY <1>3, <1>4, <1>5

\* The step that ends an entry is the one that puts it.
LEMMA EndPuts == RecordInv /\ StoreInv /\ EndEntry => Promise!Next
<1> SUFFICES ASSUME RecordInv, StoreInv, EndEntry PROVE Promise!Next
  OBVIOUS
<1>1. /\ pc = "compute" /\ pc' = "entry" /\ data' = data /\ ok' = ok + 1
      /\ decide = {} /\ next = {}
  BY DEF EndEntry, NextEntry
<1>2. CurKey \in Key /\ CurWrites \in WriteList /\ CurKey \in DOMAIN data
  BY <1>1, EntryKnown
<1>3. Promise!Settled(Base, CurWrites, data[CurKey])
  BY <1>1, DoneSettled
<1>4. data = Promise!Stored(CurKey, data[CurKey]) /\ Promise!Current(CurKey) = Base
  BY <1>1, ShowsStored
<1>5. Shown' = data
  BY <1>1 DEF Shown
<1>6. PICK k \in Key, list \in WriteList : k = CurKey /\ list = CurWrites
  BY <1>2
<1>7. Promise!Put(k, list)
  BY <1>1, <1>2, <1>3, <1>4, <1>5, <1>6 DEF Promise!Put, Shown
<1> QED
  BY <1>7 DEF Promise!Next

\* An entry refused for an id was put in part: the writes before that id.
LEMMA RefusePutsPartly == RecordInv /\ StoreInv /\ RefuseId => Promise!Next
<1> SUFFICES ASSUME RecordInv, StoreInv, RefuseId PROVE Promise!Next
  OBVIOUS
<1>1. pc = "write" /\ pc' = "entry" /\ data' = data /\ ok' = ok
  BY DEF RefuseId, NextEntry
<1>2. CurKey \in Key /\ CurWrites \in WriteList
  BY <1>1, EntryKnown
<1>3. PICK done \in Seq(Write) : CurWrites = done \o writes /\ Shows(done)
  BY <1>1 DEF StoreInv, Prefixed
<1>4. done \in WriteList
  <2>1. PICK n \in 0 .. MaxWrites : CurWrites \in [1 .. n -> Write]
    BY <1>2 DEF WriteList
  <2>2. n \in Nat /\ Len(CurWrites) = n
    BY <2>1, RecordAssumption
  <2>3. writes \in Seq(Write) /\ Len(writes) \in Nat /\ Len(done) \in Nat
    BY LenProperties DEF RecordInv, RecordTypeOK
  <2>4. Len(CurWrites) = Len(done) + Len(writes)
    BY <1>3, <2>3, ConcatProperties
  <2>5. Len(done) \in 0 .. MaxWrites
    BY <2>1, <2>2, <2>3, <2>4, RecordAssumption
  <2>6. done \in [1 .. Len(done) -> Write]
    BY LenProperties
  <2> QED
    BY <2>5, <2>6 DEF WriteList
<1>5. data = Promise!Stored(CurKey, data[CurKey]) /\ Promise!Current(CurKey) = Base
  BY <1>1, ShowsStored
<1>6. data[CurKey] = Promise!Overlay(Base, done)
  BY <1>3 DEF Shows
<1>7. Shown' = data
  BY <1>1 DEF Shown
<1>8. PICK k \in Key : k = CurKey
  BY <1>2
<1>9. Promise!PutPartly(k, done)
  BY <1>1, <1>5, <1>6, <1>7, <1>8 DEF Promise!PutPartly, Shown
<1> QED
  BY <1>4, <1>9 DEF Promise!Next

LEMMA StoreRefines == RecordInv /\ StoreInv /\ [Next]_vars => [Promise!Next]_<<Shown, ok>>
<1> SUFFICES ASSUME RecordInv, StoreInv, [Next]_vars PROVE [Promise!Next]_<<Shown, ok>>
  OBVIOUS
<1>1. CASE BeginSet
  <2>1. Promise!NewRequest
    BY <1>1 DEF BeginSet, Promise!NewRequest
  <2> QED BY <2>1 DEF Promise!Next
<1>2. CASE EndSet \/ SkipEntry \/ BeginEntry \/ WriteField \/ WriteBeyond
           \/ BeginCompute \/ ComputeField \/ NextLevel \/ UNCHANGED vars
  BY <1>2 DEF EndSet, SkipEntry, NextEntry, BeginEntry, WriteField, WriteBeyond, BeginCompute,
              ComputeField, NextLevel, vars, Shown
<1>3. CASE DeleteKeys \/ DeleteWhere
  <2>1. PICK K \in SUBSET Key : data' = [k \in DOMAIN data \ K |-> data[k]]
    <3>1. CASE DeleteKeys
      BY <3>1 DEF DeleteKeys, Erase
    <3>2. CASE DeleteWhere
      <4>1. PICK w \in Where : Erase({k \in DOMAIN data : Matches(w, data[k])})
        BY <3>2 DEF DeleteWhere
      <4>2. {k \in DOMAIN data : Matches(w, data[k])} \in SUBSET Key
        BY DEF RecordInv, RecordTypeOK
      <4> QED BY <4>1, <4>2 DEF Erase
    <3> QED BY <1>3, <3>1, <3>2
  <2>2. pc = "ready" /\ pc' = pc /\ ok' = ok
    BY <1>3 DEF DeleteKeys, DeleteWhere
  <2>3. Promise!Delete(K)
    BY <2>1, <2>2 DEF Promise!Delete
  <2> QED BY <2>3 DEF Promise!Next
<1> QED
  BY <1>1, <1>2, <1>3, EndPuts, RefusePutsPartly DEF Next, SetOne

\* Every SET and DEL is what Store.tla promises: an accepted entry leaves the
\* fields it names as it names them and every formula that depends on one of
\* them up to date, in one step; a refused one leaves the writes before the
\* offending id; nothing else of the store changes (record.cc:61-137).
THEOREM RecordRefines == Spec => ImplementsStore
<1>1. Init => Promise!Init
  BY DEF Init, Promise!Init, NoData, Blank, Promise!Blank
<1>2. Init => StoreInv
  BY DEF Init, StoreInv, OnlyCurrent, Prefixed, Computed
<1>3. RecordInv /\ StoreInv /\ [Next]_vars => [Promise!Next]_<<Shown, ok>>
  BY StoreRefines
<1>4. RecordInv /\ StoreInv /\ [Next]_vars => RecordInv' /\ StoreInv'
  BY RecordStep, StoreStep
<1> QED
  BY <1>1, <1>2, <1>3, <1>4, RecordInit, PTL DEF Spec, ImplementsStore, Promise!Spec, Shown
=============================================================================
