----------------------------- MODULE Meta_proofs -----------------------------
(***************************************************************************)
(* Proofs about meta.cc for every configuration: what has_circle says of a *)
(* field is right whenever it says something.                              *)
(***************************************************************************)
EXTENDS Meta, TLAPS

\* The worklist of has_circle holds what the field decides, directly or not: all
\* of it has been on it, or is on it, or is decided by what is on it.
Searching ==
  pc = "check" =>
    /\ fid \in Ids => Decide(fid) \subseteq seen \cup curr
    /\ \A g \in seen : Decide(g) \subseteq seen \cup curr
    /\ fid \notin seen
    /\ fid \notin Ids => curr = {}

\* ... and nothing else.
Reached ==
  pc = "check" =>
    \A R \in SUBSET Ids : fid \in Ids /\ Decide(fid) \subseteq R /\ Closed(R) => curr \subseteq R

\* The fields that has_circle has been asked about before are on no cycle.
Cleared ==
  /\ pc = "check" => \A f \in Ids : f < fid => ~OnCycle(f)
  /\ pc = "accepted" => Acyclic

MetaInv == MetaTypeOK /\ Searching /\ Reached /\ Cleared

LEMMA DecideIds == \A f : Decide(f) \subseteq Ids
BY DEF Decide

LEMMA MetaInit == Init => MetaInv
BY DEF Init, MetaInv, MetaTypeOK, Searching, Reached, Cleared, Ids

LEMMA IdsOf == MetaTypeOK => Ids = 0 .. Len(names) - 1 /\ Len(names) \in Nat
BY DEF MetaTypeOK, Ids

\* Reading the sections: the search has not begun.
LEMMA ReadPreserves ==
  MetaInv /\ (BadField \/ TooMany \/ Repeated \/ AddField \/ EndFields \/ BadFormula \/ AddFormula)
    => MetaInv'
<1> SUFFICES ASSUME MetaInv PROVE
      (BadField \/ TooMany \/ Repeated \/ AddField \/ EndFields \/ BadFormula \/ AddFormula) => MetaInv'
  OBVIOUS
<1> USE DEF MetaInv, Searching, Reached, Cleared
<1>1. BadField \/ TooMany \/ Repeated \/ BadFormula => MetaInv'
  BY DEF BadField, TooMany, Repeated, BadFormula, Refuse, checkVars, MetaTypeOK, Ids
<1>2. EndFields => MetaInv'
  BY DEF EndFields, checkVars, MetaTypeOK, Ids
<1>3. AddField => MetaInv'
  <2> SUFFICES ASSUME AddField PROVE MetaInv'
    OBVIOUS
  <2>1. PICK n \in Name : names' = Append(names, n)
    BY DEF AddField
  <2>2. names' \in Seq(Name) /\ Len(names') = Len(names) + 1 /\ Len(names) \in Nat
    BY <2>1 DEF MetaTypeOK
  <2>3. /\ pc = "fields" /\ pc' = pc /\ fid' = fid /\ curr' = curr /\ seen' = seen
        /\ deps' = [f \in Ids \cup {Len(names)} |-> IF f \in Ids THEN deps[f] ELSE {}]
    BY DEF AddField, checkVars
  <2>4. Ids' = 0 .. Len(names') - 1
    BY <2>2, <2>3, IdsOf DEF Ids
  <2>5. deps' \in [Ids' -> SUBSET Ids']
    BY <2>2, <2>3, <2>4, IdsOf DEF Ids, MetaTypeOK
  <2> QED BY <2>2, <2>3, <2>4, <2>5, IdsOf DEF MetaTypeOK
<1>4. AddFormula => MetaInv'
  BY DEF AddFormula, Reads, checkVars, MetaTypeOK, Ids
<1> QED BY <1>1, <1>2, <1>3, <1>4

\* The search from field f begins.
LEMMA BeginSearch ==
  ASSUME MetaTypeOK, pc' = "check", UNCHANGED <<names, deps>>,
         fid' \in 0 .. Len(names), curr' = Begin(fid'), seen' = {}
  PROVE  MetaTypeOK' /\ Searching' /\ Reached'
<1>1. Ids' = Ids /\ \A g : Decide(g)' = Decide(g)
  BY DEF Ids, Decide
<1>2. curr' \subseteq Ids
  BY DecideIds DEF Begin
<1>3. MetaTypeOK'
  BY <1>1, <1>2 DEF MetaTypeOK
<1>4. Searching' /\ Reached'
  BY <1>1 DEF Searching, Reached, Begin, Ids, Decide
<1> QED BY <1>3, <1>4

LEMMA EndFormulasPreserves == MetaInv /\ EndFormulas => MetaInv'
<1> SUFFICES ASSUME MetaInv, EndFormulas PROVE MetaInv'
  OBVIOUS
<1>1. MetaTypeOK /\ pc' = "check" /\ fid' = 0 /\ curr' = Begin(fid') /\ seen' = {}
      /\ UNCHANGED <<names, deps>>
  BY DEF EndFormulas, MetaInv
<1>2. fid' \in 0 .. Len(names)
  BY <1>1 DEF MetaTypeOK
<1>3. Ids' \subseteq Nat
  BY <1>1, IdsOf DEF Ids
<1>4. Cleared'
  BY <1>1, <1>3 DEF Cleared
<1> QED BY <1>1, <1>2, <1>4, BeginSearch DEF MetaInv

\* A search that has found nothing leaves a closed set without the field.
LEMMA NotFound ==
  ASSUME MetaInv, pc = "check", fid \in Ids, curr = {}
  PROVE  ~OnCycle(fid)
<1>1. seen \in SUBSET Ids
  BY DEF MetaInv, MetaTypeOK
<1>2. Decide(fid) \subseteq seen /\ Closed(seen) /\ fid \notin seen
  BY DEF MetaInv, Searching, Closed
<1> QED BY <1>1, <1>2 DEF OnCycle

\* Steps that change no formula change no cycle.
LEMMA SameCycles == deps' = deps => Ids' = Ids /\ \A f : OnCycle(f)' = OnCycle(f)
BY DEF OnCycle, Closed, Decide, Ids

LEMMA NextFieldPreserves == MetaInv /\ NextField => MetaInv'
<1> SUFFICES ASSUME MetaInv, NextField PROVE MetaInv'
  OBVIOUS
<1>1. /\ MetaTypeOK /\ pc = "check" /\ fid \in Ids /\ curr = {}
      /\ pc' = "check" /\ fid' = fid + 1 /\ curr' = Begin(fid') /\ seen' = {}
      /\ UNCHANGED <<names, deps>>
  <2>1. fid < Len(names) => fid \in Ids
    BY IdsOf DEF MetaInv, MetaTypeOK
  <2> QED BY <2>1 DEF NextField, More, MetaInv
<1>2. fid' \in 0 .. Len(names)
  BY <1>1, IdsOf
<1>3. ~OnCycle(fid)
  BY <1>1, NotFound
<1>4. \A f \in Ids : f < fid' => f < fid \/ f = fid
  BY <1>1, IdsOf
<1>5. Cleared'
  BY <1>1, <1>3, <1>4, SameCycles DEF MetaInv, Cleared
<1> QED BY <1>1, <1>2, <1>5, BeginSearch DEF MetaInv

LEMMA NextLevelPreserves == MetaInv /\ NextLevel => MetaInv'
<1> SUFFICES ASSUME MetaInv, NextLevel PROVE MetaInv'
  OBVIOUS
<1>1. /\ pc = "check" /\ curr # {} /\ fid \notin curr
      /\ curr' = UNION {Decide(g) : g \in curr} /\ seen' = seen \cup curr
      /\ pc' = pc /\ names' = names /\ deps' = deps /\ fid' = fid
  BY DEF NextLevel, Found, Following
<1>2. Ids' = Ids /\ \A g : Decide(g)' = Decide(g)
  BY <1>1 DEF Ids, Decide
<1>3. curr' \subseteq Ids
  BY <1>1, DecideIds
<1>4. MetaTypeOK'
  BY <1>1, <1>2, <1>3 DEF MetaInv, MetaTypeOK
<1>5. fid \in Ids
  BY <1>1 DEF MetaInv, Searching
<1>6. \A g \in curr : Decide(g) \subseteq curr'
  BY <1>1
<1>7. Searching'
  BY <1>1, <1>2, <1>5, <1>6 DEF MetaInv, Searching
<1>8. Reached'
  <2> SUFFICES ASSUME NEW R \in SUBSET Ids, Decide(fid) \subseteq R, Closed(R)
               PROVE  curr' \subseteq R
    BY <1>1, <1>2 DEF Reached, Closed
  <2>1. curr \subseteq R
    BY <1>1, <1>5 DEF MetaInv, Reached
  <2> QED BY <1>1, <2>1 DEF Closed
<1>9. Cleared'
  BY <1>1, SameCycles DEF MetaInv, Cleared
<1> QED BY <1>4, <1>7, <1>8, <1>9 DEF MetaInv

LEMMA AcceptPreserves == MetaInv /\ Accept => MetaInv'
<1> SUFFICES ASSUME MetaInv, Accept PROVE MetaInv'
  OBVIOUS
<1>1. /\ pc = "check" /\ fid \notin Ids /\ pc' = "accepted"
      /\ UNCHANGED <<names, deps, fid, curr, seen>>
  <2>1. fid \in Ids => fid < Len(names)
    BY IdsOf DEF MetaInv
  <2> QED BY <2>1 DEF Accept, More, checkVars
<1>2. \A f \in Ids : f < fid
  BY <1>1, IdsOf DEF MetaInv, MetaTypeOK
<1>3. Acyclic'
  BY <1>1, <1>2, SameCycles DEF MetaInv, Cleared, Acyclic
<1>4. MetaTypeOK'
  BY <1>1 DEF MetaInv, MetaTypeOK, Ids
<1> QED BY <1>1, <1>3, <1>4 DEF MetaInv, Searching, Reached, Cleared

LEMMA MetaStep == MetaInv /\ [Next]_vars => MetaInv'
<1> SUFFICES ASSUME MetaInv, [Next]_vars PROVE MetaInv'
  OBVIOUS
<1>1. CASE HasCircle
  BY <1>1 DEF HasCircle, Refuse, checkVars, MetaInv, MetaTypeOK, Searching, Reached, Cleared, Ids
<1>2. CASE UNCHANGED vars
  <2>1. pc' = pc /\ UNCHANGED <<names, deps, fid, curr, seen>>
    BY <1>2 DEF vars
  <2>2. MetaTypeOK' /\ Searching' /\ Reached'
    BY <2>1 DEF MetaInv, MetaTypeOK, Searching, Reached, Ids, Decide, Closed
  <2>3. Cleared'
    BY <2>1, SameCycles DEF MetaInv, Cleared, Acyclic
  <2> QED BY <2>2, <2>3 DEF MetaInv
<1> QED
  BY <1>1, <1>2, ReadPreserves, EndFormulasPreserves, NextLevelPreserves, NextFieldPreserves,
     AcceptPreserves DEF Next, Check

LEMMA MetaInductive == Spec => []MetaInv
BY MetaInit, MetaStep, PTL DEF Spec

\* The variables of load_config keep their types.
THEOREM MetaTyped == Spec => []MetaTypeOK
BY MetaInductive, PTL DEF MetaInv

\* Whatever fields and formulas the configuration has, if load_config accepts it
\* then no field depends on itself (meta.cc:230-236).
THEOREM CheckSound == Spec => []AcceptedAcyclic
<1>1. MetaInv => AcceptedAcyclic
  BY DEF MetaInv, Cleared, AcceptedAcyclic
<1> QED BY <1>1, MetaInductive, PTL

\* ... and if has_circle refuses it then some field does (meta.cc:241-257).
THEOREM RefusalJustified == Spec => RefusedForCycle
<1>1. MetaInv /\ [Next]_vars => [pc = "check" /\ pc' = "refused" => OnCycle(fid)]_vars
  <2> SUFFICES ASSUME MetaInv, Next, pc = "check", pc' = "refused" PROVE OnCycle(fid)
    OBVIOUS
  <2>1. HasCircle
    BY DEF Next, Check, BadField, TooMany, Repeated, AddField, EndFields, BadFormula, AddFormula,
           EndFormulas, NextLevel, NextField, Accept
  <2>2. fid \in curr /\ fid \in Ids
    BY <2>1 DEF HasCircle, Found, MetaInv, Searching
  <2> QED BY <2>2 DEF MetaInv, Reached, OnCycle
<1> QED BY <1>1, MetaInductive, PTL DEF Spec, RefusedForCycle
=============================================================================
