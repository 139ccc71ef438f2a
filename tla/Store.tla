------------------------------- MODULE Store -------------------------------
(***************************************************************************)
(* What the store promises: a partial function from keys to records, where *)
(* accepting an entry of a SET is one step.  Whatever the order in which   *)
(* the fields are written and the formulas computed, an accepted entry     *)
(* leaves the fields it names as it names them, and every field whose      *)
(* formula depends on one of them, however indirectly, equal to its        *)
(* formula.  Record.tla implements it with the worklist of setone().       *)
(***************************************************************************)
EXTENDS Integers, Sequences

CONSTANTS
  Key, Field, Zero,
  Writes,      \* the lists of writes an entry may consist of
  Formula,     \* the fields that have a formula
  Deps,        \* the fields that the formula of each field reads
  Eval(_, _)   \* the value of a field's formula on a record

VARIABLES store, ok

Blank == [f \in Field |-> Zero]

Current(k) == IF k \in DOMAIN store THEN store[k] ELSE Blank

Stored(k, rec) == [i \in DOMAIN store \cup {k} |-> IF i = k THEN rec ELSE store[i]]

Named(writes) == {writes[i].id : i \in DOMAIN writes}

\* The value an entry names for f: the last one, as later writes win.
Given(writes, f) ==
  LET last == CHOOSE i \in DOMAIN writes :
                writes[i].id = f /\ \A j \in DOMAIN writes : writes[j].id = f => j <= i
  IN writes[last].val

Overlay(rec, writes) == [f \in Field |-> IF f \in Named(writes) THEN Given(writes, f) ELSE rec[f]]

\* Closed under "has a formula that reads a field of C or of S".
ClosedOver(C, S) == \A f \in Formula : Deps[f] \cap (C \cup S) # {} => f \in C

\* The fields that depend on one of S, however indirectly.
Downstream(S) == {f \in Formula : \A C \in SUBSET Formula : ClosedOver(C, S) => f \in C}

\* rec after an accepted entry on a record that was old.
Settled(old, writes, rec) ==
  LET down == Downstream(Named(writes))
  IN /\ \A f \in Field \ down : rec[f] = Overlay(old, writes)[f]
     /\ \A f \in down : rec[f] = Eval(f, rec)

-----------------------------------------------------------------------------

Init == store = [k \in {} |-> Blank] /\ ok = 0

Put(k, writes) ==
  /\ k \in DOMAIN store'
  /\ Settled(Current(k), writes, store'[k])
  /\ store' = Stored(k, store'[k])
  /\ ok' = ok + 1

\* A rejected entry may have created the record and written the fields that
\* precede the offending one; no formula is computed.
PutPartly(k, writes) ==
  /\ store' = Stored(k, Overlay(Current(k), writes))
  /\ UNCHANGED ok

Delete(K) ==
  /\ store' = [k \in DOMAIN store \ K |-> store[k]]
  /\ UNCHANGED ok

NewRequest == ok' = 0 /\ UNCHANGED store

Next ==
  \/ \E k \in Key, writes \in Writes : Put(k, writes) \/ PutPartly(k, writes)
  \/ \E K \in SUBSET Key : Delete(K)
  \/ NewRequest

Spec == Init /\ [][Next]_<<store, ok>>
=============================================================================
