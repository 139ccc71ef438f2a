--------------------------- MODULE Persist_proofs ---------------------------
(***************************************************************************)
(* Proof that dump and load keep the promise of Backup.tla, for any number *)
(* of keys, fields and values, any order of iteration, and a crash at any  *)
(* point of a dump.                                                        *)
(***************************************************************************)
EXTENDS Persist, TLAPS

\* A table whose records have zeros in the fields not configured yet.
Narrow(m) == \A k \in DOMAIN m : \A f \in Field : f >= size => m[k][f] = Zero

\* The keys of the first n records of the file.
KeysTo(n) == {file[i].key : i \in 1 .. n}

\* The file holds a part of the snapshot, each record of it once.
FileOfSnap ==
  /\ \A i \in DOMAIN file :
       /\ file[i].key \in DOMAIN snap
       /\ Padded(file[i]) = snap[file[i].key]
       /\ file[i].size <= size
  /\ torn.part # "none" => torn.size <= size

Dumping ==
  /\ pc = "dump" => mem = snap /\ torn = Whole /\ KeysTo(Len(file)) = DOMAIN snap \ left
  /\ pc # "dump" => left = {}

\* The records loaded so far are those of the snapshot.
LoadOfSnap ==
  /\ pc = "load" =>
       /\ DOMAIN mem = KeysTo(pos)
       /\ \A k \in DOMAIN mem : mem[k] = snap[k]
  /\ pc \notin {"load", "undefined"} => pos = 0

PersistInv ==
  PersistTypeOK /\ Narrow(mem) /\ Narrow(snap) /\ FileOfSnap /\ Dumping /\ LoadOfSnap

LEMMA Rows == Blank \in Row /\ Zero \in Value /\ MaxFields \in Nat \ {0} /\ Field \subseteq Nat
BY PersistAssumption DEF Blank, Row, Field

LEMMA PersistInit == Init => PersistInv
<1> SUFFICES ASSUME Init PROVE PersistInv
  OBVIOUS
<1>1. DOMAIN Empty = {} /\ Empty \in [{} -> Row]
  BY DEF Empty
<1>2. PersistTypeOK
  <2>1. mem = Empty /\ snap = Empty /\ size = 1 /\ file = <<>> /\ pos = 0
    BY DEF Init
  <2>2. size \in 1 .. MaxFields /\ pos \in 0 .. Len(file) /\ file \in Seq(Item)
    BY <2>1, Rows
  <2> QED BY <1>1, <2>1, <2>2 DEF Init, PersistTypeOK
<1>3. KeysTo(Len(file)) = {}
  BY DEF Init, KeysTo
<1> QED
  BY <1>1, <1>2, <1>3 DEF Init, PersistInv, Narrow, FileOfSnap, Dumping, LoadOfSnap, Whole

-----------------------------------------------------------------------------
(* One lemma per step.                                                     *)

LEMMA AddFieldPreserves == PersistInv /\ AddField => PersistInv'
<1> SUFFICES ASSUME PersistInv, AddField PROVE PersistInv'
  OBVIOUS
<1>1. /\ pc = "down" /\ size' = size + 1 /\ size < MaxFields
      /\ UNCHANGED <<pc, mem, file, torn, pos, left, stopping, snap>>
  BY DEF AddField, diskVars
<1>2. size' \in 1 .. MaxFields /\ \A f \in Field : f >= size' => f >= size
  BY <1>1, Rows DEF PersistInv, PersistTypeOK
<1>3. PersistTypeOK'
  BY <1>1, <1>2 DEF PersistInv, PersistTypeOK
<1>4. Narrow(mem)' /\ Narrow(snap)'
  BY <1>1, <1>2 DEF PersistInv, Narrow
<1>5. /\ \A i \in DOMAIN file : file[i].size \in Nat
      /\ torn.part # "none" => torn.size \in Nat
      /\ size \in Nat
  <2>1. \A i \in DOMAIN file : file[i] \in Item
    BY DEF PersistInv, PersistTypeOK
  <2>2. \A n \in 0 .. MaxFields : n \in Nat
    BY Rows
  <2>3. torn = Whole \/ torn.size \in 0 .. MaxFields
    BY DEF PersistInv, PersistTypeOK
  <2> QED BY <2>1, <2>2, <2>3, Rows DEF PersistInv, PersistTypeOK, Item, Whole
<1>6. FileOfSnap' /\ Dumping' /\ LoadOfSnap'
  BY <1>1, <1>5 DEF PersistInv, FileOfSnap, Dumping, LoadOfSnap, KeysTo, Padded
<1> QED BY <1>3, <1>4, <1>6 DEF PersistInv

\* A step that leaves the file alone and ends with an empty table.
LEMMA ForgetPreserves ==
  ASSUME PersistInv, mem' = Empty, pc # "dump", pc' \in {"down", "load"}, pos' = 0,
         UNCHANGED <<size, file, torn, left, stopping, snap>>
  PROVE  PersistInv'
<1>1. DOMAIN mem' = {} /\ mem' \in [{} -> Row]
  BY DEF Empty
<1>2. PersistTypeOK'
  BY <1>1 DEF PersistInv, PersistTypeOK, Dumping
<1>3. KeysTo(Len(file))' = KeysTo(Len(file)) /\ KeysTo(0)' = {}
  BY DEF KeysTo
<1>4. FileOfSnap'
  BY <1>3 DEF PersistInv, FileOfSnap, Padded
<1> QED BY <1>1, <1>2, <1>3, <1>4 DEF PersistInv, Narrow, Dumping, LoadOfSnap

\* load reads the next record of the file.
LEMMA LoadRecordPreserves == PersistInv /\ LoadRecord => PersistInv'
<1> SUFFICES ASSUME PersistInv, LoadRecord PROVE PersistInv'
  OBVIOUS
<1> DEFINE r == file[pos + 1]
<1>1. /\ pc = "load" /\ pc' = pc /\ pos < Len(file) /\ pos' = pos + 1
      /\ mem' = Stored(mem, r.key, Padded(r))
      /\ UNCHANGED <<size, file, torn, left, stopping, snap>>
  BY DEF LoadRecord, Loading, diskVars
<1>2. /\ file \in Seq(Item) /\ pos \in Nat /\ pos + 1 \in DOMAIN file
      /\ pos' \in 0 .. Len(file)
  BY <1>1 DEF PersistInv, PersistTypeOK
<1>3. r.key \in Key /\ r.key \in DOMAIN snap /\ Padded(r) = snap[r.key] /\ snap[r.key] \in Row
  BY <1>2 DEF PersistInv, PersistTypeOK, FileOfSnap, Item
<1> HIDE DEF r
<1>4. /\ DOMAIN mem' = DOMAIN mem \cup {r.key} /\ DOMAIN mem' \subseteq Key
      /\ mem' \in [DOMAIN mem' -> Row]
      /\ mem'[r.key] = snap[r.key]
      /\ \A i \in DOMAIN mem : i # r.key => mem'[i] = mem[i]
  <2>1. DOMAIN mem \subseteq Key /\ mem \in [DOMAIN mem -> Row] /\ Padded(r) \in Row
    BY <1>3 DEF PersistInv, PersistTypeOK
  <2> QED BY <1>1, <1>3, <2>1 DEF Stored
<1>5. PersistTypeOK'
  BY <1>1, <1>2, <1>4 DEF PersistInv, PersistTypeOK
<1>6. \A n \in Nat : KeysTo(n)' = KeysTo(n)
  BY <1>1 DEF KeysTo
<1>7. KeysTo(pos + 1) = KeysTo(pos) \cup {r.key}
  BY <1>2 DEF KeysTo, r
<1>8. FileOfSnap' /\ Dumping'
  BY <1>1, <1>2, <1>6 DEF PersistInv, FileOfSnap, Dumping, Padded, KeysTo
<1>9. LoadOfSnap'
  BY <1>1, <1>2, <1>4, <1>6, <1>7 DEF PersistInv, LoadOfSnap
<1>10. Narrow(mem)' /\ Narrow(snap)'
  BY <1>1, <1>3, <1>4 DEF PersistInv, Narrow
<1> QED BY <1>5, <1>8, <1>9, <1>10 DEF PersistInv

\* The file ends inside a record: what load makes of it is one record under some
\* key.
LEMMA TornLoad ==
  ASSUME PersistInv, LoadTornKey \/ LoadTornValue
  PROVE  /\ pc = "load" /\ pc' = "up" /\ pos' = 0 /\ torn # Whole
         /\ UNCHANGED <<size, file, torn, left, stopping, snap>>
         /\ \E k \in Key, v \in Row :
              /\ mem' = Stored(mem, k, v)
              /\ \A f \in Field : f >= size => v[f] = Zero
<1>1. /\ pc = "load" /\ pc' = "up" /\ pos' = 0 /\ torn # Whole
      /\ UNCHANGED <<size, file, torn, left, stopping, snap>>
  BY DEF LoadTornKey, LoadTornValue, Loading, diskVars, Whole
<1>2. CASE LoadTornKey
  BY <1>1, <1>2, Rows DEF LoadTornKey, Blank
<1>3. CASE LoadTornValue
  <2>1. torn \in [part : {"key", "value"}, key : Key, val : Row, size : 0 .. MaxFields]
    BY <1>1 DEF PersistInv, PersistTypeOK
  <2>2. torn.size <= size
    BY <1>3 DEF PersistInv, FileOfSnap, LoadTornValue
  <2>3. PICK j \in 0 .. torn.size, v \in Value :
          mem' = Stored(mem, torn.key,
                   [f \in Field |-> IF f < j THEN torn.val[f]
                                    ELSE IF f = j /\ f < torn.size THEN v ELSE Zero])
    BY <1>3 DEF LoadTornValue
  <2> DEFINE w == [f \in Field |-> IF f < j THEN torn.val[f]
                                   ELSE IF f = j /\ f < torn.size THEN v ELSE Zero]
  <2>4. w \in Row
    BY <2>1, Rows DEF Row
  <2>5. \A f \in Field : f >= size => w[f] = Zero
    BY <2>1, <2>2, Rows DEF PersistInv, PersistTypeOK
  <2> QED BY <1>1, <2>1, <2>3, <2>4, <2>5
<1> QED BY <1>1, <1>2, <1>3

LEMMA LoadTornPreserves == PersistInv /\ (LoadTornKey \/ LoadTornValue) => PersistInv'
<1> SUFFICES ASSUME PersistInv, LoadTornKey \/ LoadTornValue PROVE PersistInv'
  OBVIOUS
<1>1. /\ pc = "load" /\ pc' = "up" /\ pos' = 0
      /\ UNCHANGED <<size, file, torn, left, stopping, snap>>
  BY TornLoad
<1>2. PICK k \in Key, v \in Row :
        /\ mem' = Stored(mem, k, v)
        /\ \A f \in Field : f >= size => v[f] = Zero
  BY TornLoad
<1>3. /\ DOMAIN mem' = DOMAIN mem \cup {k} /\ DOMAIN mem' \subseteq Key
      /\ mem' \in [DOMAIN mem' -> Row] /\ mem'[k] = v
      /\ \A i \in DOMAIN mem : i # k => mem'[i] = mem[i]
  <2>1. DOMAIN mem \subseteq Key /\ mem \in [DOMAIN mem -> Row]
    BY DEF PersistInv, PersistTypeOK
  <2> QED BY <1>2, <2>1 DEF Stored
<1>4. PersistTypeOK'
  BY <1>1, <1>3 DEF PersistInv, PersistTypeOK, Dumping
<1>5. Narrow(mem)' /\ Narrow(snap)'
  BY <1>1, <1>2, <1>3 DEF PersistInv, Narrow
<1> QED
  BY <1>1, <1>4, <1>5 DEF PersistInv, FileOfSnap, Dumping, LoadOfSnap, Padded, KeysTo

\* Steps that change neither the records nor the file.
LEMMA QuietPreserves ==
  ASSUME PersistInv, pc # "dump", pc' \in {"up", "undefined"}, pos' \in {0, pos}, pc' = "up" => pos' = 0,
         UNCHANGED <<mem, size, file, torn, left, stopping, snap>>
  PROVE  PersistInv'
<1>1. PersistTypeOK'
  BY DEF PersistInv, PersistTypeOK
<1>2. KeysTo(Len(file))' = KeysTo(Len(file))
  BY DEF KeysTo
<1> QED
  BY <1>1, <1>2 DEF PersistInv, Narrow, FileOfSnap, Dumping, LoadOfSnap, Padded

\* Requests change the records only.
LEMMA RequestPreserves == PersistInv /\ (Set \/ Delete) => PersistInv'
<1> SUFFICES ASSUME PersistInv, Set \/ Delete PROVE PersistInv'
  OBVIOUS
<1>1. pc = "up" /\ UNCHANGED <<pc, size, file, torn, pos, left, stopping, snap>>
  BY DEF Set, Delete, diskVars
<1>2. /\ DOMAIN mem' \subseteq Key /\ mem' \in [DOMAIN mem' -> Row]
      /\ Narrow(mem)'
  <2>1. CASE Set
    <3>1. PICK k \in Key, f \in 0 .. size - 1, v \in Value :
            mem' = Stored(mem, k, [(IF k \in DOMAIN mem THEN mem[k] ELSE Blank) EXCEPT ![f] = v])
      BY <2>1 DEF Set
    <3> DEFINE old == IF k \in DOMAIN mem THEN mem[k] ELSE Blank
               new == [old EXCEPT ![f] = v]
    <3>2. old \in Row /\ \A g \in Field : g >= size => old[g] = Zero
      BY Rows DEF PersistInv, PersistTypeOK, Narrow, Blank
    <3>3. f \in Field /\ f < size /\ size \in Nat /\ Field \subseteq Nat
      BY Rows DEF PersistInv, PersistTypeOK, Field
    <3>4. new \in Row /\ \A g \in Field : g >= size => new[g] = Zero
      BY <3>2, <3>3 DEF Row
    <3>5. mem' = Stored(mem, k, new)
      BY <3>1
    <3> HIDE DEF new, old
    <3>6. /\ DOMAIN mem' = DOMAIN mem \cup {k} /\ DOMAIN mem' \subseteq Key
          /\ mem' \in [DOMAIN mem' -> Row] /\ mem'[k] = new
          /\ \A i \in DOMAIN mem : i # k => mem'[i] = mem[i]
      <4>1. DOMAIN mem \subseteq Key /\ mem \in [DOMAIN mem -> Row]
        BY DEF PersistInv, PersistTypeOK
      <4> QED BY <3>4, <3>5, <4>1 DEF Stored
    <3> QED BY <1>1, <3>4, <3>6 DEF PersistInv, Narrow
  <2>2. CASE Delete
    <3>1. PICK k \in DOMAIN mem : mem' = [i \in DOMAIN mem \ {k} |-> mem[i]]
      BY <2>2 DEF Delete
    <3> QED BY <1>1, <3>1 DEF PersistInv, PersistTypeOK, Narrow
  <2> QED BY <2>1, <2>2
<1>3. PersistTypeOK'
  BY <1>1, <1>2 DEF PersistInv, PersistTypeOK, Dumping
<1>4. KeysTo(Len(file))' = KeysTo(Len(file))
  BY <1>1 DEF KeysTo
<1> QED
  BY <1>1, <1>2, <1>3, <1>4 DEF PersistInv, Narrow, FileOfSnap, Dumping, LoadOfSnap, Padded

\* dump opens the file.
LEMMA BeginDumpPreserves == PersistInv /\ BeginDump => PersistInv'
<1> SUFFICES ASSUME PersistInv, BeginDump PROVE PersistInv'
  OBVIOUS
<1>1. /\ pc = "up" /\ pc' = "dump" /\ stopping' \in BOOLEAN
      /\ file' = <<>> /\ torn' = Whole /\ left' = DOMAIN mem /\ snap' = mem
      /\ mem' = mem /\ size' = size /\ pos' = pos
  BY DEF BeginDump, Truncated
<1>2. pos' = 0 /\ KeysTo(Len(file))' = {}
  BY <1>1 DEF PersistInv, LoadOfSnap, KeysTo
<1>3. PersistTypeOK'
  BY <1>1, <1>2 DEF PersistInv, PersistTypeOK
<1> QED
  BY <1>1, <1>2, <1>3 DEF PersistInv, Narrow, FileOfSnap, Dumping, LoadOfSnap, Whole

\* dump writes a record.
LEMMA DumpRecordPreserves == PersistInv /\ DumpRecord => PersistInv'
<1> SUFFICES ASSUME PersistInv, DumpRecord PROVE PersistInv'
  OBVIOUS
<1>1. PICK k \in left :
        /\ file' = Append(file, [key |-> k, val |-> mem[k], size |-> VSize])
        /\ left' = left \ {k}
  BY DEF DumpRecord
<1>2. /\ pc = "dump" /\ pc' = pc /\ mem = snap
      /\ UNCHANGED <<mem, size, torn, pos, stopping, snap>>
  BY DEF DumpRecord, PersistInv, Dumping
<1> DEFINE r == [key |-> k, val |-> mem[k], size |-> size]
<1>3. k \in DOMAIN mem /\ mem[k] \in Row /\ r \in Item
  BY Rows DEF PersistInv, PersistTypeOK, Item
<1>4. Padded(r) = mem[k]
  <2>1. \A f \in Field : Padded(r)[f] = mem[k][f]
    <3> SUFFICES ASSUME NEW f \in Field PROVE Padded(r)[f] = mem[k][f]
      OBVIOUS
    <3>1. size \in Nat /\ f \in Nat
      BY Rows DEF PersistInv, PersistTypeOK
    <3>2. f < size \/ f >= size
      BY <3>1
    <3>3. f >= size => mem[k][f] = Zero
      BY <1>3 DEF PersistInv, Narrow
    <3> QED BY <3>1, <3>2, <3>3 DEF Padded
  <2>2. mem[k] \in [Field -> Value]
    BY <1>3 DEF Row
  <2>3. Padded(r) = [f \in Field |-> mem[k][f]]
    BY <2>1 DEF Padded
  <2> QED BY <2>2, <2>3
<1>5. r.key = k /\ r.size <= size
  BY DEF PersistInv, PersistTypeOK
<1> HIDE DEF r
<1>6. /\ file \in Seq(Item) /\ file' = Append(file, r) /\ file' \in Seq(Item)
      /\ Len(file') = Len(file) + 1 /\ Len(file) \in Nat
      /\ file'[Len(file) + 1] = r
      /\ \A i \in 1 .. Len(file) : file'[i] = file[i]
      /\ DOMAIN file' = 1 .. Len(file) + 1 /\ DOMAIN file = 1 .. Len(file)
  BY <1>1, <1>3 DEF PersistInv, PersistTypeOK, r, VSize
<1>7. PersistTypeOK'
  BY <1>1, <1>2, <1>6 DEF PersistInv, PersistTypeOK
<1>8. KeysTo(Len(file))' = KeysTo(Len(file)) \cup {k}
  BY <1>5, <1>6 DEF KeysTo
<1>9. Dumping'
  BY <1>1, <1>2, <1>3, <1>8 DEF PersistInv, Dumping
<1>10. FileOfSnap'
  <2> SUFFICES ASSUME NEW i \in 1 .. Len(file) + 1
               PROVE  /\ file'[i].key \in DOMAIN snap /\ Padded(file'[i]) = snap[file'[i].key]
                      /\ file'[i].size <= size
    BY <1>2, <1>6 DEF PersistInv, FileOfSnap, Padded
  <2>1. CASE i = Len(file) + 1
    BY <1>2, <1>3, <1>4, <1>5, <1>6, <2>1
  <2>2. CASE i \in 1 .. Len(file)
    BY <1>6, <2>2 DEF PersistInv, FileOfSnap
  <2> QED BY <1>6, <2>1, <2>2
<1> QED
  BY <1>2, <1>7, <1>9, <1>10 DEF PersistInv, Narrow, LoadOfSnap

\* dump closes the file.
LEMMA EndDumpPreserves == PersistInv /\ EndDump => PersistInv'
<1> SUFFICES ASSUME PersistInv, EndDump PROVE PersistInv'
  OBVIOUS
<1>1. /\ pc = "dump" /\ left = {} /\ pc' \in {"up", "down"} /\ stopping' = FALSE
      /\ mem' \in {Empty, mem}
      /\ UNCHANGED <<size, file, torn, pos, left, snap>>
  BY DEF EndDump, diskVars
<1>2. DOMAIN Empty = {} /\ Empty \in [{} -> Row]
  BY DEF Empty
<1>3. PersistTypeOK' /\ Narrow(mem)' /\ Narrow(snap)'
  BY <1>1, <1>2 DEF PersistInv, PersistTypeOK, Narrow
<1>4. KeysTo(Len(file))' = DOMAIN snap
  BY <1>1 DEF PersistInv, Dumping, KeysTo
<1>5. FileOfSnap' /\ Dumping' /\ LoadOfSnap'
  BY <1>1, <1>4 DEF PersistInv, FileOfSnap, Dumping, LoadOfSnap, Padded
<1> QED BY <1>3, <1>5 DEF PersistInv

\* The process dies in dump: a prefix of the file is left.
LEMMA CrashInDumpPreserves == PersistInv /\ CrashInDump => PersistInv'
<1> SUFFICES ASSUME PersistInv, CrashInDump PROVE PersistInv'
  OBVIOUS
<1>1. /\ pc = "dump" /\ pc' = "down" /\ mem' = Empty /\ left' = {} /\ stopping' = FALSE
      /\ UNCHANGED <<size, pos, snap>>
  BY DEF CrashInDump
<1>2. PICK n \in 0 .. Len(file) :
        /\ file' = SubSeq(file, 1, n)
        /\ \/ torn' = Whole
           \/ /\ n < Len(file)
              /\ \E part \in {"key", "value"} :
                   torn' = [part |-> part, key |-> file[n + 1].key,
                            val |-> file[n + 1].val, size |-> file[n + 1].size]
  BY DEF CrashInDump
<1>3. file \in Seq(Item) /\ Len(file) \in Nat /\ DOMAIN file = 1 .. Len(file)
  BY DEF PersistInv, PersistTypeOK
<1>4. /\ file' \in Seq(Item) /\ DOMAIN file' = 1 .. n /\ Len(file') = n
      /\ \A i \in 1 .. n : file'[i] = file[i] /\ i \in DOMAIN file
  BY <1>2, <1>3
<1>5. n < Len(file) => file[n + 1] \in Item /\ file[n + 1].size <= size
  BY <1>2, <1>3 DEF PersistInv, FileOfSnap
<1>6. /\ torn' \in {Whole} \cup [part : {"key", "value"}, key : Key, val : Row, size : 0 .. MaxFields]
      /\ torn'.part # "none" => torn'.size <= size
  BY <1>2, <1>5 DEF Item, Whole
<1>7. pos = 0 /\ pos \in 0 .. Len(file')
  BY <1>1, <1>2, <1>4 DEF PersistInv, LoadOfSnap
<1>8. DOMAIN Empty = {} /\ Empty \in [{} -> Row]
  BY DEF Empty
<1>9. PersistTypeOK'
  BY <1>1, <1>4, <1>6, <1>7, <1>8 DEF PersistInv, PersistTypeOK
<1>10. FileOfSnap'
  BY <1>1, <1>4, <1>6 DEF PersistInv, FileOfSnap, Padded
<1> QED
  BY <1>1, <1>7, <1>8, <1>9, <1>10 DEF PersistInv, Narrow, Dumping, LoadOfSnap

LEMMA PersistStep == PersistInv /\ [Next]_vars => PersistInv'
<1> SUFFICES ASSUME PersistInv, [Next]_vars PROVE PersistInv'
  OBVIOUS
<1>2. CASE Start
  BY <1>2, ForgetPreserves DEF Start, diskVars
<1>3. CASE Crash
  BY <1>3, ForgetPreserves DEF Crash, diskVars
<1>4. CASE LoadOverrun \/ LoadDone
  BY <1>4, QuietPreserves DEF LoadOverrun, LoadDone, Loading, diskVars
<1>6. CASE DumpFails
  <2>1. /\ pc = "up" /\ pc' \in {"up", "down"} /\ mem' = IF pc' = "up" THEN mem ELSE Empty
        /\ UNCHANGED <<size, file, torn, pos, left, stopping, snap>>
    BY <1>6 DEF DumpFails, diskVars
  <2>2. pos' = 0 /\ pos' = pos
    BY <2>1 DEF PersistInv, LoadOfSnap
  <2>3. CASE pc' = "up"
    BY <2>1, <2>2, <2>3, QuietPreserves
  <2>4. CASE pc' = "down"
    BY <2>1, <2>2, <2>4, ForgetPreserves
  <2> QED BY <2>1, <2>3, <2>4
<1>7. CASE UNCHANGED vars
  <2>1. UNCHANGED <<pc, mem, size, file, torn, pos, left, stopping, snap>>
    BY <1>7 DEF vars
  <2> QED
    BY <2>1 DEF PersistInv, PersistTypeOK, Narrow, FileOfSnap, Dumping, LoadOfSnap, KeysTo, Padded
<1> QED
  BY <1>2, <1>3, <1>4, <1>6, <1>7, AddFieldPreserves, LoadRecordPreserves, LoadTornPreserves,
     RequestPreserves, BeginDumpPreserves, DumpRecordPreserves, EndDumpPreserves,
     CrashInDumpPreserves DEF Next

-----------------------------------------------------------------------------
(* The refinement.                                                         *)

\* What load has made of the file when it is done, by how the file ends.
LEMMA LoadedRemains ==
  ASSUME PersistInv, pc = "load", pos = Len(file)
  PROVE  /\ KeysTo(pos) = Recorded /\ DOMAIN mem = Recorded
         /\ \A i \in DOMAIN mem : i \in DOMAIN snap /\ mem[i] = snap[i]
<1>1. DOMAIN file = 1 .. Len(file)
  BY DEF PersistInv, PersistTypeOK
<1>2. KeysTo(pos) = Recorded /\ Recorded \subseteq DOMAIN snap
  BY <1>1 DEF KeysTo, Recorded, PersistInv, FileOfSnap
<1> QED BY <1>2 DEF PersistInv, LoadOfSnap

LEMMA StepRefines ==
  ASSUME PersistInv, PersistInv', [Next]_vars
  PROVE  [LastDump!Next]_(LastDump!vars)
<1> USE DEF LastDump!vars
<1> DEFINE Intact == pc = "dump" \/ (torn = Whole /\ Recorded = DOMAIN snap)
<1>0. UNCHANGED <<file, torn, snap>> /\ pc # "dump" /\ pc' # "dump" => Intact' = Intact
  BY DEF Recorded
<1>1. CASE Set \/ Delete
  <2>1. pc = "up" /\ pc' = "up" /\ UNCHANGED <<file, torn, snap>>
    BY <1>1 DEF Set, Delete, diskVars
  <2>2. mem' \in UNION {[K -> Row] : K \in SUBSET Key}
    BY DEF PersistInv, PersistTypeOK
  <2> QED BY <1>0, <2>1, <2>2 DEF LastDump!Next, LastDump!Change
<1>2. CASE BeginDump
  <2>1. pc = "up" /\ pc' = "dump" /\ snap' = mem /\ mem' = mem
    BY <1>2 DEF BeginDump
  <2> QED BY <2>1 DEF LastDump!Next, LastDump!Save
<1>3. CASE DumpRecord
  <2>1. pc = "dump" /\ pc' = "dump" /\ mem' = mem /\ snap' = snap
    BY <1>3 DEF DumpRecord
  <2> QED BY <2>1
<1>4. CASE EndDump
  <2>1. pc = "dump" /\ snap' = snap /\ mem = snap
    BY <1>4 DEF EndDump, PersistInv, Dumping
  <2>2. (pc' = "up" /\ mem' = mem) \/ pc' = "down"
    BY <1>4 DEF EndDump
  <2>3. Intact = TRUE /\ Intact' \in BOOLEAN
    BY <2>1
  <2>4. pc' = "up" => Intact'
    <3>1. torn = Whole /\ left = {} /\ UNCHANGED <<file, torn, snap>>
      BY <1>4, <2>1 DEF EndDump, diskVars, PersistInv, Dumping
    <3>2. DOMAIN file = 1 .. Len(file)
      BY DEF PersistInv, PersistTypeOK
    <3>3. Recorded = DOMAIN snap
      BY <2>1, <3>1, <3>2 DEF PersistInv, Dumping, KeysTo, Recorded
    <3> QED BY <3>1, <3>3 DEF Recorded
  <2> QED BY <2>1, <2>2, <2>3, <2>4 DEF LastDump!Next, LastDump!Stop
<1>5. CASE DumpFails
  <2>1. pc = "up" /\ UNCHANGED <<file, torn, snap>> /\ ((pc' = "up" /\ mem' = mem) \/ pc' = "down")
    BY <1>5 DEF DumpFails, diskVars
  <2> QED BY <1>0, <2>1 DEF LastDump!Next, LastDump!Stop
<1>6. CASE Crash
  <2>1. pc \in {"load", "up"} /\ pc' = "down" /\ UNCHANGED <<file, torn, snap>>
    BY <1>6 DEF Crash, diskVars
  <2> QED BY <1>0, <2>1 DEF LastDump!Next, LastDump!Stop
<1>7. CASE AddField \/ Start
  <2>1. pc = "down" /\ pc' \in {"down", "load"} /\ UNCHANGED <<file, torn, snap>>
    BY <1>7 DEF AddField, Start, diskVars
  <2> QED BY <1>0, <2>1
<1>8. CASE LoadRecord \/ LoadOverrun
  <2>1. pc = "load" /\ pc' \in {"load", "undefined"} /\ UNCHANGED <<file, torn, snap>>
    BY <1>8 DEF LoadRecord, LoadOverrun, Loading, diskVars
  <2> QED BY <1>0, <2>1
<1>9. CASE LoadDone
  <2>1. /\ pc = "load" /\ pc' = "up" /\ mem' = mem /\ pos = Len(file)
        /\ UNCHANGED <<file, torn, snap>>
    BY <1>9 DEF LoadDone, Loading, diskVars
  <2>2. DOMAIN mem = Recorded /\ \A i \in DOMAIN mem : i \in DOMAIN snap /\ mem[i] = snap[i]
    BY <2>1, LoadedRemains
  <2>3. mem \in [DOMAIN mem -> Row] /\ snap \in [DOMAIN snap -> Row]
    BY DEF PersistInv, PersistTypeOK
  <2>4. Intact => mem = snap
    BY <2>1, <2>2, <2>3
  <2>5. mem' \in UNION {[K -> Row] : K \in SUBSET Key} /\ LastDump!Remains(snap, mem')
    BY <2>1, <2>2 DEF LastDump!Remains, PersistInv, PersistTypeOK
  <2> QED BY <1>0, <2>1, <2>4, <2>5 DEF LastDump!Next, LastDump!Start
<1>10. CASE LoadTornKey \/ LoadTornValue
  <2>1. /\ pc = "load" /\ pc' = "up" /\ torn # Whole /\ pos = Len(file)
        /\ UNCHANGED <<file, torn, snap>>
    BY <1>10, TornLoad DEF LoadTornKey, LoadTornValue
  <2>2. PICK k \in Key, v \in Row : mem' = Stored(mem, k, v)
    BY <1>10, TornLoad
  <2>3. \A i \in DOMAIN mem : i \in DOMAIN snap /\ mem[i] = snap[i]
    BY <2>1, LoadedRemains
  <2>4. k \in DOMAIN mem' /\ \A i \in DOMAIN mem' \ {k} : i \in DOMAIN snap /\ mem'[i] = snap[i]
    BY <2>2, <2>3 DEF Stored
  <2>5. mem' \in UNION {[K -> Row] : K \in SUBSET Key} /\ LastDump!Remains(snap, mem')
    BY <2>4 DEF LastDump!Remains, PersistInv, PersistTypeOK
  <2>6. ~Intact
    BY <2>1
  <2> QED BY <1>0, <2>1, <2>5, <2>6 DEF LastDump!Next, LastDump!Start
<1>11. CASE CrashInDump
  <2>1. pc = "dump" /\ pc' = "down" /\ snap' = snap /\ mem = snap
    BY <1>11 DEF CrashInDump, PersistInv, Dumping
  <2>2. Intact = TRUE /\ Intact' \in BOOLEAN
    BY <2>1
  <2> QED BY <2>1, <2>2 DEF LastDump!Next, LastDump!Stop
<1>12. CASE UNCHANGED vars
  BY <1>12 DEF vars, Recorded
<1> QED
  BY <1>1, <1>2, <1>3, <1>4, <1>5, <1>6, <1>7, <1>8, <1>9, <1>10, <1>11, <1>12 DEF Next

\* A server that starts again, after a stop or a crash and with fields added or
\* not, has exactly the records of its last dump, and when that dump was cut
\* short at most one record that is not of the table dumped (record.cc:266-290,
\* 1150-1169).
THEOREM RestartRestores == Spec => ImplementsBackup
<1>1. Init => LastDump!Init
  BY DEF Init, LastDump!Init, Recorded, Empty
<1>2. PersistInv /\ [Next]_vars => PersistInv'
  BY PersistStep
<1>3. PersistInv /\ PersistInv' /\ [Next]_vars => [LastDump!Next]_(LastDump!vars)
  BY StepRefines
<1> QED
  BY <1>1, <1>2, <1>3, PersistInit, PTL DEF Spec, ImplementsBackup, LastDump!Spec

\* The variables of the model of dump and load keep their types, whatever a
\* crash leaves of the file.
THEOREM PersistTyped == Spec => []PersistTypeOK
<1>1. PersistInv => PersistTypeOK
  BY DEF PersistInv
<1> QED BY <1>1, PersistInit, PersistStep, PTL DEF Spec
=============================================================================
