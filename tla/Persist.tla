------------------------------- MODULE Persist -------------------------------
(***************************************************************************)
(* record.cc's dump and load, and the life of the process around them      *)
(* (main.cc, server.cc's start): at the start the records are read from    *)
(* the dump file, a DUMP request and SIGTERM write it, and the process may *)
(* crash at any time.  The values of fields are abstract; what a SET does  *)
(* to a record beyond changing a field is left to Record.tla.              *)
(***************************************************************************)
EXTENDS Naturals, Sequences, FiniteSets

CONSTANTS
  Key, WideKey,    \* keys of at most 64 bytes, and those of more than 32
  Value, Zero,     \* values of a field, and the one of a new record
  MaxFields        \* bound: fields in the configuration

ASSUME PersistAssumption ==
  WideKey \subseteq Key /\ Zero \in Value /\ MaxFields \in Nat \ {0}

VARIABLES
  pc,       \* "down", "load", "up", "dump", "undefined" (buf has been overrun)
  mem,      \* data_
  size,     \* number of fields in the configuration, for record_size_
  file,     \* the records in the dump file, in order
  torn,     \* what follows the last whole one: nothing, or a part of the next
  pos,      \* load: records read so far
  left,     \* dump: keys not written yet
  stopping, \* the dump is the last thing the process does
  snap      \* (history) data_ when the last dump began

vars == <<pc, mem, size, file, torn, pos, left, stopping, snap>>
diskVars == <<file, torn>>

\* A record is a function of all fields; those not configured yet are zero.
Field == 0 .. MaxFields - 1
Row == [Field -> Value]
Blank == [f \in Field |-> Zero]
Empty == [k \in {} |-> Blank]

\* A record of the file: key, value and vsize, the number of fields dumped.
Item == [key : Key, val : Row, size : 0 .. MaxFields]
Whole == [part |-> "none"]

Stored(m, k, v) == [i \in DOMAIN m \cup {k} |-> IF i = k THEN v ELSE m[i]]

Init ==
  /\ pc = "down" /\ mem = Empty /\ size = 1
  /\ file = <<>> /\ torn = Whole
  /\ pos = 0 /\ left = {} /\ stopping = FALSE
  /\ snap = Empty

-----------------------------------------------------------------------------
(* The file is read when Record is constructed, before the server exists.  *)

\* db.conf allows fields to be added, at the end, between two runs.
AddField ==
  /\ pc = "down" /\ size < MaxFields
  /\ size' = size + 1
  /\ UNCHANGED <<pc, mem, diskVars, pos, left, stopping, snap>>

Start ==
  /\ pc = "down" /\ pc' = "load"
  /\ mem' = Empty /\ pos' = 0
  /\ UNCHANGED <<size, diskVars, left, stopping, snap>>

Loading == pc = "load" /\ UNCHANGED <<size, diskVars, left, stopping, snap>>

\* The value in memory of a record of the file, which has zeros where the file
\* has no field.
Padded(r) == [f \in Field |-> IF f < r.size THEN r.val[f] ELSE Zero]

LoadRecord ==
  LET r == file[pos + 1] IN
  /\ Loading /\ pos < Len(file) /\ r.key \notin WideKey
  /\ mem' = Stored(mem, r.key, Padded(r))
  /\ pos' = pos + 1
  /\ UNCHANGED pc

\* buf has room for 32 bytes of key.
LoadOverrun ==
  /\ Loading
  /\ \/ pos < Len(file) /\ file[pos + 1].key \in WideKey
     \/ pos = Len(file) /\ torn.part # "none" /\ torn.key \in WideKey
  /\ pc' = "undefined"
  /\ UNCHANGED <<mem, pos>>

\* The file ends, or there is none.
LoadDone ==
  /\ Loading /\ pos = Len(file) /\ torn.part = "none"
  /\ pc' = "up" /\ pos' = 0
  /\ UNCHANGED mem

\* The file ends inside a key: the rest of the key is whatever buf held.
LoadTornKey ==
  /\ Loading /\ pos = Len(file) /\ torn.part = "key" /\ torn.key \notin WideKey
  /\ \E k \in Key \ WideKey : mem' = Stored(mem, k, Blank)
  /\ pc' = "up" /\ pos' = 0

\* The file ends inside a value, or before it: the first j fields are there, a
\* part of the next, and zeros.
LoadTornValue ==
  /\ Loading /\ pos = Len(file) /\ torn.part = "value" /\ torn.key \notin WideKey
  /\ \E j \in 0 .. torn.size, v \in Value :
       mem' = Stored(mem, torn.key,
                [f \in Field |-> IF f < j THEN torn.val[f]
                                 ELSE IF f = j /\ f < torn.size THEN v ELSE Zero])
  /\ pc' = "up" /\ pos' = 0

-----------------------------------------------------------------------------
(* Requests.                                                               *)

\* opt_set: a record is created with zeros, and a field written.
Set ==
  /\ pc = "up"
  /\ \E k \in Key, f \in 0 .. size - 1, v \in Value :
       mem' = Stored(mem, k, [(IF k \in DOMAIN mem THEN mem[k] ELSE Blank) EXCEPT ![f] = v])
  /\ UNCHANGED <<pc, size, diskVars, pos, left, stopping, snap>>

Delete ==
  /\ pc = "up"
  /\ \E k \in DOMAIN mem : mem' = [i \in DOMAIN mem \ {k} |-> mem[i]]
  /\ UNCHANGED <<pc, size, diskVars, pos, left, stopping, snap>>

\* fopen(..., "wb"); the mutation opens to append.
Appended == file
Truncated == <<>>

\* opt_dump and, when `running' is cleared, start().
BeginDump ==
  /\ pc = "up" /\ pc' = "dump"
  /\ stopping' \in BOOLEAN
  /\ file' = Truncated /\ torn' = Whole
  /\ left' = DOMAIN mem /\ snap' = mem
  /\ UNCHANGED <<mem, size, pos>>

\* fopen fails: dump returns -1, opt_dump answers OK with it, and start() ends
\* all the same.
DumpFails ==
  /\ pc = "up" /\ pc' \in {"up", "down"}
  /\ mem' = IF pc' = "up" THEN mem ELSE Empty
  /\ UNCHANGED <<size, diskVars, pos, left, stopping, snap>>

\* vsize, in fields; the mutation is one too many.
VSizeOver == size + 1
VSize == size

\* The map is iterated in an order of its own.
DumpRecord ==
  /\ pc = "dump"
  /\ \E k \in left :
       /\ file' = Append(file, [key |-> k, val |-> mem[k], size |-> VSize])
       /\ left' = left \ {k}
  /\ UNCHANGED <<pc, mem, size, torn, pos, stopping, snap>>

EndDump ==
  /\ pc = "dump" /\ left = {}
  /\ IF stopping THEN pc' = "down" /\ mem' = Empty ELSE pc' = "up" /\ UNCHANGED mem
  /\ stopping' = FALSE
  /\ UNCHANGED <<size, diskVars, pos, left, snap>>

-----------------------------------------------------------------------------

\* The process dies, or ends without a dump: Server::init fails (main returns
\* 2), or epoll_wait fails and start() breaks off.
Crash ==
  /\ pc \in {"load", "up"}
  /\ pc' = "down" /\ mem' = Empty /\ pos' = 0
  /\ UNCHANGED <<size, diskVars, left, stopping, snap>>

\* It dies inside dump(): what has reached the disk is the beginning of what
\* was written, which may end inside a record.
CrashInDump ==
  /\ pc = "dump"
  /\ pc' = "down" /\ mem' = Empty
  /\ \E n \in 0 .. Len(file) :
       /\ file' = SubSeq(file, 1, n)
       /\ \/ torn' = Whole
          \/ /\ n < Len(file)
             /\ \E part \in {"key", "value"} :
                  torn' = [part |-> part, key |-> file[n + 1].key,
                           val |-> file[n + 1].val, size |-> file[n + 1].size]
  /\ left' = {} /\ stopping' = FALSE
  /\ UNCHANGED <<size, pos, snap>>

Next ==
  \/ AddField \/ Start \/ LoadRecord \/ LoadOverrun \/ LoadDone \/ LoadTornKey \/ LoadTornValue
  \/ Set \/ Delete
  \/ BeginDump \/ DumpFails \/ DumpRecord \/ EndDump
  \/ Crash \/ CrashInDump

Spec == Init /\ [][Next]_vars

-----------------------------------------------------------------------------

PersistTypeOK ==
  /\ pc \in {"down", "load", "up", "dump", "undefined"}
  /\ DOMAIN mem \subseteq Key /\ mem \in [DOMAIN mem -> Row]
  /\ DOMAIN snap \subseteq Key /\ snap \in [DOMAIN snap -> Row]
  /\ size \in 1 .. MaxFields
  /\ file \in Seq(Item)
  /\ torn \in {Whole} \cup [part : {"key", "value"}, key : Key, val : Row, size : 0 .. MaxFields]
  /\ pos \in 0 .. Len(file)
  /\ left \subseteq DOMAIN mem
  /\ stopping \in BOOLEAN

\* What Backup.tla sees of the process and of the file.
Recorded == {file[i].key : i \in DOMAIN file}
LastDump == INSTANCE Backup WITH
  Tables <- UNION {[K -> Row] : K \in SUBSET Key},
  up <- pc \in {"up", "dump"},
  cur <- IF pc \in {"up", "dump"} THEN mem ELSE snap,
  saved <- snap,
  intact <- pc = "dump" \/ (torn = Whole /\ Recorded = DOMAIN snap)

\* A server that starts again, after a stop or a crash and with fields added or
\* not, has exactly the records of its last dump, added fields at zero; when
\* that dump was cut short, at most one record that was not in memory, as it
\* is, when the dump began (record.cc:266-290, 1150-1169, db.conf:8).
ImplementsBackup == LastDump!Spec

\* readme.md:4: keys of up to 64 bytes are kept.  They are dumped; the load then
\* reads every one of them within its buffer.
KeysLoad == pc # "undefined"
=============================================================================
