---------------------------- MODULE Server_proofs ----------------------------
(***************************************************************************)
(* Proofs about the epoll loop for any number of connections, any limits,  *)
(* sizes and kinds of request.  The events of a batch are of distinct live *)
(* connections, and none is both readable and writable, because epoll      *)
(* watches for one of them; so a handler that frees its connection frees   *)
(* no other event's.                                                       *)
(***************************************************************************)
EXTENDS Server, FiniteSetTheorems, SequenceTheorems, TLAPS

-----------------------------------------------------------------------------
(* The connection table. *)

\* The same connection is never in two slots.
LEMMA SlotsDistinct ==
  ASSUME SlotsHoldLive, NEW s \in InUse, NEW t \in InUse,
         connections[s] = connections[t]
  PROVE  s = t
BY DEF SlotsHoldLive

\* Everything the proof carries from step to step.
TableInv ==
  /\ TableTypeOK
  /\ SlotsAgree
  /\ NothingLeaked
  /\ serving => IsFiniteSet(alive) /\ CountIsOpen

\* The empty table is consistent.
LEMMA InitEstablishes == TableInit => TableInv
<1> SUFFICES ASSUME TableInit PROVE TableInv
  OBVIOUS
<1>1. MaxCount \in Nat /\ NoConn \notin Conn
  BY TableAssumption
<1>2. TableTypeOK
  BY <1>1 DEF TableInit, TableTypeOK, Slots
<1>3. SlotsAgree /\ NothingLeaked
  BY DEF TableInit, SlotsAgree, SlotsHoldLive, LiveHaveSlots, InUse, NothingLeaked
<1>4. IsFiniteSet(alive) /\ CountIsOpen
  BY FS_EmptySet DEF TableInit, CountIsOpen
<1> QED
  BY <1>2, <1>3, <1>4 DEF TableInv

\* accept keeps the table in order.
LEMMA AddPreserves ==
  ASSUME TableInv, NEW c \in Conn, AddConnection(c)
  PROVE  TableInv'
<1> USE DEF TableInv
<1>1. MaxCount \in Nat /\ count \in Nat /\ count < MaxCount /\ count \in Slots
  BY TableAssumption DEF TableTypeOK, AddConnection, HasRoom, Slots
<1>2. TableTypeOK'
  BY <1>1 DEF TableTypeOK, AddConnection, Slots
<1>3. InUse' = InUse \cup {count}
  BY <1>1 DEF InUse, AddConnection
<1>4. SlotsHoldLive'
  BY <1>1, <1>3 DEF SlotsHoldLive, SlotsAgree, AddConnection, TableTypeOK, InUse, Slots
<1>5. LiveHaveSlots'
  BY <1>1, <1>3 DEF LiveHaveSlots, SlotsAgree, AddConnection, TableTypeOK, InUse, Slots
<1>6. IsFiniteSet(alive') /\ Cardinality(alive') = Cardinality(alive) + 1
  BY FS_AddElement DEF AddConnection
<1>7. CountIsOpen'
  BY <1>6 DEF CountIsOpen, AddConnection
<1> QED
  BY <1>2, <1>4, <1>5, <1>6, <1>7 DEF SlotsAgree, NothingLeaked, AddConnection

\* Removing a connection by its id moves the last one into its slot and
\* disturbs nothing else, also when the connection is itself the last.
LEMMA ClosePreserves ==
  ASSUME TableInv, NEW c \in Conn, CloseConnection(c)
  PROVE  TableInv'
<1> USE DEF TableInv
<1> DEFINE last == connections[count - 1]
<1>1. MaxCount \in Nat /\ count \in Nat /\ count <= MaxCount
  BY TableAssumption DEF TableTypeOK
<1>2. SlotsHoldLive /\ LiveHaveSlots /\ serving /\ c \in alive
  BY DEF SlotsAgree, CloseConnection
<1>3. id[c] \in InUse /\ connections[id[c]] = c /\ count > 0
  BY <1>1, <1>2 DEF LiveHaveSlots, InUse
<1>4. count - 1 \in InUse /\ last \in alive /\ id[last] = count - 1 /\ last \in Conn
  BY <1>1, <1>2, <1>3 DEF SlotsHoldLive, InUse, TableTypeOK
<1>5. /\ id' = [id EXCEPT ![last] = id[c]]
      /\ connections' = [connections EXCEPT ![id[c]] = last]
      /\ count' = count - 1
      /\ alive' = alive \ {c}
      /\ serving' = serving
  BY DEF CloseConnection, Renumbered
<1>6. TableTypeOK'
  <2>1. id[c] \in Slots /\ id[c] \in Nat
    BY <1>1, <1>3 DEF InUse, Slots
  <2> HIDE DEF last
  <2> QED BY <1>1, <1>3, <1>4, <1>5, <2>1 DEF TableTypeOK, Slots
<1>7. SlotsHoldLive'
  <2> SUFFICES ASSUME NEW s \in InUse' PROVE connections'[s] \in alive' /\ id'[connections'[s]] = s
    BY DEF SlotsHoldLive
  <2>1. s \in InUse /\ s # count - 1 /\ s \in Slots
    BY <1>1, <1>5 DEF InUse, Slots
  <2>2. connections[s] \in alive /\ id[connections[s]] = s /\ connections[s] \in Conn
    BY <1>2, <2>1 DEF SlotsHoldLive, TableTypeOK
  <2>3. CASE s = id[c]
    <3>1. last # c
      BY <2>1, <2>3, <1>4
    <3>2. connections'[s] = last
      BY <1>5, <2>1, <2>3 DEF TableTypeOK
    <3>3. id'[last] = s
      BY <1>4, <1>5, <2>3 DEF TableTypeOK
    <3> QED BY <1>4, <1>5, <3>1, <3>2, <3>3
  <2>4. CASE s # id[c]
    <3>1. connections'[s] = connections[s] /\ connections[s] # c
      BY <1>5, <2>1, <2>2, <2>4 DEF TableTypeOK
    <3>2. connections[s] # last
      BY <1>4, <2>1, <2>2
    <3>3. id'[connections[s]] = s
      BY <1>5, <2>2, <3>2 DEF TableTypeOK
    <3> QED BY <1>5, <2>2, <3>1, <3>3
  <2> QED BY <2>3, <2>4
<1>8. LiveHaveSlots'
  <2> SUFFICES ASSUME NEW d \in alive' PROVE id'[d] \in InUse' /\ connections'[id'[d]] = d
    BY DEF LiveHaveSlots
  <2>1. d \in alive /\ d # c /\ d \in Conn
    BY <1>5 DEF TableTypeOK
  <2>2. id[d] \in InUse /\ connections[id[d]] = d /\ id[d] # id[c]
    BY <1>2, <1>3, <2>1 DEF LiveHaveSlots
  <2>3. CASE d = last
    <3>1. id'[d] = id[c]
      BY <1>4, <1>5, <2>3 DEF TableTypeOK
    <3>2. id[c] \in InUse' /\ id[c] \in Slots
      BY <1>1, <1>3, <1>4, <1>5, <2>2, <2>3 DEF InUse, Slots
    <3> QED BY <1>5, <2>3, <3>1, <3>2 DEF TableTypeOK
  <2>4. CASE d # last
    <3>1. id'[d] = id[d]
      BY <1>5, <2>1, <2>4 DEF TableTypeOK
    <3>2. id[d] # count - 1
      BY <2>2, <2>4
    <3>3. id[d] \in InUse' /\ id[d] \in Slots
      BY <1>1, <1>5, <2>2, <3>2 DEF InUse, Slots
    <3> QED BY <1>5, <2>2, <3>1, <3>3 DEF TableTypeOK
  <2> QED BY <2>3, <2>4
<1>9. IsFiniteSet(alive') /\ Cardinality(alive') = Cardinality(alive) - 1
  BY <1>2, <1>5, FS_RemoveElement
<1>10. CountIsOpen'
  BY <1>1, <1>2, <1>5, <1>9 DEF CountIsOpen
<1> QED
  BY <1>2, <1>5, <1>6, <1>7, <1>8, <1>9, <1>10 DEF SlotsAgree, NothingLeaked

\* A connection closed in the handler that accepted it leaves no trace in the
\* slots in use.
LEMMA AddAndClosePreserves ==
  ASSUME TableInv, NEW c \in Conn, AddAndClose(c)
  PROVE  TableInv'
<1> USE DEF TableInv
<1>1. count \in Nat /\ count \in Slots
  BY TableAssumption DEF TableTypeOK, AddAndClose, HasRoom, Slots
<1>2. TableTypeOK'
  BY <1>1 DEF TableTypeOK, AddAndClose, Slots
<1>3. SlotsHoldLive'
  BY <1>1 DEF SlotsHoldLive, SlotsAgree, AddAndClose, TableTypeOK, InUse, Slots
<1>4. LiveHaveSlots'
  BY <1>1 DEF LiveHaveSlots, SlotsAgree, AddAndClose, TableTypeOK, InUse, Slots
<1> QED
  BY <1>2, <1>3, <1>4 DEF SlotsAgree, NothingLeaked, CountIsOpen, AddAndClose

\* The destructor frees exactly the connections that are allocated.
LEMMA FreeFindsAll ==
  ASSUME TableInv, serving
  PROVE  alive = Freed
BY DEF Freed, TableInv, SlotsAgree, SlotsHoldLive, LiveHaveSlots

\* free_connection_manager leaves a consistent table.
LEMMA FreePreserves == ASSUME TableInv, FreeManager PROVE TableInv'
<1>1. alive' = {} /\ serving' = FALSE
  BY FreeFindsAll DEF FreeManager
<1>2. TableTypeOK'
  BY <1>1 DEF TableInv, TableTypeOK, FreeManager
<1> QED
  BY <1>1, <1>2 DEF TableInv, SlotsAgree, NothingLeaked

\* Every step of the table leaves it consistent.
LEMMA StepPreserves == TableInv /\ [TableNext]_tableVars => TableInv'
<1> SUFFICES ASSUME TableInv, [TableNext]_tableVars PROVE TableInv'
  OBVIOUS
<1>1. ASSUME NEW c \in Conn, AddConnection(c) PROVE TableInv'
  BY <1>1, AddPreserves
<1>2. ASSUME NEW c \in Conn, CloseConnection(c) PROVE TableInv'
  BY <1>2, ClosePreserves
<1>3. ASSUME NEW c \in Conn, AddAndClose(c) PROVE TableInv'
  BY <1>3, AddAndClosePreserves
<1>4. CASE FreeManager
  BY <1>4, FreePreserves
<1>5. CASE UNCHANGED tableVars
  BY <1>5 DEF TableInv, tableVars, TableTypeOK, SlotsAgree, SlotsHoldLive,
              LiveHaveSlots, InUse, NothingLeaked, CountIsOpen
<1> QED
  BY <1>1, <1>2, <1>3, <1>4, <1>5 DEF TableNext

\* Every slot, count and connection agree, whatever the sequence of calls.
THEOREM Inductive == TableSpec => []TableInv
BY InitEstablishes, StepPreserves, PTL DEF TableSpec

-----------------------------------------------------------------------------

\* The manager's variables keep their types: in particular `count' never
\* exceeds the array's length (connection.cc, server.cc:190-208).
THEOREM TableTyped == TableSpec => []TableTypeOK
<1>1. TableInv => TableTypeOK
  BY DEF TableInv
<1> QED BY <1>1, Inductive, PTL

\* Array, counter and ids agree as long as the server runs (connection.cc:91-96).
THEOREM TableConsistent == TableSpec => []SlotsAgree
<1>1. TableInv => SlotsAgree
  BY DEF TableInv
<1> QED BY <1>1, Inductive, PTL

\* Shutdown frees every connection (connection.cc:114-134).
THEOREM ShutdownFreesAll == TableSpec => []NothingLeaked
<1>1. TableInv => NothingLeaked
  BY DEF TableInv
<1> QED BY <1>1, Inductive, PTL

\* The number the server reports and limits is the number of open connections.
THEOREM CountCorrect == TableSpec => []CountIsOpen
<1>1. TableInv => CountIsOpen
  BY DEF TableInv, CountIsOpen
<1> QED BY <1>1, Inductive, PTL

\* connection.cc refines the bounded set of open connections: every operation
\* of the manager is an operation on the set, or invisible.
THEOREM TableRefines == TableSpec => ImplementsOpenSet
<1>1. TableInit => Promise!Init
  BY DEF TableInit, Promise!Init
<1>2. TableInv /\ [TableNext]_tableVars => [Promise!Next]_<<alive, serving>>
  <2> SUFFICES ASSUME TableInv, [TableNext]_tableVars
               PROVE  [Promise!Next]_<<alive, serving>>
    OBVIOUS
  <2>1. ASSUME NEW c \in Conn, AddConnection(c) PROVE Promise!Open(c)
    BY <2>1 DEF AddConnection, HasRoom, Promise!Open, TableInv, CountIsOpen, Cardinality, Promise!Cardinality
  <2>2. ASSUME NEW c \in Conn, CloseConnection(c) PROVE Promise!Close(c)
    BY <2>2 DEF CloseConnection, Promise!Close
  <2>3. ASSUME NEW c \in Conn, AddAndClose(c) PROVE UNCHANGED <<alive, serving>>
    BY <2>3 DEF AddAndClose
  <2>4. CASE FreeManager
    <3>1. Promise!Shutdown
      BY <2>4, FreeFindsAll DEF FreeManager, Promise!Shutdown
    <3> QED BY <3>1 DEF Promise!Next
  <2>5. CASE UNCHANGED tableVars
    BY <2>5 DEF tableVars
  <2> QED BY <2>1, <2>2, <2>3, <2>4, <2>5 DEF TableNext, Promise!Next
<1> QED BY <1>1, <1>2, Inductive, PTL DEF TableSpec, ImplementsOpenSet, Promise!Spec

-----------------------------------------------------------------------------
(* The loop. *)

UnitOf == Kind \X Nat
States == {"IDLE", "READING_HEADER", "READING_BODY", "WRITING"}
ConnRecord == [state : States, rx : Seq(UnitOf), size : Nat, offset : Nat,
               requests : Nat, age : 0 .. AgeCap, interest : SUBSET {"IN", "OUT"}]
SockRecord == [peer : {"open", "shut", "reset"}, inbox : Seq(UnitOf), outbox : Seq(BOOLEAN),
               todo : Seq(UnitOf), begun : Nat, answers : Nat]

StatRecord == [total : Nat, request : Nat, error : Nat, response : Nat]
EnvRecord == [backlog : Int, connects : Nat, begun : Nat, faults : Nat]

\* The types of what the connection manager does not hold.
OwnTypes ==
  /\ pc \in {"top", "wait", "events", "sweep", "exit", "stopped"}
  /\ running \in BOOLEAN
  /\ batch \subseteq [src : Conn \cup {Listener}, in : BOOLEAN, out : BOOLEAN, hup : BOOLEAN]
  /\ cursor \in 0 .. MaxCount
  /\ sinceSweep \in 0 .. CleanupPeriod
  /\ conn \in [Conn -> ConnRecord]
  /\ sock \in [Conn -> SockRecord]
  /\ stat \in StatRecord
  /\ env \in EnvRecord

\* No more of a response is written than there is and the kernel takes, and a
\* body is read after its header.
Windows ==
  \A c \in Conn :
    /\ conn[c].offset <= conn[c].size
    /\ Len(sock[c].outbox) <= SndBuf
    /\ conn[c].state = "READING_BODY" => conn[c].rx # <<>>

\* Where the loop is, and what it holds there.
LoopInv ==
  /\ pc # "events" => batch = {}
  /\ pc # "sweep" => cursor = 0
  /\ cursor <= count

\* The events of a batch.
BatchDistinct == \A e, f \in batch : e.src = f.src => e = f
BatchOneWay == \A e \in batch : ~(e.in /\ e.out)
BatchInv == BatchAlive /\ BatchDistinct /\ BatchOneWay

OwnInv == OwnTypes /\ Windows /\ LoopInv /\ BatchInv /\ InterestFollowsState /\ SweepLeavesNone
ServerInv == TableInv /\ OwnInv

-----------------------------------------------------------------------------
(* The table.                                                              *)

\* Every step of the server is one of the connection manager, or leaves it alone.
LEMMA TableStep == TableTypeOK /\ OwnTypes /\ [Next]_vars => [TableNext]_tableVars
<1> SUFFICES ASSUME TableTypeOK, OwnTypes, [Next]_vars PROVE [TableNext]_tableVars
  OBVIOUS
<1>1. ASSUME NEW c, Close(c), c \in Conn PROVE TableNext
  BY <1>1 DEF Close, TableNext
<1>2. CASE UNCHANGED vars
  BY <1>2 DEF vars
<1>3. CASE Environment
  BY <1>3 DEF Environment, Connect, Signal, Tick, BeginRequest, Deliver, Receive, Leave
<1>4. CASE Loop
  <2>1. CASE SweepStep
    <3>1. CASE Expired(connections[cursor]) /\ Close(connections[cursor])
      BY <3>1 DEF Close, CloseConnection, TableTypeOK, TableNext
    <3> QED
      BY <2>1, <3>1 DEF SweepStep
  <2> QED
    BY <1>4, <2>1 DEF Loop, CheckRunning, EpollWait, EpollInterrupted, EpollFails, AfterBatch,
      SweepDone, Destroy, Goto, TableNext
<1>5. ASSUME NEW e \in batch, Handler(e) PROVE [TableNext]_tableVars
  <2>1. e.src # Listener => e.src \in Conn
    BY DEF OwnTypes
  <2>2. CASE AcceptAdded(e)
    BY <2>2 DEF AcceptAdded, TableNext
  <2>3. CASE AcceptFails(e) \/ AcceptRefused(e) \/ ReadMore(e) \/ WriteSome(e)
    BY <2>3 DEF AcceptFails, AcceptRefused, ReadMore, WriteSome
  <2> QED
    BY <1>1, <1>5, <2>1, <2>2, <2>3 DEF Handler, HandleHangup, ReadFails, ReadRefuses, ReadAnswers,
      ReadRejects, WriteFails, WriteEnds, Reading, Writing
<1> QED
  BY <1>2, <1>3, <1>4, <1>5 DEF Next, Server

\* The types that Server.tla states are those of the table and the ones above.
LEMMA Types == ServerTypeOK <=> TableTypeOK /\ OwnTypes
BY DEF ServerTypeOK, OwnTypes, ConnRecord, SockRecord, StatRecord, EnvRecord, States, UnitOf

-----------------------------------------------------------------------------
(* Data.                                                                   *)

\* The records that new connections start with.
LEMMA FreshTyped ==
  /\ AgeCap \in Nat
  /\ FreshConn \in ConnRecord /\ FreshSock \in SockRecord
  /\ FreshConn.state = "IDLE" /\ FreshConn.offset = 0 /\ FreshConn.size = 0
  /\ FreshSock.outbox = <<>>
<1>1. AgeCap \in Nat
  BY ServerAssumption DEF AgeCap
<1>2. <<>> \in Seq(UnitOf) /\ <<>> \in Seq(BOOLEAN)
  BY EmptySeq
<1> QED
  BY <1>1, <1>2 DEF FreshConn, FreshSock, ConnRecord, SockRecord, States

\* A prefix and the rest of a sequence.
LEMMA Cut ==
  ASSUME NEW S, NEW s \in Seq(S), NEW n \in 0 .. Len(s)
  PROVE  /\ SubSeq(s, 1, n) \in Seq(S) /\ SubSeq(s, n + 1, Len(s)) \in Seq(S)
         /\ Len(SubSeq(s, 1, n)) = n
<1>1. \A i \in 1 .. Len(s) : s[i] \in S
  BY ElementOfSeq
<1>2. Len(s) \in Nat
  BY LenProperties
<1>3. \A i \in 1 .. n : s[i] \in S
  BY <1>1, <1>2
<1>4. \A i \in n + 1 .. Len(s) : s[i] \in S
  BY <1>1, <1>2
<1>5. SubSeq(s, 1, n) \in Seq(S) /\ Len(SubSeq(s, 1, n)) = n
  BY <1>3, SubSeqProperties
<1>6. SubSeq(s, n + 1, Len(s)) \in Seq(S)
  BY <1>2, <1>4, SubSeqProperties
<1> QED
  BY <1>5, <1>6

\* The units of a request.
LEMMA UnitsTyped == ASSUME NEW k \in Kind PROVE Units(k) \in Seq(UnitOf)
<1> DEFINE n == HeaderSize + (IF BodySize[k] > 0 THEN BodySize[k] ELSE 0)
<1>1. n \in Nat
  BY ServerAssumption
<1>2. \A j \in 1 .. n : <<k, j>> \in UnitOf
  BY <1>1 DEF UnitOf
<1> HIDE DEF n
<1>3. [j \in 1 .. n |-> <<k, j>>] \in Seq(UnitOf)
  BY <1>1, <1>2
<1> QED
  BY <1>3 DEF Units, n

\* What a read leaves: units, in a state that fits them.
LEMMA ReadTyped ==
  ASSUME OwnTypes, Windows, NEW c \in Conn
  PROVE  /\ SubSeq(sock[c].inbox, Len(Readable(c)) + 1, Len(sock[c].inbox)) \in Seq(UnitOf)
         /\ RxOnRead(c) \in Seq(UnitOf)
         /\ StateParsed(c) \in States
         /\ StateParsed(c) = "WRITING" <=> conn[c].state = "WRITING"
         /\ StateParsed(c) = "READING_BODY" => RxOnRead(c) # <<>>
         /\ Consume(c) \in ConnRecord
<1>1. conn[c] \in ConnRecord /\ sock[c] \in SockRecord
  BY DEF OwnTypes
<1>2. sock[c].inbox \in Seq(UnitOf) /\ conn[c].rx \in Seq(UnitOf) /\ conn[c].state \in States
  BY <1>1 DEF ConnRecord, SockRecord
<1>3. Least(Len(sock[c].inbox), BufferSize) \in 0 .. Len(sock[c].inbox)
  BY <1>2, LenProperties, ServerAssumption DEF Least
<1>4. Readable(c) \in Seq(UnitOf) /\ Len(Readable(c)) \in 0 .. Len(sock[c].inbox)
  BY <1>2, <1>3, Cut DEF Readable
<1>5. SubSeq(sock[c].inbox, Len(Readable(c)) + 1, Len(sock[c].inbox)) \in Seq(UnitOf)
  BY <1>2, <1>4, Cut
<1>6. RxOnRead(c) \in Seq(UnitOf)
  BY <1>2, <1>4, EmptySeq, ConcatProperties DEF RxOnRead
<1>7. /\ StateParsed(c) \in States
      /\ StateParsed(c) = "WRITING" <=> conn[c].state = "WRITING"
  BY <1>2 DEF StateParsed, Parses, States
<1>8. StateParsed(c) = "READING_BODY" => RxOnRead(c) # <<>>
  <2>1. CASE Parses(c)
    <3>1. Header(RxOnRead(c)) = "ok" => Len(RxOnRead(c)) >= HeaderSize
      BY <1>6, LenProperties, ServerAssumption DEF Header
    <3>2. Header(RxOnRead(c)) = "ok" => Len(RxOnRead(c)) # 0
      BY <1>6, <3>1, LenProperties, ServerAssumption
    <3>3. Len(<<>>) = 0
      BY EmptySeq
    <3> QED
      BY <2>1, <3>2, <3>3 DEF StateParsed
  <2>2. CASE ~Parses(c)
    <3>1. StateParsed(c) = "READING_BODY" => conn[c].rx # <<>> /\ RxOnRead(c) = conn[c].rx \o Readable(c)
      BY <2>2 DEF StateParsed, Parses, RxOnRead, Starts, Windows
    <3> QED
      BY <1>2, <1>4, <3>1, ConcatEqualIffEmpty, ConcatSimplifications, ConcatProperties, EmptySeq
  <2> QED
    BY <2>1, <2>2
<1>9. Consume(c) \in ConnRecord
  <2>1. (IF Readable(c) = <<>> THEN conn[c].age ELSE 0) \in 0 .. AgeCap
    BY <1>1, FreshTyped DEF ConnRecord
  <2>2. \A s \in States, d \in Seq(UnitOf), a \in 0 .. AgeCap :
          [conn[c] EXCEPT !.state = s, !.rx = d, !.age = a] \in ConnRecord
    BY <1>1 DEF ConnRecord
  <2> QED
    BY <1>6, <1>7, <2>1, <2>2 DEF Consume
<1> QED
  BY <1>5, <1>6, <1>7, <1>8, <1>9

\* A request that is complete is of a kind that the peers send.
LEMMA KindKnown ==
  ASSUME OwnTypes, Windows, NEW c \in Conn, RequestComplete(c)
  PROVE  Request(RxOnRead(c)) \in Kind /\ RespSize[Request(RxOnRead(c))] \in Nat
<1>1. RxOnRead(c) \in Seq(UnitOf) /\ RxOnRead(c) # <<>>
  BY ReadTyped DEF RequestComplete
<1>2. RxOnRead(c)[1] \in UnitOf
  BY <1>1, EmptySeq, ElementOfSeq
<1>3. Request(RxOnRead(c)) \in Kind
  BY <1>2 DEF Request, UnitOf
<1> QED
  BY <1>3, ServerAssumption

\* What a write leaves.
LEMMA WriteTyped ==
  ASSUME OwnTypes, Windows, NEW c \in Conn
  PROVE  /\ Offset(c) \in Nat /\ Offset(c) <= conn[c].size
         /\ LET outbox == sock[c].outbox \o [i \in 1 .. Written(c) |-> conn[c].offset + i = conn[c].size]
            IN outbox \in Seq(BOOLEAN) /\ Len(outbox) <= SndBuf
<1>1. conn[c] \in ConnRecord /\ sock[c] \in SockRecord
  BY DEF OwnTypes
<1>2. /\ conn[c].size \in Nat /\ conn[c].offset \in Nat /\ sock[c].outbox \in Seq(BOOLEAN)
      /\ conn[c].offset <= conn[c].size /\ Len(sock[c].outbox) <= SndBuf
  BY <1>1 DEF ConnRecord, SockRecord, Windows
<1>3. Len(sock[c].outbox) \in Nat
  BY <1>2, LenProperties
<1>4. /\ Written(c) \in Nat /\ Written(c) <= conn[c].size - conn[c].offset
      /\ Written(c) <= SndBuf - Len(sock[c].outbox)
  <2>1. \A l, m \in Nat : Least(l, m) \in Nat /\ Least(l, m) <= l /\ Least(l, m) <= m
    BY DEF Least
  <2>2. conn[c].size - conn[c].offset \in Nat /\ SndBuf - Len(sock[c].outbox) \in Nat /\ BufferSize \in Nat
    BY <1>2, <1>3, ServerAssumption
  <2>3. /\ Least(conn[c].size - conn[c].offset, BufferSize) \in Nat
        /\ Least(conn[c].size - conn[c].offset, BufferSize) <= conn[c].size - conn[c].offset
    BY <2>1, <2>2
  <2>4. /\ Written(c) \in Nat /\ Written(c) <= SndBuf - Len(sock[c].outbox)
        /\ Written(c) <= Least(conn[c].size - conn[c].offset, BufferSize)
    BY <2>1, <2>2, <2>3 DEF Written
  <2> QED
    BY <1>2, <2>3, <2>4
<1> DEFINE n == Written(c)
           more == [i \in 1 .. n |-> conn[c].offset + i = conn[c].size]
<1> HIDE DEF n
<1>5. n \in Nat
  BY <1>4 DEF n
<1>6. more \in Seq(BOOLEAN) /\ Len(more) = n
  BY <1>5
<1> HIDE DEF more
<1>7. sock[c].outbox \o more \in Seq(BOOLEAN) /\ Len(sock[c].outbox \o more) = Len(sock[c].outbox) + n
  BY <1>2, <1>6, ConcatProperties
<1>8. sock[c].outbox \o more \in Seq(BOOLEAN) /\ Len(sock[c].outbox \o more) <= SndBuf
  <2>1. n <= SndBuf - Len(sock[c].outbox) /\ SndBuf \in Nat
    BY <1>4, ServerAssumption DEF n
  <2> QED
    BY <1>3, <1>5, <1>7, <2>1
<1>9. Offset(c) \in Nat /\ Offset(c) <= conn[c].size
  BY <1>2, <1>4 DEF Offset
<1> QED
  BY <1>8, <1>9 DEF n, more

-----------------------------------------------------------------------------
(* What all handlers have in common.                                       *)

\* A connection that is closed leaves the others as they were.
LEMMA CloseKeeps ==
  ASSUME OwnInv, NEW c \in Conn, Close(c)
  PROVE  /\ conn' \in [Conn -> ConnRecord] /\ sock' \in [Conn -> SockRecord]
         /\ Windows' /\ InterestFollowsState' /\ alive' = alive \ {c}
<1>1. conn' = [conn EXCEPT ![c] = FreshConn] /\ sock' = [sock EXCEPT ![c] = FreshSock]
  BY DEF Close
<1>2. conn \in [Conn -> ConnRecord] /\ sock \in [Conn -> SockRecord] /\ Windows
  BY DEF OwnInv, OwnTypes
<1>3. alive' = alive \ {c}
  BY DEF Close, CloseConnection
<1>4. SndBuf \in Nat /\ Len(<<>>) = 0
  BY ServerAssumption
<1>5. Windows'
  BY <1>1, <1>2, <1>4, FreshTyped DEF Windows
<1>6. InterestFollowsState'
  BY <1>1, <1>2, <1>3 DEF OwnInv, InterestFollowsState
<1> QED
  BY <1>1, <1>2, <1>3, <1>5, <1>6, FreshTyped

\* A connection that stays changes alone, and is watched for what its state needs.
LEMMA ChangeKeeps ==
  ASSUME OwnInv, NEW c \in Conn, UNCHANGED tableVars,
         NEW r \in ConnRecord, conn' = [conn EXCEPT ![c] = r],
         NEW s \in SockRecord, sock' = [sock EXCEPT ![c] = s],
         r.offset <= r.size, Len(s.outbox) <= SndBuf,
         r.state = "READING_BODY" => r.rx # <<>>,
         c \in alive => r.interest = IF r.state = "WRITING" THEN {"OUT"} ELSE {"IN"}
  PROVE  /\ conn' \in [Conn -> ConnRecord] /\ sock' \in [Conn -> SockRecord]
         /\ Windows' /\ InterestFollowsState' /\ alive' = alive
<1>1. conn \in [Conn -> ConnRecord] /\ sock \in [Conn -> SockRecord] /\ Windows
  BY DEF OwnInv, OwnTypes
<1>2. alive' = alive
  BY DEF tableVars
<1>3. Windows'
  BY <1>1 DEF Windows
<1>4. InterestFollowsState'
  BY <1>1, <1>2 DEF OwnInv, InterestFollowsState
<1> QED
  BY <1>1, <1>2, <1>3, <1>4

\* A handler takes its event out of the batch, and frees no connection but its own.
LEMMA HandledStep ==
  ASSUME OwnInv, TableInv', NEW e \in batch, Handling(e), Taken(e),
         conn' \in [Conn -> ConnRecord], sock' \in [Conn -> SockRecord],
         stat' \in StatRecord,
         env' \in EnvRecord,
         Windows', InterestFollowsState',
         \A c \in alive \ alive' : c = e.src
  PROVE  OwnInv'
<1>1. pc' = "events" /\ pc = "events" /\ batch' = batch \ {e}
      /\ cursor' = cursor /\ running' = running /\ sinceSweep' = sinceSweep
  BY DEF Handling, Taken
<1>2. count' \in Nat
  BY TableAssumption DEF TableInv, TableTypeOK
<1>3. OwnTypes'
  BY <1>1 DEF OwnInv, OwnTypes
<1>4. LoopInv'
  BY <1>1, <1>2 DEF OwnInv, LoopInv
<1>5. BatchInv'
  <2>1. BatchAlive'
    BY <1>1 DEF OwnInv, BatchInv, BatchAlive, BatchDistinct
  <2>2. BatchDistinct' /\ BatchOneWay'
    BY <1>1 DEF OwnInv, BatchInv, BatchDistinct, BatchOneWay
  <2> QED
    BY <2>1, <2>2 DEF BatchInv
<1>6. SweepLeavesNone'
  BY <1>1 DEF SweepLeavesNone
<1> QED
  BY <1>3, <1>4, <1>5, <1>6 DEF OwnInv

\* An event that may be read is not written too.
LEMMA OutOfNone ==
  ASSUME OwnInv, NEW e \in batch, Reading(e), ThenOut(e)
  PROVE  Taken(e)
<1>1. e.out = FALSE
  BY DEF OwnInv, OwnTypes, BatchInv, BatchOneWay, Reading
<1> QED
  BY <1>1 DEF ThenOut, Taken

\* The counters of the server and of the bounds.
LEMMA Counters ==
  ASSUME OwnTypes
  PROVE  /\ stat \in StatRecord /\ env \in EnvRecord
         /\ \A m, n \in Nat : [stat EXCEPT !.request = @ + m, !.error = @ + n] \in StatRecord
         /\ [stat EXCEPT !.total = @ + 1] \in StatRecord
         /\ [stat EXCEPT !.response = @ + 1] \in StatRecord
         /\ [env EXCEPT !.backlog = @ - 1] \in EnvRecord
         /\ [env EXCEPT !.backlog = @ - 1, !.faults = @ + 1] \in EnvRecord
         /\ \A b \in {0, 1} : [env EXCEPT !.faults = @ + 1, !.backlog = @ - b] \in EnvRecord
         /\ [env EXCEPT !.faults = @ + 1] \in EnvRecord
<1>1. stat \in StatRecord /\ env \in EnvRecord
  BY DEF OwnTypes
<1>2. \A m, n \in Nat : [stat EXCEPT !.request = @ + m, !.error = @ + n] \in StatRecord
  <2>1. \A a, b \in Nat : [stat EXCEPT !.request = a, !.error = b] \in StatRecord
    BY <1>1 DEF StatRecord
  <2>2. \A m, n \in Nat : stat.request + m \in Nat /\ stat.error + n \in Nat
    BY <1>1 DEF StatRecord
  <2> QED
    BY <2>1, <2>2
<1>3. [stat EXCEPT !.total = @ + 1] \in StatRecord /\ [stat EXCEPT !.response = @ + 1] \in StatRecord
  BY <1>1 DEF StatRecord
<1>4. [env EXCEPT !.backlog = @ - 1] \in EnvRecord /\ [env EXCEPT !.faults = @ + 1] \in EnvRecord
  BY <1>1 DEF EnvRecord
<1>5. env.faults + 1 \in Nat /\ \A b \in {0, 1} : env.backlog - b \in Int
  BY <1>1 DEF EnvRecord
<1>6. [env EXCEPT !.backlog = @ - 1, !.faults = @ + 1] \in EnvRecord
  <2>1. \A a \in Int, n \in Nat : [env EXCEPT !.backlog = a, !.faults = n] \in EnvRecord
    BY <1>1 DEF EnvRecord
  <2> QED
    BY <1>5, <2>1
<1>7. \A b \in {0, 1} : [env EXCEPT !.faults = @ + 1, !.backlog = @ - b] \in EnvRecord
  <2>1. \A n \in Nat, a \in Int : [env EXCEPT !.faults = n, !.backlog = a] \in EnvRecord
    BY <1>1 DEF EnvRecord
  <2> QED
    BY <1>5, <2>1
<1> QED
  BY <1>1, <1>2, <1>3, <1>4, <1>6, <1>7

\* A failure is counted, and so is a request.
LEMMA Counted ==
  ASSUME OwnTypes
  PROVE  /\ Fault => env' \in EnvRecord
         /\ \A c, n : n \in {0, 1} /\ CountRequest(c, n) => stat' \in StatRecord
<1>1. Fault => env' \in EnvRecord
  BY Counters DEF Fault
<1>2. ASSUME NEW c, NEW n \in {0, 1}, CountRequest(c, n) PROVE stat' \in StatRecord
  <2> DEFINE m == IF Parses(c) THEN 1 ELSE 0
  <2>1. m \in Nat
    OBVIOUS
  <2>2. stat' = [stat EXCEPT !.request = @ + m, !.error = @ + n]
    BY <1>2 DEF CountRequest
  <2> HIDE DEF m
  <2> QED
    BY <2>1, <2>2, Counters
<1> QED
  BY <1>1, <1>2

-----------------------------------------------------------------------------
(* Each handler.                                                           *)

\* The listening socket: no connection goes but the one that has just come.
LEMMA AcceptStep ==
  ASSUME OwnInv, TableInv, TableInv', NEW e \in batch,
         AcceptFails(e) \/ AcceptRefused(e) \/ AcceptAdded(e)
  PROVE  OwnInv'
<1>0. OwnTypes
  BY DEF OwnInv
<1>1. /\ conn \in [Conn -> ConnRecord] /\ sock \in [Conn -> SockRecord]
      /\ env \in EnvRecord
      /\ stat \in StatRecord
      /\ Windows /\ InterestFollowsState
  BY DEF OwnInv, OwnTypes
<1>2. CASE AcceptFails(e) \/ AcceptRefused(e)
  <2>1. env' \in EnvRecord
    BY <1>0, <1>2, Counters DEF AcceptFails, AcceptRefused
  <2>2. Windows' /\ InterestFollowsState' /\ alive' = alive
    BY <1>1, <1>2 DEF AcceptFails, AcceptRefused, Windows, InterestFollowsState, tableVars
  <2> QED
    BY <1>1, <1>2, <2>1, <2>2, HandledStep DEF AcceptFails, AcceptRefused
<1>3. CASE AcceptAdded(e)
  <2>1. /\ env' \in EnvRecord
        /\ stat' \in StatRecord
        /\ sock' = sock
    BY <1>0, <1>3, Counters DEF AcceptAdded
  <2> DEFINE new == [FreshConn EXCEPT !.interest = WatchIn]
  <2>2. /\ new \in ConnRecord /\ new.state = "IDLE" /\ new.offset <= new.size
        /\ new.interest = {"IN"}
    BY FreshTyped DEF ConnRecord, WatchIn
  <2> HIDE DEF new
  <2>3. PICK c \in Conn :
          \/ AddConnection(c) /\ conn' = [conn EXCEPT ![c] = new]
          \/ AddAndClose(c) /\ UNCHANGED conn
    BY <1>3 DEF AcceptAdded, new
  <2>4. alive \subseteq alive' /\ alive' \subseteq alive \cup {c}
    BY <2>3 DEF AddConnection, AddAndClose
  <2>5. conn' \in [Conn -> ConnRecord] /\ sock' \in [Conn -> SockRecord]
    BY <1>1, <2>1, <2>2, <2>3
  <2>6. Windows'
    BY <1>1, <2>1, <2>2, <2>3 DEF Windows
  <2>7. InterestFollowsState'
    <3>1. CASE AddConnection(c) /\ conn' = [conn EXCEPT ![c] = new]
      BY <1>1, <2>2, <2>4, <3>1 DEF InterestFollowsState, TableInv, TableTypeOK
    <3>2. CASE AddAndClose(c) /\ UNCHANGED conn
      BY <1>1, <3>2 DEF InterestFollowsState, AddAndClose
    <3> QED
      BY <2>3, <3>1, <3>2
  <2> QED
    BY <1>3, <2>1, <2>4, <2>5, <2>6, <2>7, HandledStep DEF AcceptAdded
<1> QED
  BY <1>2, <1>3

\* The handlers that close their connection.
LEMMA ClosingStep ==
  ASSUME OwnInv, TableInv', NEW e \in batch, Handling(e), e.src # Listener, Taken(e), Close(e.src),
         stat' \in StatRecord,
         env' \in EnvRecord
  PROVE  OwnInv'
<1>1. e.src \in Conn
  BY DEF OwnInv, OwnTypes
<1> QED
  BY <1>1, CloseKeeps, HandledStep

\* Hang-ups, failing calls and refused requests: the connection goes.
LEMMA GoneStep ==
  ASSUME OwnInv, TableInv', NEW e \in batch,
         HandleHangup(e) \/ ReadFails(e) \/ ReadRefuses(e) \/ ReadRejects(e) \/ WriteFails(e)
  PROVE  OwnInv'
<1>1. OwnTypes
  BY DEF OwnInv
<1>2. CASE HandleHangup(e) \/ ReadFails(e) \/ WriteFails(e)
  BY <1>1, <1>2, Counters, ClosingStep DEF HandleHangup, ReadFails, WriteFails, Reading, Writing
<1>3. CASE ReadRefuses(e) \/ ReadRejects(e)
  <2>1. stat' \in StatRecord
    BY <1>1, <1>3, Counted DEF ReadRefuses, ReadRejects
  <2>2. env' \in EnvRecord
    BY <1>1, <1>3, Counters, Counted DEF ReadRefuses, ReadRejects, NoFault
  <2> QED
    BY <1>3, <2>1, <2>2, ClosingStep DEF ReadRefuses, ReadRejects, Reading
<1> QED
  BY <1>2, <1>3

\* A connection whose request is answered.
LEMMA AnswerTyped ==
  ASSUME NEW q \in ConnRecord, NEW n \in Nat
  PROVE  LET t == [q EXCEPT !.requests = q.requests + 1, !.state = "WRITING", !.size = n,
                            !.interest = {"OUT"}, !.offset = 0]
         IN  /\ t \in ConnRecord /\ t.offset = 0 /\ t.size = n
             /\ t.state = "WRITING" /\ t.interest = {"OUT"}
<1> DEFINE a == [q EXCEPT !.requests = q.requests + 1, !.state = "WRITING"]
           b == [a EXCEPT !.size = n, !.interest = {"OUT"}]
           t == [b EXCEPT !.offset = 0]
<1>1. a \in ConnRecord /\ a.state = "WRITING"
  <2>1. q.requests + 1 \in Nat
    BY DEF ConnRecord
  <2> QED
    BY <2>1 DEF ConnRecord, States
<1> HIDE DEF a
<1>2. b \in ConnRecord /\ b.state = "WRITING" /\ b.size = n /\ b.interest = {"OUT"}
  BY <1>1 DEF ConnRecord
<1> HIDE DEF b
<1>3. /\ t \in ConnRecord /\ t.offset = 0 /\ t.size = n
      /\ t.state = "WRITING" /\ t.interest = {"OUT"}
  BY <1>2 DEF ConnRecord
<1> HIDE DEF t
<1>4. t = [q EXCEPT !.requests = q.requests + 1, !.state = "WRITING", !.size = n,
                    !.interest = {"OUT"}, !.offset = 0]
  BY DEF t, b, a
<1> QED
  BY <1>3, <1>4

\* A read that leaves the connection reading, or brings its answer.
LEMMA ReadStep ==
  ASSUME OwnInv, TableInv', NEW e \in batch, ReadMore(e) \/ ReadAnswers(e)
  PROVE  OwnInv'
<1> DEFINE c == e.src
           k == Request(RxOnRead(c))
<1>1. OwnTypes /\ Windows /\ c \in Conn /\ Reading(e) /\ Handling(e) /\ e.src # Listener
  BY DEF OwnInv, OwnTypes, ReadMore, ReadAnswers, Reading
<1>2. Taken(e)
  BY OutOfNone DEF ReadMore, ReadAnswers
<1>3. stat' \in StatRecord
  BY <1>1, Counted DEF ReadMore, ReadAnswers
<1>4. /\ Consume(c) \in ConnRecord
      /\ StateParsed(c) = "READING_BODY" => RxOnRead(c) # <<>>
      /\ StateParsed(c) = "WRITING" <=> conn[c].state = "WRITING"
      /\ SubSeq(sock[c].inbox, Len(Readable(c)) + 1, Len(sock[c].inbox)) \in Seq(UnitOf)
  BY <1>1, ReadTyped
<1>5. conn[c] \in ConnRecord /\ sock[c] \in SockRecord
  BY <1>1 DEF OwnTypes
<1>6. /\ Consume(c).state = StateParsed(c) /\ Consume(c).rx = RxOnRead(c)
      /\ Consume(c).offset = conn[c].offset /\ Consume(c).size = conn[c].size
      /\ Consume(c).interest = conn[c].interest /\ Consume(c).requests = conn[c].requests
  BY <1>5 DEF Consume, ConnRecord
<1> DEFINE s == [sock[c] EXCEPT !.inbox = SubSeq(@, Len(Readable(c)) + 1, Len(@))]
<1>7. s \in SockRecord /\ s.outbox = sock[c].outbox
  BY <1>4, <1>5 DEF SockRecord
<1>8. Drain(c) => sock' = [sock EXCEPT ![c] = s]
  BY DEF Drain
<1> HIDE DEF c, k, s
<1>9. Len(s.outbox) <= SndBuf /\ conn[c].offset <= conn[c].size
  BY <1>1, <1>7 DEF Windows
<1>10. CASE ReadMore(e)
  <2>1. c \in alive => conn[c].interest = IF conn[c].state = "WRITING" THEN {"OUT"} ELSE {"IN"}
    BY DEF OwnInv, InterestFollowsState
  <2>2. /\ conn' = [conn EXCEPT ![c] = Consume(c)] /\ sock' = [sock EXCEPT ![c] = s]
        /\ UNCHANGED tableVars /\ UNCHANGED env
    BY <1>8, <1>10 DEF ReadMore, c
  <2>3. /\ conn' \in [Conn -> ConnRecord] /\ sock' \in [Conn -> SockRecord]
        /\ Windows' /\ InterestFollowsState' /\ alive' = alive
    BY <1>1, <1>4, <1>6, <1>7, <1>9, <2>1, <2>2, ChangeKeeps
  <2>4. env' \in EnvRecord
    BY <1>1, <2>2 DEF OwnTypes
  <2> QED
    BY <1>1, <1>2, <1>3, <2>3, <2>4, HandledStep
<1>11. CASE ReadAnswers(e) /\ Close(c) /\ Fault
  BY <1>1, <1>2, <1>3, <1>11, Counted, ClosingStep DEF c
<1>12. CASE ReadAnswers(e) /\ conn' = [conn EXCEPT ![c] = Respond(Consume(c), k)]
            /\ Drain(c) /\ UNCHANGED env /\ UNCHANGED tableVars
  <2>1. RespSize[k] \in Nat
    BY <1>1, <1>12, KindKnown DEF ReadAnswers, c, k
  <2> DEFINE r == Respond(Consume(c), k)
  <2>2. /\ r \in ConnRecord /\ r.offset = 0 /\ r.size = RespSize[k]
        /\ r.state = "WRITING" /\ r.interest = {"OUT"}
    <3> DEFINE q == Consume(c)
    <3>1. q \in ConnRecord
      BY <1>4
    <3>2. r = [q EXCEPT !.requests = q.requests + 1, !.state = "WRITING", !.size = RespSize[k],
                        !.interest = {"OUT"}, !.offset = 0]
      BY DEF Respond, WatchOut
    <3> HIDE DEF q, r
    <3> DEFINE t == [q EXCEPT !.requests = q.requests + 1, !.state = "WRITING", !.size = RespSize[k],
                              !.interest = {"OUT"}, !.offset = 0]
    <3>3. /\ t \in ConnRecord /\ t.offset = 0 /\ t.size = RespSize[k]
          /\ t.state = "WRITING" /\ t.interest = {"OUT"}
      BY <2>1, <3>1, AnswerTyped
    <3>4. r = t
      BY <3>2
    <3> HIDE DEF t
    <3> QED
      BY <3>3, <3>4
  <2> HIDE DEF r
  <2>3. conn' = [conn EXCEPT ![c] = r] /\ sock' = [sock EXCEPT ![c] = s]
    BY <1>8, <1>12 DEF r
  <2>4. /\ conn' \in [Conn -> ConnRecord] /\ sock' \in [Conn -> SockRecord]
        /\ Windows' /\ InterestFollowsState' /\ alive' = alive
    <3>1. r.offset <= r.size /\ r.state # "READING_BODY"
      BY <2>1, <2>2
    <3> QED
      BY <1>1, <1>7, <1>9, <1>12, <2>2, <2>3, <3>1, ChangeKeeps
  <2>5. env' \in EnvRecord
    BY <1>1, <1>12 DEF OwnTypes
  <2> QED
    BY <1>1, <1>2, <1>3, <2>4, <2>5, HandledStep
<1> QED
  BY <1>10, <1>11, <1>12 DEF ReadAnswers, NoFault, c, k

\* A write that leaves more to write, or ends the answer.
LEMMA WriteStep ==
  ASSUME OwnInv, TableInv', NEW e \in batch, WriteSome(e) \/ WriteEnds(e)
  PROVE  OwnInv'
<1> DEFINE c == e.src
           outbox == sock[c].outbox \o [i \in 1 .. Written(c) |-> conn[c].offset + i = conn[c].size]
           s == [sock[c] EXCEPT !.outbox = outbox]
<1>1. /\ OwnTypes /\ Windows /\ InterestFollowsState
      /\ c \in Conn /\ Handling(e) /\ e.src # Listener /\ Taken(e)
  BY DEF OwnInv, OwnTypes, WriteSome, WriteEnds, Writing
<1>2. Offset(c) \in Nat /\ Offset(c) <= conn[c].size /\ outbox \in Seq(BOOLEAN) /\ Len(outbox) <= SndBuf
  BY <1>1, WriteTyped
<1>3. conn[c] \in ConnRecord /\ sock[c] \in SockRecord
  BY <1>1 DEF OwnTypes
<1>4. /\ Sent(c) \in ConnRecord /\ Sent(c).offset = Offset(c) /\ Sent(c).size = conn[c].size
      /\ Sent(c).state = conn[c].state /\ Sent(c).interest = conn[c].interest
  <2>1. (IF Written(c) = 0 THEN conn[c].age ELSE 0) \in 0 .. AgeCap
    BY <1>3, FreshTyped DEF ConnRecord
  <2>2. \A n \in Nat, a \in 0 .. AgeCap :
          LET r == [conn[c] EXCEPT !.offset = n, !.age = a]
          IN /\ r \in ConnRecord /\ r.offset = n /\ r.size = conn[c].size
             /\ r.state = conn[c].state /\ r.interest = conn[c].interest
    BY <1>3 DEF ConnRecord
  <2> QED
    BY <1>2, <2>1, <2>2 DEF Sent
<1>5. Emit(c) => sock' = [sock EXCEPT ![c] = s]
  BY DEF Emit
<1> HIDE DEF outbox
<1>6. s \in SockRecord /\ s.outbox = outbox
  BY <1>2, <1>3 DEF SockRecord
<1> HIDE DEF s
<1>7. CASE WriteSome(e) /\ conn[c].state # "WRITING"
  <2>1. UNCHANGED <<conn, sock, tableVars, stat, env>>
    BY <1>7 DEF WriteSome, c
  <2>2. Windows' /\ InterestFollowsState' /\ alive' = alive
    BY <1>1, <2>1 DEF Windows, InterestFollowsState, tableVars
  <2> QED
    BY <1>1, <2>1, <2>2, HandledStep DEF OwnTypes
<1>8. CASE WriteSome(e) /\ conn[c].state = "WRITING"
  <2>1. /\ conn' = [conn EXCEPT ![c] = Sent(c)] /\ sock' = [sock EXCEPT ![c] = s]
        /\ UNCHANGED <<tableVars, stat, env>>
    BY <1>5, <1>8 DEF WriteSome, c
  <2>2. c \in alive => Sent(c).interest = {"OUT"}
    BY <1>1, <1>4, <1>8 DEF InterestFollowsState
  <2>3. /\ conn' \in [Conn -> ConnRecord] /\ sock' \in [Conn -> SockRecord]
        /\ Windows' /\ InterestFollowsState' /\ alive' = alive
    BY <1>1, <1>2, <1>4, <1>6, <1>8, <2>1, <2>2, ChangeKeeps
  <2> QED
    BY <1>1, <2>1, <2>3, HandledStep DEF OwnTypes
<1>9. ASSUME WriteEnds(e) PROVE stat' \in StatRecord
  BY <1>1, <1>9, Counters DEF WriteEnds
<1>10. CASE WriteEnds(e) /\ Close(c) /\ Fault
  BY <1>1, <1>9, <1>10, Counted, ClosingStep DEF c
<1>11. CASE /\ WriteEnds(e) /\ Emit(c) /\ UNCHANGED env /\ UNCHANGED tableVars
            /\ conn' = [conn EXCEPT ![c] = [Sent(c) EXCEPT !.state = "IDLE", !.interest = WatchIn]]
  <2> DEFINE r == [Sent(c) EXCEPT !.state = "IDLE", !.interest = WatchIn]
  <2>1. /\ r \in ConnRecord /\ r.offset <= r.size /\ r.state = "IDLE" /\ r.interest = {"IN"}
    <3>1. r.offset = Sent(c).offset /\ r.size = Sent(c).size
      BY <1>4 DEF ConnRecord
    <3> QED
      BY <1>2, <1>4, <3>1 DEF ConnRecord, States, WatchIn
  <2>2. conn' = [conn EXCEPT ![c] = r] /\ sock' = [sock EXCEPT ![c] = s]
    BY <1>5, <1>11
  <2> HIDE DEF r
  <2>3. /\ conn' \in [Conn -> ConnRecord] /\ sock' \in [Conn -> SockRecord]
        /\ Windows' /\ InterestFollowsState' /\ alive' = alive
    BY <1>1, <1>2, <1>6, <1>11, <2>1, <2>2, ChangeKeeps
  <2> QED
    BY <1>1, <1>9, <1>11, <2>3, HandledStep DEF OwnTypes
<1> QED
  BY <1>7, <1>8, <1>10, <1>11 DEF WriteEnds, NoFault, c

-----------------------------------------------------------------------------
(* The loop, the peers and the clock.                                      *)

\* A step that leaves the connections alone.
LEMMA SameConnections ==
  ASSUME OwnInv, UNCHANGED <<tableVars, conn>>,
         \A c \in Conn : sock'[c] = sock[c] \/ Len(sock'[c].outbox) <= SndBuf
  PROVE  Windows' /\ InterestFollowsState' /\ alive' = alive /\ count' = count
BY DEF OwnInv, Windows, InterestFollowsState, tableVars

\* epoll reports each live connection once, for one thing or a hang-up.
LEMMA WaitStep ==
  ASSUME OwnInv, TableInv, EpollWait
  PROVE  OwnInv'
<1>1. OwnTypes /\ InterestFollowsState /\ pc = "wait" /\ cursor = 0 /\ alive \subseteq Conn
  BY DEF OwnInv, LoopInv, EpollWait, TableInv, TableTypeOK
<1>2. /\ pc' = "events" /\ UNCHANGED <<running, cursor, sinceSweep, tableVars, conn, sock, stat>>
  BY DEF EpollWait
<1>3. \A e \in ReadyEvents :
        /\ e \in [src : Conn \cup {Listener}, in : BOOLEAN, out : BOOLEAN, hup : BOOLEAN]
        /\ ~(e.in /\ e.out)
        /\ e.src # Listener =>
             /\ e.src \in alive /\ e = Event(e.src, ReadyIn(e.src), ReadyOut(e.src), sock[e.src].peer # "open")
             /\ e.in \/ e.out \/ e.hup
        /\ e.src = Listener => e = Event(Listener, TRUE, FALSE, FALSE)
  <2>1. \A c \in alive : ~(ReadyIn(c) /\ ReadyOut(c))
    BY <1>1 DEF ReadyIn, ReadyOut, InterestFollowsState
  <2>2. \A c \in alive : ReadyIn(c) \in BOOLEAN /\ ReadyOut(c) \in BOOLEAN
    BY DEF ReadyIn, ReadyOut
  <2> SUFFICES ASSUME NEW e \in ReadyEvents
               PROVE  /\ e \in [src : Conn \cup {Listener}, in : BOOLEAN, out : BOOLEAN, hup : BOOLEAN]
                      /\ ~(e.in /\ e.out)
                      /\ e.src # Listener =>
                           /\ e.src \in alive
                           /\ e = Event(e.src, ReadyIn(e.src), ReadyOut(e.src), sock[e.src].peer # "open")
                           /\ e.in \/ e.out \/ e.hup
                      /\ e.src = Listener => e = Event(Listener, TRUE, FALSE, FALSE)
    OBVIOUS
  <2>3. CASE e = Event(Listener, TRUE, FALSE, FALSE)
    BY <2>3 DEF Event
  <2>4. ASSUME NEW c \in alive, e.in \/ e.out \/ e.hup,
               e = Event(c, ReadyIn(c), ReadyOut(c), sock[c].peer # "open")
        PROVE  /\ e \in [src : Conn \cup {Listener}, in : BOOLEAN, out : BOOLEAN, hup : BOOLEAN]
               /\ ~(e.in /\ e.out) /\ e.src = c /\ c # Listener
    <3>1. c \in Conn /\ c # Listener
      BY <1>1, ServerAssumption
    <3>2. e.src = c /\ e.in = ReadyIn(c) /\ e.out = ReadyOut(c)
      BY <2>4 DEF Event
    <3>3. e \in [src : Conn \cup {Listener}, in : BOOLEAN, out : BOOLEAN, hup : BOOLEAN]
      BY <2>2, <2>4, <3>1 DEF Event
    <3> QED
      BY <2>1, <3>1, <3>2, <3>3
  <2>5. \/ e = Event(Listener, TRUE, FALSE, FALSE)
        \/ /\ e.in \/ e.out \/ e.hup
           /\ \E c \in alive : e = Event(c, ReadyIn(c), ReadyOut(c), sock[c].peer # "open")
    BY DEF ReadyEvents
  <2>6. CASE /\ e.in \/ e.out \/ e.hup
             /\ \E c \in alive : e = Event(c, ReadyIn(c), ReadyOut(c), sock[c].peer # "open")
    BY <2>4, <2>6
  <2> QED
    BY <2>3, <2>5, <2>6
<1>4. PICK S \in SUBSET ReadyEvents :
        \/ batch' = S /\ NoFault
        \/ /\ \E c \in {d \in alive : "IN" \in conn[d].interest /\ ~ReadyIn(d)} :
                batch' = S \cup {Event(c, TRUE, FALSE, FALSE)}
           /\ Fault
  BY DEF EpollWait
<1>5. env' \in EnvRecord
  BY <1>1, <1>4, Counters, Counted DEF NoFault
<1>6. Windows' /\ InterestFollowsState' /\ alive' = alive /\ count' = count
  BY <1>2, SameConnections
<1>7. \A e, f \in S : e.src = f.src => e = f
  BY <1>3
<1>8. BatchInv' /\ batch' \subseteq [src : Conn \cup {Listener}, in : BOOLEAN, out : BOOLEAN, hup : BOOLEAN]
  <2>1. CASE batch' = S
    BY <1>3, <1>6, <1>7, <2>1 DEF BatchInv, BatchAlive, BatchDistinct, BatchOneWay
  <2>2. ASSUME NEW c \in alive, "IN" \in conn[c].interest, ~ReadyIn(c),
               batch' = S \cup {Event(c, TRUE, FALSE, FALSE)}
        PROVE  BatchInv' /\ batch' \subseteq [src : Conn \cup {Listener}, in : BOOLEAN, out : BOOLEAN, hup : BOOLEAN]
    <3>1. ~ReadyOut(c) /\ sock[c].peer = "open"
      BY <1>1, <2>2 DEF ReadyIn, ReadyOut, InterestFollowsState
    <3>2. \A e \in S : e.src # c
      BY <1>1, <1>3, <2>2, <3>1, ServerAssumption DEF Event
    <3> DEFINE x == Event(c, TRUE, FALSE, FALSE)
    <3>3. x.src = c /\ x.in = TRUE /\ x.out = FALSE
          /\ x \in [src : Conn \cup {Listener}, in : BOOLEAN, out : BOOLEAN, hup : BOOLEAN]
      BY <1>1 DEF Event
    <3> HIDE DEF x
    <3>4. batch' = S \cup {x}
      BY <2>2 DEF x
    <3> QED
      BY <1>1, <1>3, <1>6, <1>7, <3>2, <3>3, <3>4 DEF BatchInv, BatchAlive, BatchDistinct, BatchOneWay
  <2> QED
    BY <1>4, <2>1, <2>2
<1> QED
  BY <1>1, <1>2, <1>5, <1>6, <1>8 DEF OwnInv, OwnTypes, LoopInv, SweepLeavesNone

\* The sweep: what is behind the cursor has not expired, and stays.
LEMMA SweepStepKeeps ==
  ASSUME OwnInv, TableInv, TableInv', SweepStep
  PROVE  OwnInv'
<1> DEFINE c == connections[cursor]
<1>1. /\ pc = "sweep" /\ pc' = "sweep" /\ batch = {} /\ batch' = {}
      /\ cursor \in Nat /\ cursor < count /\ count \in Nat /\ count <= MaxCount /\ MaxCount \in Nat
      /\ UNCHANGED <<running, sinceSweep, stat, env>>
  BY TableAssumption DEF SweepStep, OwnInv, LoopInv, OwnTypes, TableInv, TableTypeOK
<1>2. BatchInv'
  BY <1>1 DEF BatchInv, BatchAlive, BatchDistinct, BatchOneWay
<1>3. CASE Close(c) /\ cursor' = cursor
  <2>1. c \in Conn /\ c \in alive /\ serving /\ count' = count - 1
    BY <1>3 DEF Close, CloseConnection, TableInv, TableTypeOK
  <2>2. /\ conn' \in [Conn -> ConnRecord] /\ sock' \in [Conn -> SockRecord]
        /\ Windows' /\ InterestFollowsState' /\ alive' = alive \ {c}
    BY <1>3, <2>1, CloseKeeps
  <2>3. SweepLeavesNone'
    <3> SUFFICES ASSUME NEW t \in 0 .. cursor - 1 PROVE ~Expired(connections[t])'
      BY <1>1, <1>3 DEF SweepLeavesNone
    <3>1. t \in InUse /\ cursor \in InUse /\ t # cursor /\ t \in Slots
      BY <1>1 DEF InUse, Slots
    <3>2. SlotsHoldLive
      BY <2>1 DEF TableInv, SlotsAgree
    <3>3. connections[t] # c /\ id[c] = cursor /\ connections[t] \in alive
      BY <3>1, <3>2 DEF SlotsHoldLive
    <3>4. connections'[t] = connections[t] /\ connections[t] \in Conn
      BY <1>3, <3>1, <3>3 DEF Close, CloseConnection, TableInv, TableTypeOK
    <3>5. conn'[connections[t]] = conn[connections[t]]
      BY <1>3, <3>3, <3>4 DEF Close, OwnInv, OwnTypes
    <3>6. ~Expired(connections[t])
      BY <1>1 DEF OwnInv, SweepLeavesNone
    <3> QED
      BY <3>4, <3>5, <3>6 DEF Expired
  <2> QED
    BY <1>1, <1>2, <1>3, <2>1, <2>2, <2>3 DEF OwnInv, OwnTypes, LoopInv
<1>4. CASE ~Expired(c) /\ cursor' = cursor + 1 /\ UNCHANGED <<tableVars, conn, sock>>
  <2>1. Windows' /\ InterestFollowsState' /\ alive' = alive /\ count' = count
    BY <1>4, SameConnections
  <2>2. SweepLeavesNone'
    <3> SUFFICES ASSUME NEW t \in 0 .. cursor PROVE ~Expired(connections[t])
      BY <1>1, <1>4 DEF SweepLeavesNone, tableVars, Expired
    <3>1. t = cursor \/ t \in 0 .. cursor - 1
      BY <1>1
    <3> QED
      BY <1>1, <1>4, <3>1 DEF OwnInv, SweepLeavesNone
  <2> QED
    BY <1>1, <1>2, <1>4, <2>1, <2>2 DEF OwnInv, OwnTypes, LoopInv
<1> QED
  BY <1>3, <1>4 DEF SweepStep, CursorAfterClose

\* The other steps of the loop move it on.
LEMMA LoopStep ==
  ASSUME OwnInv, TableInv, TableInv', Loop
  PROVE  OwnInv'
<1>1. CASE CheckRunning \/ EpollInterrupted \/ EpollFails \/ AfterBatch
  <2>1. /\ pc' \in {"wait", "exit", "top", "sweep"} /\ batch = {} /\ cursor = 0
        /\ UNCHANGED <<running, batch, cursor, sinceSweep, tableVars, conn, sock, stat>>
    BY <1>1 DEF CheckRunning, EpollInterrupted, EpollFails, AfterBatch, Goto, OwnInv, LoopInv
  <2>2. env' \in EnvRecord
    BY <1>1, Counters, Counted DEF CheckRunning, EpollInterrupted, EpollFails, AfterBatch, OwnInv
  <2>3. Windows' /\ InterestFollowsState' /\ alive' = alive /\ count' = count
    BY <2>1, SameConnections
  <2>4. BatchInv' /\ SweepLeavesNone'
    BY <2>1 DEF BatchInv, BatchAlive, BatchDistinct, BatchOneWay, SweepLeavesNone
  <2> QED
    BY <2>1, <2>2, <2>3, <2>4 DEF OwnInv, OwnTypes, LoopInv
<1>2. CASE SweepDone
  <2>1. Windows' /\ InterestFollowsState' /\ alive' = alive /\ count' = count
    BY <1>2, SameConnections DEF SweepDone
  <2>2. /\ pc' = "top" /\ sinceSweep' = 0 /\ cursor' = 0 /\ batch' = {}
        /\ UNCHANGED <<running, conn, sock, stat, env>> /\ count' \in Nat
        /\ MaxCount \in Nat /\ CleanupPeriod \in Nat
    BY <1>2, TableAssumption, ServerAssumption DEF SweepDone, OwnInv, LoopInv, TableInv, TableTypeOK
  <2> QED
    BY <2>1, <2>2 DEF OwnInv, OwnTypes, LoopInv, BatchInv, BatchAlive, BatchDistinct, BatchOneWay,
      SweepLeavesNone
<1>3. CASE Destroy
  <2>1. /\ pc' = "stopped" /\ batch' = {} /\ cursor' = 0 /\ count' = count
        /\ UNCHANGED <<running, sinceSweep, conn, sock, stat, env>>
        /\ alive' \subseteq alive
    BY <1>3 DEF Destroy, FreeManager, OwnInv, LoopInv
  <2>2. Windows' /\ InterestFollowsState'
    BY <2>1 DEF OwnInv, Windows, InterestFollowsState
  <2> QED
    BY <1>3, <2>1, <2>2 DEF Destroy, OwnInv, OwnTypes, LoopInv, BatchInv, BatchAlive, BatchDistinct,
      BatchOneWay, SweepLeavesNone
<1> QED
  BY <1>1, <1>2, <1>3, WaitStep, SweepStepKeeps DEF Loop

\* Peers touch their sockets only.
LEMMA PeerStep ==
  ASSUME OwnInv, NEW c \in Conn, BeginRequest(c) \/ Deliver(c) \/ Receive(c) \/ Leave(c)
  PROVE  OwnInv'
<1>1. OwnTypes /\ sock[c] \in SockRecord /\ sock \in [Conn -> SockRecord]
  BY DEF OwnInv, OwnTypes
<1>2. /\ sock[c].inbox \in Seq(UnitOf) /\ sock[c].todo \in Seq(UnitOf) /\ sock[c].outbox \in Seq(BOOLEAN)
      /\ sock[c].begun \in Nat /\ sock[c].answers \in Nat
      /\ <<>> \in Seq(UnitOf) /\ <<>> \in Seq(BOOLEAN) /\ Len(<<>>) = 0
  BY <1>1, EmptySeq DEF SockRecord
<1>3. UNCHANGED <<tableVars, loopVars, conn, stat>>
  BY DEF BeginRequest, Deliver, Receive, Leave
<1>4. env' \in EnvRecord
  <2>1. \A n \in Nat : [env EXCEPT !.begun = n] \in EnvRecord
    BY <1>1 DEF OwnTypes, EnvRecord
  <2>2. env.begun + 1 \in Nat /\ env \in EnvRecord
    BY <1>1 DEF OwnTypes, EnvRecord
  <2>3. env' = env \/ env' = [env EXCEPT !.begun = env.begun + 1]
    BY DEF BeginRequest, Deliver, Receive, Leave
  <2> QED
    BY <2>1, <2>2, <2>3
<1>5. SndBuf \in Nat /\ Len(sock[c].outbox) <= SndBuf
  BY ServerAssumption DEF OwnInv, Windows
<1>6. \E s \in SockRecord : sock' = [sock EXCEPT ![c] = s] /\ Len(s.outbox) <= SndBuf
  <2>1. CASE BeginRequest(c)
    <3>1. \A q \in Seq(UnitOf), n \in Nat :
            LET s == [sock[c] EXCEPT !.todo = q, !.begun = n]
            IN s \in SockRecord /\ s.outbox = sock[c].outbox
      BY <1>1 DEF SockRecord
    <3>2. sock[c].begun + 1 \in Nat
      BY <1>2
    <3>3. PICK k \in Kind :
            sock' = [sock EXCEPT ![c] = [sock[c] EXCEPT !.todo = Units(k), !.begun = sock[c].begun + 1]]
      BY <2>1 DEF BeginRequest
    <3>4. PICK s : s = [sock[c] EXCEPT !.todo = Units(k), !.begun = sock[c].begun + 1]
      OBVIOUS
    <3>5. s \in SockRecord /\ s.outbox = sock[c].outbox
      BY <3>1, <3>2, <3>3, <3>4, UnitsTyped
    <3> QED
      BY <1>5, <3>3, <3>4, <3>5
  <2>2. CASE Deliver(c)
    <3>1. PICK n \in 1 .. Len(sock[c].todo) :
            sock' = [sock EXCEPT ![c] = [sock[c] EXCEPT !.inbox = @ \o SubSeq(sock[c].todo, 1, n),
                                                        !.todo = SubSeq(@, n + 1, Len(@))]]
      BY <2>2 DEF Deliver
    <3>2. n \in 0 .. Len(sock[c].todo)
      BY <1>2, LenProperties
    <3>3. /\ SubSeq(sock[c].todo, 1, n) \in Seq(UnitOf)
          /\ SubSeq(sock[c].todo, n + 1, Len(sock[c].todo)) \in Seq(UnitOf)
      BY <1>2, <3>2, Cut
    <3>4. sock[c].inbox \o SubSeq(sock[c].todo, 1, n) \in Seq(UnitOf)
      BY <1>2, <3>3, ConcatProperties
    <3>5. \A q, r \in Seq(UnitOf) :
            LET s == [sock[c] EXCEPT !.inbox = q, !.todo = r]
            IN s \in SockRecord /\ s.outbox = sock[c].outbox
      BY <1>1 DEF SockRecord
    <3> QED
      BY <1>5, <3>1, <3>3, <3>4, <3>5
  <2>3. CASE Receive(c)
    <3>1. \A n \in Nat, b \in Seq(BOOLEAN) :
            LET s == [sock[c] EXCEPT !.answers = n, !.outbox = b]
            IN s \in SockRecord /\ s.outbox = b
      BY <1>1 DEF SockRecord
    <3>2. Ends(c) \in Nat
      <4>1. IsFiniteSet(DOMAIN sock[c].outbox)
        <5>1. DOMAIN sock[c].outbox = 1 .. Len(sock[c].outbox) /\ Len(sock[c].outbox) \in Int
          BY <1>2, LenProperties
        <5>2. IsFiniteSet(1 .. Len(sock[c].outbox))
          BY <5>1, FS_Interval
        <5> QED
          BY <5>1, <5>2
      <4> QED
        BY <4>1, FS_Subset, FS_CardinalityType DEF Ends
    <3>3. sock[c].answers + Ends(c) \in Nat
      BY <1>2, <3>2
    <3>4. sock' = [sock EXCEPT ![c] =
            [sock[c] EXCEPT !.answers = sock[c].answers + Ends(c), !.outbox = <<>>]]
      BY <1>1, <2>3 DEF Receive
    <3>5. LET s == [sock[c] EXCEPT !.answers = sock[c].answers + Ends(c), !.outbox = <<>>]
          IN s \in SockRecord /\ s.outbox = <<>>
      BY <1>2, <3>1, <3>3
    <3> DEFINE r == [sock[c] EXCEPT !.answers = sock[c].answers + Ends(c), !.outbox = <<>>]
    <3>6. r \in SockRecord /\ r.outbox = <<>>
      BY <3>5
    <3>7. Len(r.outbox) <= SndBuf
      <4>1. Len(<<>>) = 0 /\ 0 <= SndBuf
        BY <1>2, <1>5
      <4> QED
        BY <3>6, <4>1
    <3>8. sock' = [sock EXCEPT ![c] = r]
      BY <3>4
    <3> HIDE DEF r
    <3> QED
      BY <3>6, <3>7, <3>8
  <2>4. CASE Leave(c)
    <3>1. \A q \in Seq(UnitOf), p \in {"shut", "reset"} :
            LET s == [sock[c] EXCEPT !.todo = q, !.peer = p]
            IN s \in SockRecord /\ s.outbox = sock[c].outbox
      BY <1>1 DEF SockRecord
    <3>2. \A q, r \in Seq(UnitOf), p \in {"shut", "reset"} :
            LET s == [sock[c] EXCEPT !.todo = q, !.peer = p, !.inbox = r]
            IN s \in SockRecord /\ s.outbox = sock[c].outbox
      BY <1>1 DEF SockRecord
    <3>3. \E p \in {"shut", "reset"} :
            \/ sock' = [sock EXCEPT ![c] = [sock[c] EXCEPT !.todo = <<>>, !.peer = p]]
            \/ sock' = [sock EXCEPT ![c] = [sock[c] EXCEPT !.todo = <<>>, !.peer = p, !.inbox = <<>>]]
      BY <2>4 DEF Leave
    <3>4. PICK p \in {"shut", "reset"} :
            \/ sock' = [sock EXCEPT ![c] = [sock[c] EXCEPT !.todo = <<>>, !.peer = p]]
            \/ sock' = [sock EXCEPT ![c] = [sock[c] EXCEPT !.todo = <<>>, !.peer = p, !.inbox = <<>>]]
      BY <3>3
    <3>5. CASE sock' = [sock EXCEPT ![c] = [sock[c] EXCEPT !.todo = <<>>, !.peer = p]]
      <4>1. LET s == [sock[c] EXCEPT !.todo = <<>>, !.peer = p]
            IN s \in SockRecord /\ s.outbox = sock[c].outbox
        BY <1>2, <3>1
      <4> QED
        BY <1>5, <3>5, <4>1
    <3>6. CASE sock' = [sock EXCEPT ![c] = [sock[c] EXCEPT !.todo = <<>>, !.peer = p, !.inbox = <<>>]]
      <4>1. LET s == [sock[c] EXCEPT !.todo = <<>>, !.peer = p, !.inbox = <<>>]
            IN s \in SockRecord /\ s.outbox = sock[c].outbox
        BY <1>2, <3>2
      <4> QED
        BY <1>5, <3>6, <4>1
    <3> QED
      BY <3>4, <3>5, <3>6
  <2> QED
    BY <2>1, <2>2, <2>3, <2>4
<1>7. sock' \in [Conn -> SockRecord] /\ \A d \in Conn : sock'[d] = sock[d] \/ Len(sock'[d].outbox) <= SndBuf
  BY <1>1, <1>6
<1>8. Windows' /\ InterestFollowsState' /\ alive' = alive /\ count' = count
  BY <1>3, <1>7, SameConnections
<1>9. BatchInv' /\ LoopInv' /\ SweepLeavesNone'
  BY <1>3, <1>8 DEF loopVars, tableVars, OwnInv, BatchInv, BatchAlive, BatchDistinct, BatchOneWay, LoopInv,
    SweepLeavesNone, Expired
<1> QED
  BY <1>3, <1>4, <1>7, <1>8, <1>9 DEF OwnInv, OwnTypes, loopVars

\* New peers, signals, and time, which does not pass inside a sweep.
LEMMA EnvironmentStep ==
  ASSUME OwnInv, TableInv, Environment
  PROVE  OwnInv'
<1>1. CASE Connect \/ Signal
  <2>1. env' \in EnvRecord /\ running' \in BOOLEAN
        /\ UNCHANGED <<tableVars, pc, batch, cursor, sinceSweep, conn, sock, stat>>
    <3>1. [env EXCEPT !.connects = env.connects + 1, !.backlog = env.backlog + 1] \in EnvRecord
      <4>1. \A n \in Nat, a \in Int : [env EXCEPT !.connects = n, !.backlog = a] \in EnvRecord
        BY DEF OwnInv, OwnTypes, EnvRecord
      <4>2. env.connects + 1 \in Nat /\ env.backlog + 1 \in Int
        BY DEF OwnInv, OwnTypes, EnvRecord
      <4> QED
        BY <4>1, <4>2
    <3> QED
      BY <1>1, <3>1 DEF Connect, Signal, loopVars, OwnInv, OwnTypes
  <2>2. Windows' /\ InterestFollowsState' /\ alive' = alive /\ count' = count
    BY <2>1, SameConnections
  <2>3. BatchInv' /\ LoopInv' /\ SweepLeavesNone'
    BY <2>1, <2>2 DEF tableVars, OwnInv, BatchInv, BatchAlive, BatchDistinct, BatchOneWay, LoopInv,
      SweepLeavesNone, Expired
  <2> QED
    BY <2>1, <2>2, <2>3 DEF OwnInv, OwnTypes
<1>2. CASE Tick
  <2>1. /\ UNCHANGED <<pc, running, batch, cursor, tableVars, sock, stat, env>> /\ pc # "sweep"
        /\ alive' = alive /\ count' = count
    BY <1>2 DEF Tick, tableVars
  <2>2. sinceSweep' \in 0 .. CleanupPeriod
    BY <1>2, ServerAssumption DEF Tick, Least, OwnInv, OwnTypes
  <2>3. \A c \in Conn : \E a \in 0 .. AgeCap : conn'[c] = [conn[c] EXCEPT !.age = a]
    <3> SUFFICES ASSUME NEW c \in Conn PROVE \E a \in 0 .. AgeCap : conn'[c] = [conn[c] EXCEPT !.age = a]
      OBVIOUS
    <3>1. conn[c] \in ConnRecord /\ conn[c].age \in 0 .. AgeCap /\ AgeCap \in Nat
      BY FreshTyped DEF OwnInv, OwnTypes, ConnRecord
    <3>2. conn[c] = [conn[c] EXCEPT !.age = conn[c].age]
      BY <3>1 DEF ConnRecord
    <3>3. Least(conn[c].age + 1, AgeCap) \in 0 .. AgeCap
      BY <3>1 DEF Least
    <3> QED
      BY <1>2, <3>1, <3>2, <3>3 DEF Tick
  <2>4. \A c \in Conn : /\ conn'[c] \in ConnRecord
                        /\ conn'[c].state = conn[c].state /\ conn'[c].rx = conn[c].rx
                        /\ conn'[c].offset = conn[c].offset /\ conn'[c].size = conn[c].size
                        /\ conn'[c].interest = conn[c].interest
    <3> SUFFICES ASSUME NEW c \in Conn
                 PROVE  /\ conn'[c] \in ConnRecord
                        /\ conn'[c].state = conn[c].state /\ conn'[c].rx = conn[c].rx
                        /\ conn'[c].offset = conn[c].offset /\ conn'[c].size = conn[c].size
                        /\ conn'[c].interest = conn[c].interest
      OBVIOUS
    <3>1. conn[c] \in ConnRecord
      BY DEF OwnInv, OwnTypes
    <3> QED
      BY <2>3, <3>1 DEF ConnRecord
  <2>5. conn' \in [Conn -> ConnRecord]
    BY <1>2, <2>4 DEF Tick
  <2>6. Windows' /\ SweepLeavesNone'
    BY <2>1, <2>4 DEF OwnInv, Windows, SweepLeavesNone
  <2>7. InterestFollowsState'
    BY <2>1, <2>4 DEF OwnInv, InterestFollowsState, TableInv, TableTypeOK
  <2>8. BatchInv' /\ LoopInv'
    BY <2>1 DEF tableVars, OwnInv, BatchInv, BatchAlive, BatchDistinct, BatchOneWay, LoopInv
  <2> QED
    BY <2>1, <2>2, <2>5, <2>6, <2>7, <2>8 DEF OwnInv, OwnTypes
<1> QED
  BY <1>1, <1>2, PeerStep DEF Environment

-----------------------------------------------------------------------------
(* The invariant and what follows from it.                                 *)

\* A server that starts has no connections and no events.
LEMMA ServerInit == Init => ServerInv
<1> SUFFICES ASSUME Init PROVE ServerInv
  OBVIOUS
<1>1. TableInv
  BY InitEstablishes DEF Init
<1>2. MaxCount \in Nat /\ CleanupPeriod \in Nat /\ SndBuf \in Nat /\ Len(<<>>) = 0
  BY TableAssumption, ServerAssumption
<1>3. OwnTypes
  <2>1. [total |-> 0, request |-> 0, error |-> 0, response |-> 0] \in StatRecord
    BY DEF StatRecord
  <2>2. [backlog |-> 0, connects |-> 0, begun |-> 0, faults |-> 0] \in EnvRecord
    BY DEF EnvRecord
  <2> QED
    BY <1>2, <2>1, <2>2, FreshTyped DEF Init, OwnTypes
<1>4. Windows
  BY <1>2, FreshTyped DEF Init, Windows
<1>5. LoopInv /\ BatchInv /\ InterestFollowsState /\ SweepLeavesNone
  BY DEF Init, TableInit, LoopInv, BatchInv, BatchAlive, BatchDistinct, BatchOneWay,
    InterestFollowsState, SweepLeavesNone
<1> QED
  BY <1>1, <1>3, <1>4, <1>5 DEF ServerInv, OwnInv

\* Every step keeps the invariant.
LEMMA ServerStep == ServerInv /\ [Next]_vars => ServerInv'
<1> SUFFICES ASSUME ServerInv, [Next]_vars PROVE ServerInv'
  OBVIOUS
<1>1. TableInv /\ OwnInv /\ TableTypeOK /\ OwnTypes
  BY DEF ServerInv, TableInv, OwnInv
<1>2. TableInv'
  BY <1>1, TableStep, StepPreserves
<1>3. CASE Environment
  BY <1>1, <1>2, <1>3, EnvironmentStep DEF ServerInv
<1>4. CASE Loop
  BY <1>1, <1>2, <1>4, LoopStep DEF ServerInv
<1>5. ASSUME NEW e \in batch, Handler(e) PROVE ServerInv'
  BY <1>1, <1>2, <1>5, AcceptStep, GoneStep, ReadStep, WriteStep DEF Handler, ServerInv
<1>6. CASE UNCHANGED vars
  BY <1>1, <1>2, <1>6 DEF vars, tableVars, loopVars, ServerInv, OwnInv, OwnTypes, Windows, LoopInv,
    BatchInv, BatchAlive, BatchDistinct, BatchOneWay, InterestFollowsState, SweepLeavesNone, Expired
<1> QED
  BY <1>3, <1>4, <1>5, <1>6 DEF Next, Server

\* ServerInv is an invariant of the server: of the table, of the events of a batch,
\* of the sweep and of what each connection holds and is watched for.
THEOREM ServerInductive == Spec => []ServerInv
BY ServerInit, ServerStep, PTL DEF Spec

\* The variables of the server keep their types: the cursor of the sweep stays in
\* the array, and no window of a buffer is negative (server.cc, connection.cc:139-163).
THEOREM ServerTyped == Spec => []ServerTypeOK
<1>1. ServerInv => ServerTypeOK
  BY Types DEF ServerInv, TableInv, OwnInv
<1> QED
  BY <1>1, ServerInductive, PTL

\* For any number of connections and of events in a batch, and with system calls
\* failing at any time, no handler is given a connection that was freed
\* (server.cc:175-246).
THEOREM BatchNeverStale == Spec => []BatchAlive
<1>1. ServerInv => BatchAlive
  BY DEF ServerInv, OwnInv, BatchInv
<1> QED
  BY <1>1, ServerInductive, PTL

\* Every live connection is watched for what its state needs, and for nothing else
\* (server.cc:211-213, 317-319, 431-433).
THEOREM InterestCorrect == Spec => []InterestFollowsState
<1>1. ServerInv => InterestFollowsState
  BY DEF ServerInv, OwnInv
<1> QED
  BY <1>1, ServerInductive, PTL

\* Whichever connections have expired, and wherever they are in the array, the
\* sweep leaves none of them behind it (connection.cc:139-163).
THEOREM SweepComplete == Spec => []SweepLeavesNone
<1>1. ServerInv => SweepLeavesNone
  BY DEF ServerInv, OwnInv
<1> QED
  BY <1>1, ServerInductive, PTL

\* The loop changes the table of connections by the operations of connection.cc
\* alone, as those require (server.cc:175-246), so that all that is proved of the
\* table holds in the server.
THEOREM ServerUsesTable == Spec => UsesTable
<1>1. Init => TableInit
  BY DEF Init
<1>2. ServerInv /\ [Next]_vars => [TableNext]_tableVars
  BY TableStep DEF ServerInv, TableInv, OwnInv
<1> QED
  BY <1>1, <1>2, ServerInductive, PTL DEF Spec, UsesTable, TableSpec

-----------------------------------------------------------------------------
(* What passes over one connection: a request is answered once and whole, in *)
(* whatever pieces it arrives and the answer leaves, and a connection is     *)
(* closed for a cause only.                                                  *)

\* What the server has not answered: read, received, and still to be sent.
Pending(r, s) ==
  ((IF r.state \in {"READING_HEADER", "READING_BODY"} THEN r.rx ELSE <<>>) \o s.inbox) \o s.todo

\* d begins a request, and is no more than that.
PartOf(d) == \E k \in Kind : Len(d) <= Len(Units(k)) /\ \A i \in 1 .. Len(d) : d[i] = <<k, i>>

\* Answers that are complete in a buffer.
Whole(o) == Cardinality({i \in DOMAIN o : o[i]})

\* One request at a time: it is under way, or all that was asked is answered or
\* being answered.
Talk(r, s) ==
  /\ s.answers + Whole(s.outbox) = r.requests - (IF r.state = "WRITING" THEN 1 ELSE 0)
  /\ \/ r.requests = s.begun /\ Pending(r, s) = <<>>
     \/ r.requests + 1 = s.begun /\ r.state # "WRITING" /\ PartOf(Pending(r, s))
  /\ r.state = "WRITING" => r.offset < r.size
  /\ r.state = "READING_BODY" => Header(r.rx) = "ok"

\* What epoll has told is still so when the event is handled.
Told ==
  \A e \in batch : e.src # Listener =>
    /\ e.hup => sock[e.src].peer # "open"
    /\ e.in => conn[e.src].state # "WRITING"

\* A block that is free has no socket, until the server ends.
FreeFresh == serving => \A c \in Conn \ alive : sock[c] = FreshSock

Talks == \A c \in alive : Talk(conn[c], sock[c])

StreamInv == Talks /\ FreeFresh /\ Told

-----------------------------------------------------------------------------
(* Data.                                                                   *)

\* A sequence is its prefix and the rest.
LEMMA Split ==
  ASSUME NEW S, NEW s \in Seq(S), NEW n \in 0 .. Len(s)
  PROVE  SubSeq(s, 1, n) \o SubSeq(s, n + 1, Len(s)) = s
<1>1. Len(s) \in Nat
  BY LenProperties
<1>2. 1 \in 1 .. Len(s) + 1 /\ n \in 1 - 1 .. Len(s) /\ Len(s) \in n .. Len(s)
  BY <1>1
<1> QED
  BY <1>2, ConcatAdjacentSubSeq, SubSeqFull

\* The complete answers of a buffer are counted by a number.
LEMMA WholeTyped ==
  ASSUME NEW o \in Seq(BOOLEAN)
  PROVE  Whole(o) \in Nat /\ IsFiniteSet({i \in DOMAIN o : o[i]})
<1>1. DOMAIN o = 1 .. Len(o) /\ Len(o) \in Int
  BY LenProperties
<1>2. IsFiniteSet(1 .. Len(o))
  BY <1>1, FS_Interval
<1>3. {i \in DOMAIN o : o[i]} \in SUBSET (1 .. Len(o))
  BY <1>1
<1> QED
  BY <1>2, <1>3, FS_Subset, FS_CardinalityType DEF Whole

\* An empty buffer holds none.
LEMMA WholeEmpty == Whole(<<>>) = 0
<1>1. {i \in DOMAIN <<>> : <<>>[i]} = {}
  OBVIOUS
<1> QED
  BY <1>1, FS_EmptySet DEF Whole

\* A write completes an answer when it reaches its end.
LEMMA WholeWritten ==
  ASSUME NEW o \in Seq(BOOLEAN), NEW n \in Nat, NEW at \in Nat, NEW size \in Nat,
         at < size, at + n <= size
  PROVE  Whole(o \o [i \in 1 .. n |-> at + i = size]) = Whole(o) + IF at + n = size THEN 1 ELSE 0
<1> DEFINE more == [i \in 1 .. n |-> at + i = size]
           t == o \o more
           m == Len(o)
           old == {i \in DOMAIN o : o[i]}
           new == {i \in DOMAIN t : t[i]}
<1>0. more \in Seq(BOOLEAN) /\ Len(more) = n
  OBVIOUS
<1>1. \A i \in 1 .. n : more[i] <=> i = size - at
  <2>1. \A i \in 1 .. n : more[i] = (at + i = size)
    BY Zenon
  <2>2. \A i \in 1 .. n : (at + i = size) <=> i = size - at
    OBVIOUS
  <2> HIDE DEF more
  <2> QED
    BY <2>1, <2>2, Zenon
<1> HIDE DEF more
<1>2. /\ o \o more \in Seq(BOOLEAN) /\ Len(o \o more) = Len(o) + Len(more) /\ Len(o) \in Nat
      /\ \A i \in 1 .. Len(o) + Len(more) :
           (o \o more)[i] = IF i <= Len(o) THEN o[i] ELSE more[i - Len(o)]
  BY <1>0, ConcatProperties, LenProperties
<1>3. DOMAIN t = 1 .. m + n /\ DOMAIN o = 1 .. m /\ m \in Nat
  BY <1>0, <1>2, LenProperties
<1>4. \A i \in 1 .. m + n : t[i] = IF i <= m THEN o[i] ELSE more[i - m]
  BY <1>0, <1>2
<1> HIDE DEF t, m
<1>5. \A i \in 1 .. m : t[i] = o[i]
  BY <1>3, <1>4
<1>6. \A i \in m + 1 .. m + n : t[i] <=> i - m = size - at
  <2> SUFFICES ASSUME NEW i \in m + 1 .. m + n PROVE t[i] <=> i - m = size - at
    OBVIOUS
  <2>1. i - m \in 1 .. n /\ i \in 1 .. m + n /\ ~(i <= m)
    BY <1>3
  <2>2. t[i] = more[i - m]
    BY <1>4, <2>1
  <2> QED
    BY <1>1, <2>1, <2>2
<1>7. IsFiniteSet(old) /\ Cardinality(old) \in Nat /\ Whole(o) = Cardinality(old) /\ Whole(t) = Cardinality(new)
  BY WholeTyped DEF Whole
<1>8. CASE at + n = size
  <2>1. n > 0 /\ m + n \in m + 1 .. m + n
    BY <1>3, <1>8
  <2>2. t[m + n] /\ \A i \in m + 1 .. m + n : t[i] => i = m + n
    BY <1>3, <1>6, <1>8, <2>1
  <2>3. new = old \cup {m + n} /\ m + n \notin old
    <3>1. \A i \in 1 .. m + n : i \in 1 .. m \/ i \in m + 1 .. m + n
      BY <1>3
    <3>2. \A i \in 1 .. m : i \in 1 .. m + n
      BY <1>3
    <3>3. m + n \in 1 .. m + n /\ m + n \notin 1 .. m
      BY <1>3, <2>1
    <3> QED
      BY <1>3, <1>5, <2>2, <3>1, <3>2, <3>3
  <2> HIDE DEF old, new
  <2>4. Cardinality(new) = Cardinality(old) + 1
    BY <1>7, <2>3, FS_AddElement
  <2> QED
    BY <1>7, <1>8, <2>4 DEF t, more
<1>9. CASE at + n # size
  <2>1. \A i \in m + 1 .. m + n : ~t[i]
    BY <1>3, <1>6, <1>9
  <2>2. new = old
    <3>1. \A i \in 1 .. m + n : i \in 1 .. m \/ i \in m + 1 .. m + n
      BY <1>3
    <3>2. \A i \in 1 .. m : i \in 1 .. m + n
      BY <1>3
    <3> QED
      BY <1>3, <1>5, <2>1, <3>1, <3>2
  <2> HIDE DEF old, new
  <2> QED
    BY <1>7, <1>9, <2>2 DEF t, more
<1> QED
  BY <1>8, <1>9

\* The units of a request are one.
LEMMA UnitsWhole ==
  ASSUME NEW k \in Kind
  PROVE  /\ Units(k) \in Seq(UnitOf) /\ PartOf(Units(k))
         /\ Len(Units(k)) = HeaderSize + (IF BodySize[k] > 0 THEN BodySize[k] ELSE 0)
<1> DEFINE n == HeaderSize + (IF BodySize[k] > 0 THEN BodySize[k] ELSE 0)
<1>1. n \in Nat
  BY ServerAssumption
<1> HIDE DEF n
<1> DEFINE u == [j \in 1 .. n |-> <<k, j>>]
<1>2. Len(u) = n /\ \A i \in 1 .. n : u[i] = <<k, i>>
  BY <1>1
<1>3. Units(k) = u
  BY DEF Units, n
<1> HIDE DEF u
<1>4. PartOf(u)
  BY <1>1, <1>2, <1>3 DEF PartOf
<1> QED
  BY <1>2, <1>3, <1>4, UnitsTyped DEF n

\* Part of a part is part of a request.
LEMMA PartPrefix ==
  ASSUME NEW a \in Seq(UnitOf), NEW b \in Seq(UnitOf), PartOf(a \o b)
  PROVE  PartOf(a)
<1>1. PICK k \in Kind : Len(a \o b) <= Len(Units(k)) /\ \A i \in 1 .. Len(a \o b) : (a \o b)[i] = <<k, i>>
  BY DEF PartOf
<1>2. /\ Len(a) \in Nat /\ Len(b) \in Nat /\ Len(a \o b) = Len(a) + Len(b)
      /\ \A i \in 1 .. Len(a) : i \in 1 .. Len(a) + Len(b) /\ (a \o b)[i] = a[i]
  BY ConcatProperties, LenProperties
<1>3. Len(Units(k)) \in Nat
  BY UnitsWhole, LenProperties
<1>4. Len(a) <= Len(Units(k)) /\ \A i \in 1 .. Len(a) : a[i] = <<k, i>>
  BY <1>1, <1>2, <1>3
<1> QED
  BY <1>4 DEF PartOf

\* A header stays one as more arrives.
LEMMA HeaderStays ==
  ASSUME NEW a \in Seq(UnitOf), NEW b \in Seq(UnitOf), Header(a) = "ok"
  PROVE  Header(a \o b) = "ok"
<1>1. /\ Len(a) \in Nat /\ Len(b) \in Nat /\ Len(a \o b) = Len(a) + Len(b)
      /\ \A i \in 1 .. Len(a) : (a \o b)[i] = a[i]
  BY ConcatProperties, LenProperties
<1>2. HeaderSize \in Nat \ {0}
  BY ServerAssumption
<1>3. ~(Len(a) < HeaderSize)
  BY DEF Header
<1>4. /\ ~(Len(a \o b) < HeaderSize)
      /\ \A j \in 1 .. HeaderSize : (a \o b)[j] = a[j]
      /\ Request(a \o b) = Request(a)
  BY <1>1, <1>2, <1>3 DEF Request
<1> QED
  BY <1>3, <1>4 DEF Header

\* What parse_header says of part of a request.
LEMMA HeaderTells ==
  ASSUME NEW d \in Seq(UnitOf), d # <<>>, NEW k \in Kind, \A i \in 1 .. Len(d) : d[i] = <<k, i>>
  PROVE  /\ 1 \in 1 .. Len(d) /\ Request(d) = k /\ d[1][1] = k
         /\ Header(d) = "bad" => Refusable(k)
         /\ Header(d) = "ok" => Len(Units(k)) = HeaderSize + BodySize[k]
<1>1. Len(d) \in Nat \ {0}
  BY EmptySeq
<1>2. 1 \in 1 .. Len(d) /\ Request(d) = k /\ d[1][1] = k
  BY <1>1 DEF Request
<1>3. HeaderSize \in Nat \ {0} /\ BodySize[k] \in Int
  BY ServerAssumption
<1>4. ASSUME Header(d) = "bad" PROVE Refusable(k)
  <2>1. ~(Len(d) < HeaderSize)
    BY <1>4 DEF Header
  <2>2. \A j \in 1 .. HeaderSize : d[j] = <<k, j>>
    BY <1>1, <1>3, <2>1
  <2>3. ~(Magic[k] /\ BodySize[k] >= 0 /\ BodySize[k] + HeaderSize <= MaxRecv)
    BY <1>2, <1>4, <2>1, <2>2 DEF Header
  <2> QED
    BY <1>3, <2>3, ServerAssumption DEF Refusable
<1>5. ASSUME Header(d) = "ok" PROVE Len(Units(k)) = HeaderSize + BodySize[k]
  <2>1. BodySize[k] >= 0
    BY <1>2, <1>5 DEF Header
  <2> QED
    BY <1>3, <2>1, UnitsWhole
<1> QED
  BY <1>2, <1>4, <1>5

-----------------------------------------------------------------------------
(* One connection: what its handlers leave of it.                          *)

Rest(c) == SubSeq(sock[c].inbox, Len(Readable(c)) + 1, Len(sock[c].inbox))

\* A read moves units, and loses none.
LEMMA NoneLost ==
  ASSUME OwnTypes, Windows, NEW c \in Conn, conn[c].state # "WRITING"
  PROVE  /\ RxOnRead(c) \in Seq(UnitOf) /\ Rest(c) \in Seq(UnitOf) /\ sock[c].todo \in Seq(UnitOf)
         /\ (RxOnRead(c) \o Rest(c)) \o sock[c].todo = Pending(conn[c], sock[c])
<1> DEFINE a == IF Starts(c) THEN <<>> ELSE conn[c].rx
           n == Least(Len(sock[c].inbox), BufferSize)
<1>1. /\ conn[c].state \in States /\ conn[c].rx \in Seq(UnitOf)
      /\ sock[c].inbox \in Seq(UnitOf) /\ sock[c].todo \in Seq(UnitOf)
  BY DEF OwnTypes, ConnRecord, SockRecord
<1>2. RxOnRead(c) \in Seq(UnitOf) /\ Rest(c) \in Seq(UnitOf)
  BY ReadTyped DEF Rest
<1>3. a \in Seq(UnitOf) /\ RxOnRead(c) = a \o Readable(c)
  BY <1>1, EmptySeq DEF RxOnRead
<1>4. Pending(conn[c], sock[c]) = (a \o sock[c].inbox) \o sock[c].todo
  BY <1>1 DEF Pending, Starts, States
<1>5. n \in 0 .. Len(sock[c].inbox)
  BY <1>1, LenProperties, ServerAssumption DEF Least
<1> HIDE DEF a, n
<1>6. Readable(c) = SubSeq(sock[c].inbox, 1, n) /\ Readable(c) \in Seq(UnitOf) /\ Len(Readable(c)) = n
  BY <1>1, <1>5, Cut DEF Readable, n
<1>7. Readable(c) \o Rest(c) = sock[c].inbox
  BY <1>1, <1>5, <1>6, Split DEF Rest
<1>8. (a \o Readable(c)) \o Rest(c) = a \o (Readable(c) \o Rest(c))
  <2>1. ASSUME NEW u \in Seq(UnitOf), NEW v \in Seq(UnitOf), NEW w \in Seq(UnitOf)
        PROVE  (u \o v) \o w = u \o (v \o w)
    OBVIOUS
  <2> QED
    BY <1>2, <1>3, <1>6, <2>1
<1> QED
  BY <1>1, <1>2, <1>3, <1>4, <1>7, <1>8

\* While the body is read, the header is one.
LEMMA BodyAfterHeader ==
  ASSUME OwnTypes, Windows, NEW c \in Conn, Talk(conn[c], sock[c]), StateParsed(c) = "READING_BODY"
  PROVE  Header(RxOnRead(c)) = "ok"
<1>1. CASE Parses(c)
  BY <1>1 DEF StateParsed
<1>2. CASE ~Parses(c)
  <2>1. conn[c].state = "READING_BODY" /\ Header(conn[c].rx) = "ok"
    BY <1>2 DEF StateParsed, Talk
  <2>2. conn[c].rx \in Seq(UnitOf) /\ sock[c].inbox \in Seq(UnitOf)
    BY DEF OwnTypes, ConnRecord, SockRecord
  <2>3. Readable(c) \in Seq(UnitOf)
    <3>1. Least(Len(sock[c].inbox), BufferSize) \in 0 .. Len(sock[c].inbox)
      BY <2>2, LenProperties, ServerAssumption DEF Least
    <3> QED
      BY <2>2, <3>1, Cut DEF Readable
  <2>4. RxOnRead(c) = conn[c].rx \o Readable(c)
    BY <2>1 DEF RxOnRead, Starts
  <2> QED
    BY <2>1, <2>2, <2>3, <2>4, HeaderStays
<1> QED
  BY <1>1, <1>2

\* What is read is part of a request that is under way, or nothing.
LEMMA ReadIsPart ==
  ASSUME OwnTypes, Windows, NEW c \in Conn, conn[c].state # "WRITING",
         Talk(conn[c], sock[c]), RxOnRead(c) # <<>>
  PROVE  /\ conn[c].requests + 1 = sock[c].begun /\ PartOf(Pending(conn[c], sock[c]))
         /\ PartOf(RxOnRead(c))
<1> DEFINE x == RxOnRead(c)
           y == Rest(c)
           z == sock[c].todo
<1>1. /\ x \in Seq(UnitOf) /\ y \in Seq(UnitOf) /\ z \in Seq(UnitOf) /\ x \o y \in Seq(UnitOf)
      /\ (x \o y) \o z = Pending(conn[c], sock[c])
  BY NoneLost, ConcatProperties
<1>2. x # <<>>
  OBVIOUS
<1> HIDE DEF x, y, z
<1>3. (x \o y) \o z # <<>>
  BY <1>1, <1>2, ConcatEqualIffEmpty
<1>4. conn[c].requests + 1 = sock[c].begun /\ PartOf((x \o y) \o z)
  BY <1>1, <1>3 DEF Talk
<1>5. PartOf(x)
  BY <1>1, <1>4, PartPrefix
<1> QED
  BY <1>1, <1>4, <1>5 DEF x

\* A complete request is all that was sent.
LEMMA NothingBehind ==
  ASSUME OwnTypes, Windows, NEW c \in Conn, conn[c].state # "WRITING",
         Talk(conn[c], sock[c]), RequestComplete(c)
  PROVE  /\ conn[c].requests + 1 = sock[c].begun
         /\ Rest(c) = <<>> /\ sock[c].todo = <<>>
<1> DEFINE x == RxOnRead(c)
           y == Rest(c)
           z == sock[c].todo
<1>1. /\ x \in Seq(UnitOf) /\ y \in Seq(UnitOf) /\ z \in Seq(UnitOf) /\ x \o y \in Seq(UnitOf)
      /\ (x \o y) \o z = Pending(conn[c], sock[c])
  BY NoneLost, ConcatProperties
<1>2. StateParsed(c) = "READING_BODY" /\ Len(x) >= HeaderSize + BodySize[Request(x)]
  BY DEF RequestComplete
<1>3. Header(x) = "ok" /\ x # <<>>
  BY <1>2, BodyAfterHeader, ReadTyped
<1>4. conn[c].requests + 1 = sock[c].begun /\ PartOf((x \o y) \o z)
  BY <1>1, <1>3, ReadIsPart
<1> HIDE DEF x, y, z
<1> DEFINE w == (x \o y) \o z
<1>5. /\ Len(x) \in Nat /\ Len(y) \in Nat /\ Len(z) \in Nat
      /\ Len(x \o y) = Len(x) + Len(y) /\ \A i \in 1 .. Len(x) + Len(y) : i <= Len(x) => (x \o y)[i] = x[i]
      /\ w \in Seq(UnitOf) /\ Len(w) = Len(x \o y) + Len(z)
      /\ \A i \in 1 .. Len(x \o y) + Len(z) : i <= Len(x \o y) => w[i] = (x \o y)[i]
  BY <1>1, ConcatProperties, LenProperties
<1> HIDE DEF w
<1>6. PICK k \in Kind : Len(w) <= Len(Units(k)) /\ \A i \in 1 .. Len(w) : w[i] = <<k, i>>
  BY <1>4 DEF PartOf, w
<1>7. \A i \in 1 .. Len(x) : x[i] = <<k, i>>
  BY <1>5, <1>6
<1>8. Request(x) = k /\ Len(Units(k)) = HeaderSize + BodySize[k]
  BY <1>1, <1>3, <1>7, HeaderTells
<1>9. BodySize[k] \in Int /\ HeaderSize \in Int
  BY ServerAssumption
<1>10. Len(y) = 0 /\ Len(z) = 0
  BY <1>2, <1>5, <1>6, <1>8, <1>9
<1>11. y = <<>> /\ z = <<>>
  BY <1>1, <1>10, EmptySeq
<1> QED
  BY <1>4, <1>11 DEF y, z

\* A refused header, or a request that is not handled, is one the server must refuse.
LEMMA RefusedForCause ==
  ASSUME OwnTypes, Windows, NEW c \in Conn, conn[c].state # "WRITING", Talk(conn[c], sock[c]),
         \/ Header(RxOnRead(c)) = "bad"
         \/ RequestComplete(c) /\ ~Handled[Request(RxOnRead(c))]
  PROVE  \E i \in 1 .. Len(RxOnRead(c)) : Refusable(RxOnRead(c)[i][1])
<1> DEFINE x == RxOnRead(c)
<1>1. x \in Seq(UnitOf) /\ Len(x) \in Nat
  BY NoneLost, LenProperties
<1>2. x # <<>>
  <2>1. CASE Header(x) = "bad"
    <3>1. ~(Len(x) < HeaderSize)
      BY <2>1 DEF Header
    <3> QED
      BY <1>1, <3>1, EmptySeq, ServerAssumption
  <2>2. CASE RequestComplete(c)
    BY <2>2, ReadTyped DEF RequestComplete
  <2> QED
    BY <2>1, <2>2
<1>3. PICK k \in Kind : \A i \in 1 .. Len(x) : x[i] = <<k, i>>
  BY <1>2, ReadIsPart DEF PartOf
<1>4. /\ 1 \in 1 .. Len(x) /\ Request(x) = k /\ x[1][1] = k
      /\ Header(x) = "bad" => Refusable(k)
  BY <1>1, <1>2, <1>3, HeaderTells
<1>5. ~Handled[k] => Refusable(k)
  BY DEF Refusable
<1> QED
  BY <1>4, <1>5

\* A connection that goes on reading.
LEMMA ReadingTalk ==
  ASSUME OwnTypes, Windows, NEW c \in Conn, conn[c].state # "WRITING", Talk(conn[c], sock[c]),
         NEW s, s = [sock[c] EXCEPT !.inbox = Rest(c)]
  PROVE  Talk(Consume(c), s)
<1> DEFINE r == Consume(c)
<1>1. conn[c] \in ConnRecord /\ sock[c] \in SockRecord
  BY DEF OwnTypes
<1>2. r.state = StateParsed(c) /\ r.rx = RxOnRead(c) /\ r.requests = conn[c].requests
  BY <1>1 DEF Consume, ConnRecord
<1>3. /\ s.inbox = Rest(c) /\ s.todo = sock[c].todo /\ s.outbox = sock[c].outbox
      /\ s.begun = sock[c].begun /\ s.answers = sock[c].answers
  BY <1>1 DEF SockRecord
<1>4. StateParsed(c) \in {"READING_HEADER", "READING_BODY"}
  BY <1>1 DEF StateParsed, Parses, ConnRecord, States
<1>5. r.state = "READING_BODY" => Header(r.rx) = "ok"
  BY <1>2, BodyAfterHeader
<1> HIDE DEF r
<1>6. Pending(r, s) = Pending(conn[c], sock[c])
  BY <1>2, <1>3, <1>4, NoneLost DEF Pending
<1> QED
  BY <1>2, <1>3, <1>4, <1>5, <1>6 DEF Talk, r

\* What Respond changes.
LEMMA Responded ==
  ASSUME NEW q \in ConnRecord, NEW k, RespSize[k] \in Nat \ {0}
  PROVE  LET r == Respond(q, k)
         IN  r.state = "WRITING" /\ r.requests = q.requests + 1 /\ r.offset = 0 /\ r.offset < r.size
<1> DEFINE a == [q EXCEPT !.requests = q.requests + 1, !.state = "WRITING"]
           b == [a EXCEPT !.size = RespSize[k], !.interest = WatchOut]
           r == [b EXCEPT !.offset = 0]
<1>1. /\ a.state = "WRITING" /\ a.requests = q.requests + 1
      /\ DOMAIN a = {"state", "rx", "size", "offset", "requests", "age", "interest"}
  BY DEF ConnRecord
<1>2. r = Respond(q, k)
  BY DEF Respond
<1> HIDE DEF a
<1>3. /\ b.state = "WRITING" /\ b.requests = q.requests + 1 /\ b.size = RespSize[k]
      /\ DOMAIN b = {"state", "rx", "size", "offset", "requests", "age", "interest"}
  BY <1>1
<1> HIDE DEF b
<1>4. r.state = "WRITING" /\ r.requests = q.requests + 1 /\ r.size = RespSize[k] /\ r.offset = 0
  BY <1>3
<1> HIDE DEF r
<1> QED
  BY <1>2, <1>4

\* A connection whose request is complete.
LEMMA AnsweringTalk ==
  ASSUME OwnTypes, Windows, NEW c \in Conn, conn[c].state # "WRITING", Talk(conn[c], sock[c]),
         RequestComplete(c), NEW s, s = [sock[c] EXCEPT !.inbox = Rest(c)]
  PROVE  Talk(Respond(Consume(c), Request(RxOnRead(c))), s)
<1> DEFINE k == Request(RxOnRead(c))
           q == Consume(c)
           r == Respond(q, k)
<1>1. conn[c] \in ConnRecord /\ sock[c] \in SockRecord /\ q \in ConnRecord
  BY ReadTyped DEF OwnTypes
<1>2. q.requests = conn[c].requests
  BY <1>1 DEF Consume, ConnRecord
<1>3. /\ s.inbox = Rest(c) /\ s.todo = sock[c].todo /\ s.outbox = sock[c].outbox
      /\ s.begun = sock[c].begun /\ s.answers = sock[c].answers
  BY <1>1 DEF SockRecord
<1>4. RespSize[k] \in Nat \ {0}
  BY KindKnown, ServerAssumption
<1> HIDE DEF q, k
<1>5. r.state = "WRITING" /\ r.requests = q.requests + 1 /\ r.offset < r.size
  BY <1>1, <1>4, Responded
<1> HIDE DEF r
<1>6. conn[c].requests + 1 = sock[c].begun /\ Rest(c) = <<>> /\ sock[c].todo = <<>>
  BY NothingBehind
<1>7. Pending(r, s) = <<>>
  BY <1>3, <1>5, <1>6 DEF Pending
<1>8. sock[c].answers + Whole(sock[c].outbox) = conn[c].requests /\ conn[c].requests \in Nat
  <2>1. conn[c].requests - 0 = conn[c].requests /\ conn[c].requests \in Nat
    BY <1>1 DEF ConnRecord
  <2> QED
    BY <2>1 DEF Talk
<1>9. Talk(r, s)
  <2>1. s.answers + Whole(s.outbox) = r.requests - 1
    BY <1>2, <1>3, <1>5, <1>8
  <2>2. r.requests = s.begun
    BY <1>2, <1>3, <1>5, <1>6
  <2> QED
    BY <1>5, <1>7, <2>1, <2>2 DEF Talk
<1> QED
  BY <1>9 DEF r, q, k

\* A write: the answer is complete in the buffer exactly when it is written whole.
LEMMA WritingTalk ==
  ASSUME OwnTypes, Windows, NEW c \in Conn, conn[c].state = "WRITING", Talk(conn[c], sock[c]),
         NEW s, s = [sock[c] EXCEPT !.outbox =
                       @ \o [i \in 1 .. Written(c) |-> conn[c].offset + i = conn[c].size]]
  PROVE  /\ Offset(c) < conn[c].size => Talk(Sent(c), s)
         /\ Offset(c) >= conn[c].size => Talk([Sent(c) EXCEPT !.state = "IDLE", !.interest = WatchIn], s)
<1> DEFINE o == sock[c].outbox
           n == Written(c)
           at == conn[c].offset
           size == conn[c].size
           t == o \o [i \in 1 .. n |-> at + i = size]
           r == Sent(c)
           e == [r EXCEPT !.state = "IDLE", !.interest = WatchIn]
<1>1. conn[c] \in ConnRecord /\ sock[c] \in SockRecord
  BY DEF OwnTypes
<1>2. o \in Seq(BOOLEAN) /\ at \in Nat /\ size \in Nat /\ at < size /\ Len(o) <= SndBuf /\ Len(o) \in Nat
  BY <1>1, LenProperties DEF ConnRecord, SockRecord, Windows, Talk
<1>3. n \in Nat /\ Offset(c) = at + n /\ at + n <= size
  <2>0. \A i, j \in Nat : i <= j => j - i \in Nat
    OBVIOUS
  <2> HIDE DEF o, n, at, size, t, r, e
  <2>3. SndBuf \in Nat /\ BufferSize \in Nat
    BY ServerAssumption
  <2>1. SndBuf - Len(o) \in Nat /\ size - at \in Nat /\ BufferSize \in Nat
    BY <1>2, <2>0, <2>3
  <2> USE DEF o, n, at, size, t, r, e
  <2>2. n \in Nat
    BY <2>1 DEF Written, Least
  <2> QED
    BY <2>2, WriteTyped DEF Offset
<1>4. /\ s.outbox = t /\ s.inbox = sock[c].inbox /\ s.todo = sock[c].todo
      /\ s.begun = sock[c].begun /\ s.answers = sock[c].answers
  BY <1>1 DEF SockRecord
<1>5. /\ r.state = "WRITING" /\ r.requests = conn[c].requests /\ r.offset = at + n /\ r.size = size
      /\ DOMAIN r = {"state", "rx", "size", "offset", "requests", "age", "interest"}
  <2>1. conn[c].state = "WRITING"
    OBVIOUS
  <2> QED
    BY <1>1, <1>3, <2>1 DEF Sent, ConnRecord
<1> HIDE DEF r
<1>6. e.state = "IDLE" /\ e.requests = conn[c].requests
  BY <1>5
<1> HIDE DEF e, o, at, size, n
<1>7. Whole(t) = Whole(o) + IF at + n = size THEN 1 ELSE 0
  BY <1>2, <1>3, WholeWritten
<1> HIDE DEF t
<1>8. /\ sock[c].answers + Whole(o) = conn[c].requests - 1
      /\ conn[c].requests = sock[c].begun
      /\ Pending(conn[c], sock[c]) = <<>>
  BY DEF Talk, o
<1>9. sock[c].answers \in Nat /\ Whole(o) \in Nat /\ conn[c].requests \in Nat
  BY <1>1, <1>2, WholeTyped DEF SockRecord, ConnRecord
<1>10. Pending(r, s) = <<>> /\ Pending(e, s) = <<>>
  BY <1>4, <1>5, <1>6, <1>8 DEF Pending
<1>11. ASSUME at + n < size PROVE Talk(r, s)
  <2>1. s.answers + Whole(s.outbox) = r.requests - 1
    <3>1. Whole(t) = Whole(o)
      BY <1>2, <1>3, <1>7, <1>9, <1>11
    <3> QED
      BY <1>4, <1>5, <1>8, <3>1, Zenon
  <2> QED
    BY <1>4, <1>5, <1>8, <1>10, <1>11, <2>1 DEF Talk
<1>12. ASSUME at + n >= size PROVE Talk(e, s)
  <2>1. at + n = size
    BY <1>2, <1>3, <1>12
  <2>2. s.answers + Whole(s.outbox) = e.requests - 0
    <3>1. Whole(t) = Whole(o) + 1
      BY <1>7, <2>1, Zenon
    <3>2. \A m, i, j \in Nat : m + i = j - 1 => m + (i + 1) = j - 0
      OBVIOUS
    <3>3. sock[c].answers + (Whole(o) + 1) = conn[c].requests - 0
      BY <1>8, <1>9, <3>2
    <3> QED
      BY <1>4, <1>6, <3>1, <3>3, Zenon
  <2> QED
    BY <1>4, <1>6, <1>8, <1>10, <2>2 DEF Talk
<1> QED
  BY <1>3, <1>11, <1>12 DEF r, e, size

\* Bytes that move from one place to the next stay in their order.
Followed(u, v) == u \o v

LEMMA Regrouped ==
  ASSUME NEW t \in Seq(UnitOf), NEW u \in Seq(UnitOf), NEW v \in Seq(UnitOf), NEW w \in Seq(UnitOf)
  PROVE  Followed(Followed(t, Followed(u, v)), w) = Followed(Followed(t, u), Followed(v, w))
<1>1. \A b \in Seq(UnitOf), c \in Seq(UnitOf) : Followed(b, c) \in Seq(UnitOf)
  BY ConcatProperties DEF Followed
<1>2. ASSUME NEW b \in Seq(UnitOf), NEW c \in Seq(UnitOf), NEW d \in Seq(UnitOf)
      PROVE  Followed(Followed(b, c), d) = Followed(b, Followed(c, d))
  <2>1. (b \o c) \o d = b \o (c \o d)
    OBVIOUS
  <2> QED
    BY <2>1 DEF Followed
<1> QED
  BY <1>1, <1>2

\* What is used of sequences that follow each other.
LEMMA Joined ==
  ASSUME NEW u \in Seq(UnitOf), NEW v \in Seq(UnitOf)
  PROVE  /\ u \o v \in Seq(UnitOf)
         /\ u \o <<>> = u /\ <<>> \o u = u
         /\ u \o v = <<>> => u = <<>> /\ v = <<>>
<1>1. u \o v \in Seq(UnitOf)
  BY ConcatProperties
<1>2. u \o <<>> = u /\ <<>> \o u = u
  BY ConcatEmptySeq
<1>3. u \o v = <<>> => u = <<>> /\ v = <<>>
  BY ConcatEqualIffEmpty
<1> QED
  BY <1>1, <1>2, <1>3

\* A new connection has nothing under way.
LEMMA FreshTalk ==
  ASSUME NEW i
  PROVE  Talk([FreshConn EXCEPT !.interest = i], FreshSock)
<1> DEFINE r == [FreshConn EXCEPT !.interest = i]
<1>1. r.state = "IDLE" /\ r.requests = 0
  BY DEF FreshConn
<1>2. /\ FreshSock.inbox = <<>> /\ FreshSock.todo = <<>> /\ FreshSock.outbox = <<>>
      /\ FreshSock.begun = 0 /\ FreshSock.answers = 0
  BY DEF FreshSock
<1> HIDE DEF r
<1>3. (<<>> \o <<>>) \o <<>> = <<>>
  OBVIOUS
<1>4. Pending(r, FreshSock) = <<>>
  BY <1>1, <1>2, <1>3 DEF Pending
<1>5. FreshSock.answers + Whole(FreshSock.outbox) = r.requests - 0
  BY <1>1, <1>2, WholeEmpty
<1>6. Talk(r, FreshSock)
  BY <1>1, <1>2, <1>4, <1>5 DEF Talk
<1> QED
  BY <1>6 DEF r

\* What the peer does is part of the same talk: it asks again only when it has
\* its answer, and what it takes away when it leaves is the end of its request.
LEMMA PeerTalk ==
  ASSUME OwnTypes, NEW c \in Conn, Talk(conn[c], sock[c]),
         BeginRequest(c) \/ Deliver(c) \/ Receive(c) \/ Leave(c)
  PROVE  \E s \in SockRecord : /\ sock' = [sock EXCEPT ![c] = s]
                               /\ Talk(conn[c], s)
                               /\ s.peer = sock[c].peer \/ s.peer # "open"
<1> DEFINE r == conn[c]
           p == sock[c]
           a == IF r.state \in {"READING_HEADER", "READING_BODY"} THEN r.rx ELSE <<>>
<1>1. r \in ConnRecord /\ p \in SockRecord
  BY DEF OwnTypes
<1>2. /\ p.inbox \in Seq(UnitOf) /\ p.todo \in Seq(UnitOf) /\ p.outbox \in Seq(BOOLEAN)
      /\ p.begun \in Nat /\ p.answers \in Nat /\ r.requests \in Nat /\ a \in Seq(UnitOf)
      /\ Len(p.todo) \in Nat /\ p.inbox \o p.todo \in Seq(UnitOf) /\ a \o p.inbox \in Seq(UnitOf)
  BY <1>1, EmptySeq, LenProperties, ConcatProperties DEF ConnRecord, SockRecord
<1>3. Whole(p.outbox) \in Nat
  BY <1>2, WholeTyped
<1>4. Talk(r, p)
  OBVIOUS
<1>5. \A s : Pending(r, s) = (a \o s.inbox) \o s.todo
  BY DEF Pending
<1> HIDE DEF r, p, a
<1>6. CASE BeginRequest(c)
  <2>1. PICK k \in Kind : sock' = [sock EXCEPT ![c] = [p EXCEPT !.todo = Units(k), !.begun = p.begun + 1]]
    BY <1>6 DEF BeginRequest, p
  <2>2. p.todo = <<>> /\ p.answers = p.begun
    BY <1>6 DEF BeginRequest, p
  <2>3. Units(k) \in Seq(UnitOf) /\ PartOf(Units(k))
    BY UnitsWhole
  <2>4. PICK s : s = [p EXCEPT !.todo = Units(k), !.begun = p.begun + 1]
    OBVIOUS
  <2>5. /\ s \in SockRecord /\ s.todo = Units(k) /\ s.begun = p.begun + 1 /\ s.inbox = p.inbox
        /\ s.outbox = p.outbox /\ s.answers = p.answers /\ s.peer = p.peer
    <3>1. \A q \in Seq(UnitOf), n \in Nat :
            LET t == [p EXCEPT !.todo = q, !.begun = n]
            IN /\ t \in SockRecord /\ t.todo = q /\ t.begun = n /\ t.inbox = p.inbox
               /\ t.outbox = p.outbox /\ t.answers = p.answers /\ t.peer = p.peer
      BY <1>1 DEF SockRecord
    <3>2. p.begun + 1 \in Nat
      BY <1>2
    <3> QED
      BY <2>3, <2>4, <3>1, <3>2
  <2>6. r.requests = p.begun /\ Pending(r, p) = <<>> /\ r.state # "WRITING"
    BY <1>2, <1>3, <1>4, <2>2 DEF Talk
  <2>7. a \o p.inbox = <<>>
    <3>1. (a \o p.inbox) \o p.todo = <<>>
      BY <1>5, <2>6
    <3> QED
      BY <1>2, <3>1, Joined
  <2>8. Pending(r, s) = Units(k)
    <3>1. <<>> \o Units(k) = Units(k)
      BY <2>3, Joined
    <3> QED
      BY <1>5, <2>5, <2>7, <3>1
  <2>9. s.answers + Whole(s.outbox) = r.requests - (IF r.state = "WRITING" THEN 1 ELSE 0)
    BY <1>4, <2>5 DEF Talk
  <2>10. Talk(r, s)
    BY <1>4, <2>3, <2>5, <2>6, <2>8, <2>9 DEF Talk
  <2> QED
    BY <2>1, <2>4, <2>5, <2>10 DEF p, r
<1>7. CASE Deliver(c)
  <2>1. PICK n \in 1 .. Len(p.todo) :
          sock' = [sock EXCEPT ![c] = [p EXCEPT !.inbox = p.inbox \o SubSeq(p.todo, 1, n),
                                                !.todo = SubSeq(p.todo, n + 1, Len(p.todo))]]
    BY <1>7 DEF Deliver, p
  <2>2. PICK x, y : x = SubSeq(p.todo, 1, n) /\ y = SubSeq(p.todo, n + 1, Len(p.todo))
    OBVIOUS
  <2>3. n \in 0 .. Len(p.todo)
    BY <1>2
  <2>4. x \in Seq(UnitOf) /\ y \in Seq(UnitOf) /\ x \o y = p.todo /\ p.inbox \o x \in Seq(UnitOf)
    BY <1>2, <2>2, <2>3, Cut, Split, ConcatProperties
  <2>5. PICK s : s = [p EXCEPT !.inbox = p.inbox \o x, !.todo = y]
    OBVIOUS
  <2>6. /\ s \in SockRecord /\ s.todo = y /\ s.begun = p.begun /\ s.inbox = p.inbox \o x
        /\ s.outbox = p.outbox /\ s.answers = p.answers /\ s.peer = p.peer
    BY <1>1, <1>2, <2>4, <2>5 DEF SockRecord
  <2>7. (a \o (p.inbox \o x)) \o y = (a \o p.inbox) \o p.todo
    <3>1. a \in Seq(UnitOf) /\ p.inbox \in Seq(UnitOf) /\ x \in Seq(UnitOf) /\ y \in Seq(UnitOf)
      BY <1>2, <2>4
    <3>2. Followed(Followed(a, Followed(p.inbox, x)), y) = Followed(Followed(a, p.inbox), Followed(x, y))
      BY <3>1, Regrouped
    <3> QED
      BY <2>4, <3>2 DEF Followed
  <2>8. Pending(r, s) = Pending(r, p)
    BY <1>5, <2>6, <2>7
  <2>9. Talk(r, s)
    BY <1>4, <2>6, <2>8 DEF Talk
  <2> QED
    BY <2>1, <2>2, <2>5, <2>6, <2>9 DEF p, r
<1>8. CASE Receive(c)
  <2>1. sock' = [sock EXCEPT ![c] = [p EXCEPT !.answers = p.answers + Whole(p.outbox), !.outbox = <<>>]]
    BY <1>8 DEF Receive, Ends, Whole, p
  <2>2. PICK s : s = [p EXCEPT !.answers = p.answers + Whole(p.outbox), !.outbox = <<>>]
    OBVIOUS
  <2>3. p.answers + Whole(p.outbox) \in Nat /\ <<>> \in Seq(BOOLEAN)
    BY <1>2, <1>3, EmptySeq
  <2>4. \A n \in Nat, o \in Seq(BOOLEAN) :
          LET t == [p EXCEPT !.answers = n, !.outbox = o]
          IN /\ t \in SockRecord /\ t.todo = p.todo /\ t.begun = p.begun /\ t.inbox = p.inbox
             /\ t.outbox = o /\ t.answers = n /\ t.peer = p.peer
    BY <1>1 DEF SockRecord
  <2>5. /\ s \in SockRecord /\ s.todo = p.todo /\ s.begun = p.begun /\ s.inbox = p.inbox
        /\ s.outbox = <<>> /\ s.answers = p.answers + Whole(p.outbox) /\ s.peer = p.peer
    BY ZenonT(30), <2>2, <2>3, <2>4
  <2>6. s.answers + Whole(s.outbox) = p.answers + Whole(p.outbox)
    BY <2>3, <2>5, WholeEmpty
  <2>7. Pending(r, s) = Pending(r, p)
    BY <1>5, <2>5
  <2>8. Talk(r, s)
    BY <1>4, <2>5, <2>6, <2>7 DEF Talk
  <2> QED
    BY <2>1, <2>2, <2>5, <2>8 DEF p, r
<1>9. CASE Leave(c)
  <2>1. PICK in \in {p.inbox, <<>>}, w \in {"shut", "reset"} :
          sock' = [sock EXCEPT ![c] = [p EXCEPT !.todo = <<>>, !.peer = w, !.inbox = in]]
    <3>1. CASE sock' = [sock EXCEPT ![c] = [p EXCEPT !.todo = <<>>, !.peer = "shut"]]
      <4>1. [p EXCEPT !.todo = <<>>, !.peer = "shut"]
              = [p EXCEPT !.todo = <<>>, !.peer = "shut", !.inbox = p.inbox]
        BY <1>1 DEF SockRecord
      <4> QED
        BY <3>1, <4>1
    <3>2. CASE sock' = [sock EXCEPT ![c] = [p EXCEPT !.todo = <<>>, !.peer = "reset", !.inbox = <<>>]]
      BY <3>2
    <3> QED
      BY <1>9, <3>1, <3>2 DEF Leave, p
  <2>2. in \in Seq(UnitOf) /\ <<>> \in Seq(UnitOf)
    BY <1>2, <2>1, EmptySeq
  <2>3. PICK s : s = [p EXCEPT !.todo = <<>>, !.peer = w, !.inbox = in]
    OBVIOUS
  <2>4. /\ s \in SockRecord /\ s.todo = <<>> /\ s.begun = p.begun /\ s.inbox = in
        /\ s.outbox = p.outbox /\ s.answers = p.answers /\ s.peer # "open"
    BY <1>1, <2>1, <2>2, <2>3 DEF SockRecord
  <2>5. a \o in \in Seq(UnitOf) /\ Pending(r, s) = a \o in
    <3>1. a \o in \in Seq(UnitOf)
      BY <1>2, <2>2, Joined
    <3>2. (a \o in) \o <<>> = a \o in
      BY <3>1, Joined
    <3> QED
      BY <1>5, <2>4, <3>1, <3>2
  <2>6. ASSUME Pending(r, p) = <<>> PROVE a \o in = <<>>
    <3>1. (a \o p.inbox) \o p.todo = <<>>
      BY <1>5, <2>6
    <3>2. a \o p.inbox = <<>>
      BY <1>2, <3>1, Joined
    <3>3. a = <<>> /\ p.inbox = <<>>
      BY <1>2, <3>2, Joined
    <3> QED
      BY <2>1, <3>2, <3>3
  <2>7. ASSUME PartOf(Pending(r, p)) PROVE PartOf(a \o in)
    <3>1. PartOf(a \o p.inbox)
      BY <1>2, <1>5, <2>7, PartPrefix
    <3>2. PartOf(a)
      BY <1>2, <3>1, PartPrefix
    <3>3. a \o <<>> = a
      BY <1>2, Joined
    <3> QED
      BY <2>1, <3>1, <3>2, <3>3
  <2>8. Talk(r, s)
    BY <1>4, <2>4, <2>5, <2>6, <2>7 DEF Talk
  <2> QED
    BY <2>1, <2>3, <2>4, <2>8 DEF p, r
<1> QED
  BY <1>6, <1>7, <1>8, <1>9

-----------------------------------------------------------------------------
(* Every step.                                                             *)

\* A connection that is freed takes its talk along.
LEMMA CloseTalk ==
  ASSUME ServerInv, StreamInv, NEW c \in Conn, Close(c)
  PROVE  Talks' /\ FreeFresh' /\ \A d \in Conn \ {c} : conn'[d] = conn[d] /\ sock'[d] = sock[d]
<1>1. alive' = alive \ {c} /\ serving' = serving /\ alive \subseteq Conn
  BY DEF Close, CloseConnection, ServerInv, TableInv, TableTypeOK
<1>2. /\ conn' = [conn EXCEPT ![c] = FreshConn] /\ sock' = [sock EXCEPT ![c] = FreshSock]
      /\ conn \in [Conn -> ConnRecord] /\ sock \in [Conn -> SockRecord]
  BY DEF Close, ServerInv, OwnInv, OwnTypes
<1>3. \A d \in Conn \ {c} : conn'[d] = conn[d] /\ sock'[d] = sock[d]
  BY <1>2
<1>4. sock'[c] = FreshSock
  BY <1>2
<1>5. Talks'
  BY <1>1, <1>3 DEF StreamInv, Talks
<1>6. FreeFresh'
  BY <1>1, <1>3, <1>4 DEF StreamInv, FreeFresh
<1> QED
  BY <1>3, <1>5, <1>6

\* A connection that stays changes alone.
LEMMA ChangeTalk ==
  ASSUME ServerInv, StreamInv, NEW c \in alive, UNCHANGED tableVars,
         NEW r, conn' = [conn EXCEPT ![c] = r],
         NEW s, sock' = [sock EXCEPT ![c] = s], Talk(r, s)
  PROVE  Talks' /\ FreeFresh' /\ \A d \in Conn \ {c} : conn'[d] = conn[d] /\ sock'[d] = sock[d]
<1>1. alive' = alive /\ serving' = serving /\ alive \subseteq Conn
  BY DEF tableVars, ServerInv, TableInv, TableTypeOK
<1>2. conn \in [Conn -> ConnRecord] /\ sock \in [Conn -> SockRecord]
  BY DEF ServerInv, OwnInv, OwnTypes
<1>3. \A d \in Conn \ {c} : conn'[d] = conn[d] /\ sock'[d] = sock[d]
  BY <1>2
<1>4. conn'[c] = r /\ sock'[c] = s
  BY <1>1, <1>2
<1>5. Talks'
  BY <1>1, <1>3, <1>4 DEF StreamInv, Talks
<1>6. FreeFresh'
  BY <1>1, <1>3 DEF StreamInv, FreeFresh
<1> QED
  BY <1>3, <1>5, <1>6

\* What epoll told of the other connections is still so.
LEMMA HandledTold ==
  ASSUME ServerInv, StreamInv, NEW e \in batch, Taken(e),
         \A c \in alive \ {e.src} : conn'[c] = conn[c] /\ sock'[c] = sock[c]
  PROVE  Told'
<1>1. \A f \in batch' : f \in batch /\ f.src # e.src
  BY DEF Taken, ServerInv, OwnInv, BatchInv, BatchDistinct
<1>2. \A f \in batch' : f.src # Listener => f.src \in alive
  BY <1>1 DEF ServerInv, OwnInv, BatchInv, BatchAlive
<1> QED
  BY <1>1, <1>2 DEF StreamInv, Told

\* The listening socket: a new connection begins afresh.
LEMMA AcceptStream ==
  ASSUME ServerInv, StreamInv, NEW e \in batch,
         AcceptFails(e) \/ AcceptRefused(e) \/ AcceptAdded(e)
  PROVE  StreamInv'
<1>1. /\ conn \in [Conn -> ConnRecord] /\ sock \in [Conn -> SockRecord] /\ alive \subseteq Conn
      /\ Talks /\ FreeFresh
  BY DEF ServerInv, OwnInv, OwnTypes, TableInv, TableTypeOK, StreamInv
<1>2. Taken(e) /\ UNCHANGED sock
  BY DEF AcceptFails, AcceptRefused, AcceptAdded
<1>3. CASE UNCHANGED <<conn, alive, serving>>
  <2>1. Told'
    BY <1>2, <1>3, HandledTold
  <2>2. Talks' /\ FreeFresh'
    BY <1>1, <1>2, <1>3 DEF Talks, FreeFresh
  <2> QED
    BY <2>1, <2>2 DEF StreamInv
<1>4. ASSUME NEW c \in Conn, AddConnection(c),
             conn' = [conn EXCEPT ![c] = [FreshConn EXCEPT !.interest = WatchIn]]
      PROVE  StreamInv'
  <2>1. serving /\ c \notin alive /\ alive' = alive \cup {c} /\ serving' = serving
    BY <1>4 DEF AddConnection
  <2> DEFINE new == [FreshConn EXCEPT !.interest = WatchIn]
  <2>2. conn'[c] = new /\ \A d \in alive : conn'[d] = conn[d]
    BY <1>1, <1>4, <2>1
  <2>3. sock'[c] = FreshSock /\ Talk(new, FreshSock)
    BY <1>1, <1>2, <2>1, FreshTalk DEF FreeFresh
  <2> HIDE DEF new
  <2>4. Talks'
    BY <1>1, <1>2, <2>1, <2>2, <2>3 DEF Talks
  <2>5. FreeFresh'
    BY <1>1, <1>2, <2>1 DEF FreeFresh
  <2>6. Told'
    BY <1>2, <2>2, HandledTold
  <2> QED
    BY <2>4, <2>5, <2>6 DEF StreamInv
<1> QED
  BY <1>3, <1>4 DEF AcceptFails, AcceptRefused, AcceptAdded, AddAndClose, tableVars

\* The handlers that close their connection.
LEMMA ClosedStream ==
  ASSUME ServerInv, StreamInv, NEW e \in batch, e.src \in Conn, Taken(e), Close(e.src)
  PROVE  StreamInv'
<1>1. alive \subseteq Conn
  BY DEF ServerInv, TableInv, TableTypeOK
<1>2. Talks' /\ FreeFresh' /\ \A d \in Conn \ {e.src} : conn'[d] = conn[d] /\ sock'[d] = sock[d]
  BY CloseTalk
<1>3. Told'
  BY <1>1, <1>2, HandledTold
<1> QED
  BY <1>2, <1>3 DEF StreamInv

\* The handlers that keep it.
LEMMA KeptStream ==
  ASSUME ServerInv, StreamInv, NEW e \in batch, e.src \in alive, Taken(e), UNCHANGED tableVars,
         NEW r, conn' = [conn EXCEPT ![e.src] = r],
         NEW s, sock' = [sock EXCEPT ![e.src] = s], Talk(r, s)
  PROVE  StreamInv'
<1>1. alive \subseteq Conn
  BY DEF ServerInv, TableInv, TableTypeOK
<1>2. Talks' /\ FreeFresh' /\ \A d \in Conn \ {e.src} : conn'[d] = conn[d] /\ sock'[d] = sock[d]
  BY ChangeTalk
<1>3. Told'
  BY <1>1, <1>2, HandledTold
<1> QED
  BY <1>2, <1>3 DEF StreamInv

\* A handler that is given an event of a connection: the connection is alive, and
\* reads only when it has nothing to write.
LEMMA OfLive ==
  ASSUME ServerInv, StreamInv, NEW e \in batch, e.src # Listener
  PROVE  /\ e.src \in alive /\ e.src \in Conn /\ Talk(conn[e.src], sock[e.src])
         /\ e.in => conn[e.src].state # "WRITING"
         /\ e.hup => sock[e.src].peer # "open"
<1>1. e.src \in alive /\ alive \subseteq Conn
  BY DEF ServerInv, OwnInv, BatchInv, BatchAlive, TableInv, TableTypeOK
<1> QED
  BY <1>1 DEF StreamInv, Talks, Told

\* A read.
LEMMA ReadStream ==
  ASSUME ServerInv, StreamInv, NEW e \in batch, ReadMore(e) \/ ReadAnswers(e)
  PROVE  StreamInv'
<1> DEFINE c == e.src
<1>1. OwnTypes /\ Windows /\ OwnInv
  BY DEF ServerInv, OwnInv
<1>2. Reading(e) /\ Taken(e) /\ e.src # Listener /\ e.in
  BY <1>1, OutOfNone DEF ReadMore, ReadAnswers, Reading
<1>3. c \in alive /\ c \in Conn /\ Talk(conn[c], sock[c]) /\ conn[c].state # "WRITING"
  BY <1>2, OfLive
<1>4. PICK s : s = [sock[c] EXCEPT !.inbox = Rest(c)]
  OBVIOUS
<1>5. Drain(c) => sock' = [sock EXCEPT ![c] = s]
  BY <1>4 DEF Drain, Rest
<1>6. CASE ReadMore(e)
  <2>1. conn' = [conn EXCEPT ![c] = Consume(c)] /\ Drain(c) /\ UNCHANGED tableVars
    BY <1>6 DEF ReadMore
  <2>2. Talk(Consume(c), s)
    BY <1>1, <1>3, <1>4, ReadingTalk
  <2> QED
    BY <1>2, <1>3, <1>5, <2>1, <2>2, KeptStream
<1>7. CASE ReadAnswers(e) /\ Close(c)
  BY <1>2, <1>3, <1>7, ClosedStream
<1>8. CASE /\ ReadAnswers(e) /\ Drain(c) /\ UNCHANGED tableVars
           /\ conn' = [conn EXCEPT ![c] = Respond(Consume(c), Request(RxOnRead(c)))]
  <2>1. RequestComplete(c)
    BY <1>8 DEF ReadAnswers
  <2>2. Talk(Respond(Consume(c), Request(RxOnRead(c))), s)
    BY <1>1, <1>3, <1>4, <2>1, AnsweringTalk
  <2> QED
    BY <1>2, <1>3, <1>5, <1>8, <2>2, KeptStream
<1> QED
  BY <1>6, <1>7, <1>8 DEF ReadAnswers

\* A write.
LEMMA WriteStream ==
  ASSUME ServerInv, StreamInv, NEW e \in batch, WriteSome(e) \/ WriteEnds(e)
  PROVE  StreamInv'
<1> DEFINE c == e.src
<1>1. OwnTypes /\ Windows /\ Talks /\ FreeFresh
  BY DEF ServerInv, OwnInv, StreamInv
<1>2. Taken(e) /\ e.src # Listener
  BY DEF WriteSome, WriteEnds, Writing
<1>3. c \in alive /\ c \in Conn /\ Talk(conn[c], sock[c])
  BY <1>2, OfLive
<1>4. PICK s : s = [sock[c] EXCEPT !.outbox =
                      @ \o [i \in 1 .. Written(c) |-> conn[c].offset + i = conn[c].size]]
  OBVIOUS
<1>5. Emit(c) => sock' = [sock EXCEPT ![c] = s]
  BY <1>4 DEF Emit
<1>6. ASSUME conn[c].state = "WRITING"
      PROVE  /\ Offset(c) < conn[c].size => Talk(Sent(c), s)
             /\ Offset(c) >= conn[c].size => Talk([Sent(c) EXCEPT !.state = "IDLE", !.interest = WatchIn], s)
  BY <1>1, <1>3, <1>4, <1>6, WritingTalk
<1>7. CASE WriteSome(e) /\ conn[c].state # "WRITING"
  <2>1. UNCHANGED <<conn, sock, alive, serving>>
    BY <1>7 DEF WriteSome, tableVars
  <2>2. Told'
    BY <1>2, <2>1, HandledTold
  <2> QED
    BY <1>1, <2>1, <2>2 DEF StreamInv, Talks, FreeFresh
<1>8. CASE WriteSome(e) /\ conn[c].state = "WRITING"
  <2>1. /\ conn' = [conn EXCEPT ![c] = Sent(c)] /\ Emit(c) /\ UNCHANGED tableVars
        /\ Offset(c) < conn[c].size
    BY <1>8 DEF WriteSome
  <2> QED
    BY <1>2, <1>3, <1>5, <1>6, <1>8, <2>1, KeptStream
<1>9. CASE WriteEnds(e) /\ Close(c)
  BY <1>2, <1>3, <1>9, ClosedStream
<1>10. CASE /\ WriteEnds(e) /\ Emit(c) /\ UNCHANGED tableVars
            /\ conn' = [conn EXCEPT ![c] = [Sent(c) EXCEPT !.state = "IDLE", !.interest = WatchIn]]
  <2>1. conn[c].state = "WRITING" /\ Offset(c) >= conn[c].size
    BY <1>10 DEF WriteEnds
  <2> QED
    BY <1>2, <1>3, <1>5, <1>6, <1>10, <2>1, KeptStream
<1> QED
  BY <1>7, <1>8, <1>9, <1>10 DEF WriteEnds

\* A step that leaves the connections alone, and tells nothing new.
LEMMA SameStream ==
  ASSUME StreamInv, UNCHANGED <<conn, sock, alive>>, serving' => serving, batch' \subseteq batch
  PROVE  StreamInv'
BY DEF StreamInv, Talks, FreeFresh, Told

\* epoll tells of what is, and asks to read of no connection that is writing.
LEMMA WaitStream ==
  ASSUME ServerInv, StreamInv, EpollWait
  PROVE  StreamInv'
<1>1. UNCHANGED <<conn, sock, alive, serving>> /\ InterestFollowsState /\ alive \subseteq Conn
  BY DEF EpollWait, tableVars, ServerInv, OwnInv, TableInv, TableTypeOK
<1>2. \A c \in alive : "IN" \in conn[c].interest => conn[c].state # "WRITING"
  BY <1>1 DEF InterestFollowsState
<1>3. \A e \in ReadyEvents : e.src # Listener =>
        /\ e.hup => sock[e.src].peer # "open"
        /\ e.in => conn[e.src].state # "WRITING"
  <2> SUFFICES ASSUME NEW e \in ReadyEvents, e.src # Listener
               PROVE  /\ e.hup => sock[e.src].peer # "open"
                      /\ e.in => conn[e.src].state # "WRITING"
    OBVIOUS
  <2>1. e # Event(Listener, TRUE, FALSE, FALSE)
    BY DEF Event
  <2>2. PICK c \in alive : e = Event(c, ReadyIn(c), ReadyOut(c), sock[c].peer # "open")
    BY <2>1 DEF ReadyEvents
  <2>3. e.src = c /\ (e.hup <=> sock[c].peer # "open") /\ (e.in <=> ReadyIn(c))
    BY <2>2 DEF Event, ReadyIn
  <2> QED
    BY <1>2, <2>3 DEF ReadyIn
<1>4. \A e \in batch' :
        \/ e \in ReadyEvents
        \/ \E c \in alive : "IN" \in conn[c].interest /\ e = Event(c, TRUE, FALSE, FALSE)
  BY DEF EpollWait
<1>5. Told'
  <2> SUFFICES ASSUME NEW e \in batch', e.src # Listener
               PROVE  /\ e.hup => sock[e.src].peer # "open"
                      /\ e.in => conn[e.src].state # "WRITING"
    BY <1>1 DEF Told
  <2>1. CASE e \in ReadyEvents
    BY <1>3, <2>1
  <2>2. ASSUME NEW c \in alive, "IN" \in conn[c].interest, e = Event(c, TRUE, FALSE, FALSE)
        PROVE  e.src = c /\ ~e.hup /\ conn[c].state # "WRITING"
    BY <1>2, <2>2 DEF Event
  <2> QED
    BY <1>4, <2>1, <2>2
<1> QED
  BY <1>1, <1>5 DEF StreamInv, Talks, FreeFresh

\* The other steps of the loop.
LEMMA LoopStream ==
  ASSUME ServerInv, StreamInv, Loop
  PROVE  StreamInv'
<1>1. CASE CheckRunning \/ EpollInterrupted \/ EpollFails \/ AfterBatch \/ SweepDone
  BY <1>1, SameStream DEF CheckRunning, EpollInterrupted, EpollFails, AfterBatch, SweepDone, Goto, tableVars
<1>2. CASE Destroy
  <2>1. alive' = {} /\ ~serving' /\ batch' = {}
    BY <1>2, FreeFindsAll DEF Destroy, FreeManager, ServerInv, OwnInv, LoopInv
  <2> QED
    BY <2>1 DEF StreamInv, Talks, FreeFresh, Told
<1>3. CASE SweepStep
  <2>1. batch' = {}
    BY <1>3 DEF SweepStep, ServerInv, OwnInv, LoopInv
  <2>2. CASE Close(connections[cursor])
    <3>1. connections[cursor] \in Conn
      BY <2>2 DEF Close, CloseConnection, ServerInv, TableInv, TableTypeOK
    <3> QED
      BY <2>1, <2>2, <3>1, CloseTalk DEF StreamInv, Told
  <2>3. CASE UNCHANGED <<tableVars, conn, sock>>
    BY <2>1, <2>3, SameStream DEF tableVars
  <2> QED
    BY <1>3, <2>2, <2>3 DEF SweepStep
<1> QED
  BY <1>1, <1>2, <1>3, WaitStream DEF Loop

\* Peers, signals and time.
LEMMA EnvironmentStream ==
  ASSUME ServerInv, StreamInv, Environment
  PROVE  StreamInv'
<1>0. OwnTypes /\ alive \subseteq Conn
  BY DEF ServerInv, OwnInv, TableInv, TableTypeOK
<1>1. CASE Connect \/ Signal
  BY <1>1, SameStream DEF Connect, Signal, tableVars, loopVars
<1>2. CASE Tick
  <2>1. UNCHANGED <<batch, alive, serving, sock>>
    BY <1>2 DEF Tick, tableVars
  <2>2. \A c \in alive : \E a : conn'[c] = [conn[c] EXCEPT !.age = a]
    BY <1>0, <1>2 DEF Tick
  <2>3. \A c \in alive :
          /\ conn'[c].state = conn[c].state /\ conn'[c].rx = conn[c].rx
          /\ conn'[c].requests = conn[c].requests
          /\ conn'[c].offset = conn[c].offset /\ conn'[c].size = conn[c].size
    <3>1. \A c \in alive : conn[c] \in ConnRecord
      BY <1>0 DEF OwnTypes
    <3> QED
      BY <2>2, <3>1 DEF ConnRecord
  <2>4. Talks'
    <3> SUFFICES ASSUME NEW c \in alive PROVE Talk(conn'[c], sock'[c])
      BY <2>1 DEF Talks
    <3>1. Talk(conn[c], sock[c]) /\ sock'[c] = sock[c]
      BY <2>1 DEF StreamInv, Talks
    <3>2. Pending(conn'[c], sock'[c]) = Pending(conn[c], sock[c])
      BY <2>3, <3>1 DEF Pending
    <3> QED
      BY <2>3, <3>1, <3>2 DEF Talk
  <2>5. FreeFresh'
    BY <2>1 DEF StreamInv, FreeFresh
  <2>6. Told'
    BY <2>1, <2>3 DEF StreamInv, Told, ServerInv, OwnInv, BatchInv, BatchAlive
  <2> QED
    BY <2>4, <2>5, <2>6 DEF StreamInv
<1>3. ASSUME NEW c \in Conn, BeginRequest(c) \/ Deliver(c) \/ Receive(c) \/ Leave(c)
      PROVE  StreamInv'
  <2>1. c \in alive /\ UNCHANGED <<tableVars, batch, conn>>
    BY <1>3 DEF BeginRequest, Deliver, Receive, Leave, loopVars
  <2>2. PICK s \in SockRecord : /\ sock' = [sock EXCEPT ![c] = s]
                                /\ Talk(conn[c], s)
                                /\ s.peer = sock[c].peer \/ s.peer # "open"
    BY <1>0, <1>3, <2>1, PeerTalk DEF StreamInv, Talks
  <2>3. conn' = [conn EXCEPT ![c] = conn[c]]
    BY <1>0, <2>1 DEF OwnTypes
  <2>4. Talks' /\ FreeFresh'
    BY <2>1, <2>2, <2>3, ChangeTalk
  <2>5. \A d \in alive : sock'[d].peer = sock[d].peer \/ sock'[d].peer # "open"
    BY <1>0, <2>2 DEF OwnTypes
  <2>6. Told'
    BY <2>1, <2>5 DEF StreamInv, Told, ServerInv, OwnInv, BatchInv, BatchAlive
  <2> QED
    BY <2>4, <2>6 DEF StreamInv
<1> QED
  BY <1>1, <1>2, <1>3 DEF Environment

-----------------------------------------------------------------------------
(* The invariant and what follows from it.                                 *)

\* A server that starts has told nothing, and all blocks are free.
LEMMA StreamInit == Init => StreamInv
BY DEF Init, TableInit, StreamInv, Talks, FreeFresh, Told

\* Every step keeps the invariant.
LEMMA StreamStep == ServerInv /\ StreamInv /\ [Next]_vars => StreamInv'
<1> SUFFICES ASSUME ServerInv, StreamInv, [Next]_vars PROVE StreamInv'
  OBVIOUS
<1>1. CASE Environment
  BY <1>1, EnvironmentStream
<1>2. CASE Loop
  BY <1>2, LoopStream
<1>3. ASSUME NEW e \in batch, Handler(e) PROVE StreamInv'
  <2>1. CASE AcceptFails(e) \/ AcceptRefused(e) \/ AcceptAdded(e)
    BY <2>1, AcceptStream
  <2>2. CASE HandleHangup(e) \/ ReadFails(e) \/ ReadRefuses(e) \/ ReadRejects(e) \/ WriteFails(e)
    <3>1. e.src # Listener /\ Taken(e) /\ Close(e.src)
      BY <2>2 DEF HandleHangup, ReadFails, ReadRefuses, ReadRejects, WriteFails, Reading, Writing
    <3> QED
      BY <3>1, OfLive, ClosedStream
  <2>3. CASE ReadMore(e) \/ ReadAnswers(e)
    BY <2>3, ReadStream
  <2>4. CASE WriteSome(e) \/ WriteEnds(e)
    BY <2>4, WriteStream
  <2> QED
    BY <1>3, <2>1, <2>2, <2>3, <2>4 DEF Handler
<1>4. CASE UNCHANGED vars
  BY <1>4, SameStream DEF vars, tableVars, loopVars
<1> QED
  BY <1>1, <1>2, <1>3, <1>4 DEF Next, Server

\* What passes over each connection is one talk, through every step of the server.
THEOREM StreamInductive == Spec => [](ServerInv /\ StreamInv)
<1>1. ServerInv /\ StreamInv /\ [Next]_vars => (ServerInv /\ StreamInv)'
  BY ServerStep, StreamStep
<1> QED
  BY <1>1, ServerInit, StreamInit, PTL DEF Spec

\* In whatever pieces requests arrive and answers leave, a request that was
\* processed gets one answer, whole and once (server.cc:309-320, 424-434).
THEOREM AnsweredOnce == Spec => []OneAnswerEach
<1>1. ServerInv /\ StreamInv => OneAnswerEach
  <2> SUFFICES ASSUME ServerInv, StreamInv, NEW c \in alive
               PROVE  /\ sock[c].answers + Ends(c)
                           = conn[c].requests - (IF conn[c].state = "WRITING" THEN 1 ELSE 0)
                      /\ conn[c].requests <= sock[c].begun
    BY DEF OneAnswerEach
  <2>1. Talk(conn[c], sock[c]) /\ conn[c] \in ConnRecord /\ sock[c] \in SockRecord
    BY DEF StreamInv, Talks, ServerInv, OwnInv, OwnTypes, TableInv, TableTypeOK
  <2>2. Ends(c) = Whole(sock[c].outbox)
    BY DEF Ends, Whole
  <2>3. conn[c].requests \in Nat /\ sock[c].begun \in Nat
    BY <2>1 DEF ConnRecord, SockRecord
  <2>4. conn[c].requests <= sock[c].begun
    BY <2>1, <2>3 DEF Talk
  <2> QED
    BY <2>1, <2>2, <2>4 DEF Talk
<1> QED
  BY <1>1, StreamInductive, PTL

\* A step that frees a connection has a cause.
LEMMA CauseOfClose ==
  ASSUME ServerInv, StreamInv, Next, NEW c \in alive, c \notin alive'
  PROVE  \/ sock[c].peer # "open" \/ Expired(c) \/ env'.faults # env.faults \/ ~serving'
         \/ \E i \in 1 .. Len(RxOnRead(c)) : Refusable(RxOnRead(c)[i][1])
<1>1. /\ OwnTypes /\ Windows /\ alive \subseteq Conn
      /\ env.faults \in Nat /\ env \in EnvRecord
  BY DEF ServerInv, OwnInv, OwnTypes, TableInv, TableTypeOK, EnvRecord
<1>2. ASSUME Fault PROVE env'.faults # env.faults
  <2>1. env'.faults = env.faults + 1
    BY <1>1, <1>2 DEF Fault, EnvRecord
  <2> QED
    BY <1>1, <2>1
<1>3. ~Environment
  BY DEF Environment, Connect, Signal, Tick, BeginRequest, Deliver, Receive, Leave, tableVars
<1>4. CASE Loop
  <2>1. CASE SweepStep
    BY <2>1 DEF SweepStep, Close, CloseConnection, tableVars
  <2>2. CASE Destroy
    BY <2>2 DEF Destroy, FreeManager
  <2> QED
    BY <1>4, <2>1, <2>2 DEF Loop, CheckRunning, EpollWait, EpollInterrupted, EpollFails, AfterBatch,
      SweepDone, Goto, tableVars
<1>5. ASSUME NEW e \in batch, Handler(e)
      PROVE  \/ sock[c].peer # "open" \/ env'.faults # env.faults
             \/ \E i \in 1 .. Len(RxOnRead(c)) : Refusable(RxOnRead(c)[i][1])
  <2>1. ~(AcceptFails(e) \/ AcceptRefused(e) \/ AcceptAdded(e) \/ ReadMore(e) \/ WriteSome(e))
    BY DEF AcceptFails, AcceptRefused, AcceptAdded, AddConnection, AddAndClose, ReadMore, WriteSome, tableVars
  <2>2. e.src # Listener /\ Close(e.src)
    BY <1>5, <2>1 DEF Handler, HandleHangup, ReadFails, ReadRefuses, ReadAnswers, ReadRejects,
      WriteFails, WriteEnds, Reading, Writing, tableVars
  <2>3. e.src = c
    BY <2>2 DEF Close, CloseConnection
  <2>4. /\ c \in Conn /\ Talk(conn[c], sock[c])
        /\ e.in => conn[c].state # "WRITING"
        /\ e.hup => sock[c].peer # "open"
    BY <2>2, <2>3, OfLive
  <2>5. CASE HandleHangup(e)
    BY <2>4, <2>5 DEF HandleHangup
  <2>6. CASE ReadFails(e)
    BY <2>3, <2>6 DEF ReadFails, ReadOk
  <2>7. CASE ReadRefuses(e) \/ ReadRejects(e)
    <3>1. conn[c].state # "WRITING"
      BY <2>4, <2>7 DEF ReadRefuses, ReadRejects, Reading
    <3>2. \/ Fault
          \/ Header(RxOnRead(c)) = "bad"
          \/ RequestComplete(c) /\ ~Handled[Request(RxOnRead(c))]
      BY <2>3, <2>7 DEF ReadRefuses, ReadRejects
    <3>3. CASE ~Fault
      BY <1>1, <2>4, <3>1, <3>2, <3>3, RefusedForCause
    <3> QED
      BY <1>2, <3>3
  <2>8. CASE ReadAnswers(e) \/ WriteEnds(e)
    BY <1>2, <2>8 DEF ReadAnswers, WriteEnds, tableVars
  <2>9. CASE WriteFails(e)
    BY <2>3, <2>9 DEF WriteFails
  <2> QED
    BY <1>5, <2>1, <2>5, <2>6, <2>7, <2>8, <2>9 DEF Handler
<1> QED
  BY <1>3, <1>4, <1>5 DEF Next, Server

\* For any limits and sizes, and however requests are cut up, a connection is
\* closed for a cause only: a peer that sends good requests one at a time keeps
\* its connection (server.cc:262-357).
THEOREM ClosedOnlyForCause == Spec => ClosedForCause
<1>1. ServerInv /\ StreamInv /\ [Next]_vars =>
        [\A c \in alive \ alive' :
           \/ sock[c].peer # "open" \/ Expired(c) \/ env'.faults # env.faults \/ ~serving'
           \/ \E i \in 1 .. Len(RxOnRead(c)) : Refusable(RxOnRead(c)[i][1])]_vars
  BY CauseOfClose
<1> QED
  BY <1>1, StreamInductive, PTL DEF Spec, ClosedForCause
=============================================================================
