----------------------------- MODULE ConnTable -----------------------------
(***************************************************************************)
(* connection.cc: the connection manager.  `connections' is an array of    *)
(* pointers of which the first `count' are in use; every connection_t      *)
(* carries its own index `id', so that it is removed without a search: the *)
(* last pointer is moved into the hole.  Pointers at or beyond `count' are *)
(* left as they are, and may point to freed memory.                        *)
(***************************************************************************)
EXTENDS Integers, FiniteSets

CONSTANTS
  Conn,      \* the memory blocks a connection_t may occupy; free() and calloc() recycle them
  NoConn,    \* the NULL pointer
  MaxCount   \* max_connections of db.conf

ASSUME TableAssumption == MaxCount \in Nat /\ NoConn \notin Conn

VARIABLES
  connections,  \* mgr->connections
  count,        \* mgr->count
  id,           \* conn->id of every block
  alive,        \* the blocks that are allocated
  serving       \* FALSE once free_connection_manager has run

tableVars == <<connections, count, id, alive, serving>>

Slots == 0 .. MaxCount - 1

InUse == 0 .. count - 1

\* init_connection_manager: the array comes from calloc.
TableInit ==
  /\ connections = [s \in Slots |-> NoConn]
  /\ count = 0
  /\ id = [c \in Conn |-> 0]
  /\ alive = {}
  /\ serving = TRUE

\* The bound of accept, and the same bound off by one.
HasRoomForOneMore == count <= MaxCount
HasRoom == count < MaxCount

\* accept: the new connection takes the first slot that is not in use.
AddConnection(c) ==
  /\ serving
  /\ c \notin alive
  /\ HasRoom
  /\ alive' = alive \cup {c}
  /\ id' = [id EXCEPT ![c] = count]
  /\ connections' = [connections EXCEPT ![count] = c]
  /\ count' = count + 1
  /\ UNCHANGED serving

\* close_connection fills the hole at `slot' with the last pointer, which gets
\* the slot's number; the mutation forgets the number.
MovedUnnumbered(slot) == id
Renumbered(slot) == [id EXCEPT ![connections[count - 1]] = slot]

CloseConnection(c) ==
  /\ serving
  /\ c \in alive
  /\ id' = Renumbered(id[c])
  /\ connections' = [connections EXCEPT ![id[c]] = connections[count - 1]]
  /\ count' = count - 1
  /\ alive' = alive \ {c}
  /\ UNCHANGED serving

\* The mutation: freed, but still counted.
AddAndFree(c) ==
  /\ serving /\ c \notin alive /\ HasRoom
  /\ count' = count + 1
  /\ UNCHANGED <<connections, id, alive, serving>>

\* accept when EPOLL_CTL_ADD fails: added and closed again in one handler.
AddAndClose(c) ==
  /\ serving
  /\ c \notin alive
  /\ HasRoom
  /\ id' = [id EXCEPT ![c] = count]
  /\ connections' = [connections EXCEPT ![count] = c]
  /\ UNCHANGED <<count, alive, serving>>

\* free_connection_manager, from the destructor of Server: frees what the
\* slots in use point to, whatever else may be allocated.
FreedButLast == {connections[s] : s \in InUse \ {count - 1}}
Freed == {connections[s] : s \in InUse}

FreeManager ==
  /\ serving
  /\ alive' = alive \ Freed
  /\ serving' = FALSE
  /\ UNCHANGED <<connections, count, id>>

TableNext ==
  \/ \E c \in Conn : AddConnection(c) \/ CloseConnection(c) \/ AddAndClose(c)
  \/ FreeManager

TableSpec == TableInit /\ [][TableNext]_tableVars

-----------------------------------------------------------------------------

TableTypeOK ==
  /\ connections \in [Slots -> Conn \cup {NoConn}]
  /\ count \in 0 .. MaxCount
  /\ id \in [Conn -> Nat]
  /\ alive \subseteq Conn
  /\ serving \in BOOLEAN

\* The slots in use hold allocated connections, each of which knows its slot.
SlotsHoldLive ==
  \A s \in InUse : connections[s] \in alive /\ id[connections[s]] = s

\* Every allocated connection is found in the slot it believes it has.
LiveHaveSlots ==
  \A c \in alive : id[c] \in InUse /\ connections[id[c]] = c

\* While the server runs, `connections', `count' and every `id' agree: the
\* swap-remove of close_connection never frees one connection and forgets
\* another (connection.cc:91-96).
SlotsAgree == serving => SlotsHoldLive /\ LiveHaveSlots

\* Shutdown leaves no connection allocated: the loop of
\* free_connection_manager over the slots in use reaches every one of them
\* (connection.cc:116-131).
NothingLeaked == ~serving => alive = {}

\* `count', which opt_status reports and accept compares with the limit, is the
\* number of open connections (server.cc:65, server.cc:190).
CountIsOpen == serving => count = Cardinality(alive)

\* connection.cc implements the bounded set of OpenSet.tla.
Promise == INSTANCE OpenSet WITH open <- alive, Capacity <- MaxCount
ImplementsOpenSet == Promise!Spec
=============================================================================
