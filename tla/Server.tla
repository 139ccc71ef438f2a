------------------------------- MODULE Server -------------------------------
(***************************************************************************)
(* server.cc: the single-threaded epoll loop, its handlers, and the        *)
(* per-connection protocol [magic, size, opt, body] -> response, on top of *)
(* the connection manager of ConnTable.tla.  The peers and the kernel are  *)
(* the environment.                                                        *)
(*                                                                         *)
(* Abstractions.  A byte stream is a sequence of units <<k, j>>, the j-th  *)
(* unit of a request of kind k.  Times are ages: how long ago, saturating  *)
(* just past the largest timeout.  What an operation does to the records   *)
(* is left to the store's modules: here it only has a verdict and a        *)
(* response.                                                               *)
(***************************************************************************)
EXTENDS ConnTable, Sequences

CONSTANTS
  Listener,         \* the listening socket
  Kind,             \* kinds of request the peers send, and of each kind:
  Magic,            \*   does it carry the right magic number?
  BodySize,         \*   the size its header announces, in units
  Handled,          \*   does its opt_ function return true?
  RespSize,         \*   the size of its response, in units
  HeaderSize,       \* HEADER_SIZE in units
  BufferSize,       \* BUFFER_SIZE in units: the most one read() or write() moves
  MaxRecv,          \* max_recv_size in units
  SndBuf,           \* units the kernel takes before write() would block
  MaxEvents,        \* MAX_EVENTS
  IdleTimeout, TransportTimeout, CleanupPeriod,
  MaxConnects,      \* bound: connections attempted by peers
  MaxRequests,      \* bound: requests begun on one connection
  MaxFaults         \* bound: failures of system calls and spurious events

ASSUME ServerAssumption ==
  /\ Listener \notin Conn
  /\ Magic \in [Kind -> BOOLEAN] /\ BodySize \in [Kind -> Int]
  /\ Handled \in [Kind -> BOOLEAN] /\ RespSize \in [Kind -> Nat \ {0}]
  /\ MaxRecv \in Int /\ HeaderSize \in Nat \ {0} /\ SndBuf \in Nat \ {0} /\ BufferSize \in Nat \ {0} /\ MaxEvents \in Nat \ {0}
  /\ IdleTimeout \in Nat /\ TransportTimeout \in Nat /\ CleanupPeriod \in Nat \ {0}

VARIABLES
  pc,          \* where start() is: "top", "wait", "events", "sweep", "exit", "stopped"
  running,     \* main.cc's flag, cleared by SIGINT and SIGTERM
  batch,       \* the events of this round not handled yet
  cursor,      \* i of cleanup_idle_connections
  sinceSweep,  \* now - last_cleanup, saturating at CleanupPeriod
  conn,        \* the connection_t of each block
  sock,        \* each connection's socket and the peer behind it
  stat,        \* the server's counters
  env          \* backlog for accept, and how much of each bound is used

loopVars == <<pc, running, batch, cursor, sinceSweep>>
vars == <<tableVars, loopVars, conn, sock, stat, env>>

AgeCap == 1 + IF IdleTimeout > TransportTimeout THEN IdleTimeout ELSE TransportTimeout

Least(m, n) == IF m < n THEN m ELSE n

\* connection_t from create_connection.  rx: the units of the current request
\* in conn->recv; size and offset: of conn->send; age: now - last_active;
\* interest: the events epoll watches.
FreshConn == [state |-> "IDLE", rx |-> <<>>, size |-> 0, offset |-> 0,
              requests |-> 0, age |-> 0, interest |-> {}]

\* peer: "open", "shut" (it has closed), "reset"; inbox: received by the kernel,
\* not read by the server; outbox: written, not read by the peer, TRUE for the
\* last unit of a response; todo: what the peer still has to send of the
\* request; begun and answers: its requests, and whole responses it has read.
FreshSock == [peer |-> "open", inbox |-> <<>>, outbox |-> <<>>, todo |-> <<>>,
              begun |-> 0, answers |-> 0]

\* The interest set by accept and when a response is written, and the one set
\* when a response is to be written; the mutation watches for both.
WatchBoth == {"IN", "OUT"}
WatchIn == {"IN"}
WatchOut == {"OUT"}

Units(k) ==
  [j \in 1 .. HeaderSize + (IF BodySize[k] > 0 THEN BodySize[k] ELSE 0) |-> <<k, j>>]

Request(d) == d[1][1]

\* parse_header over the first HEADER_SIZE units: a header that is not one, as
\* when surplus units of an earlier request were dropped, fails the magic test.
Header(d) ==
  IF Len(d) < HeaderSize THEN "short"
  ELSE LET k == Request(d) IN
       IF /\ \A j \in 1 .. HeaderSize : d[j] = <<k, j>>
          /\ Magic[k]
          /\ BodySize[k] >= 0
          /\ BodySize[k] + HeaderSize <= MaxRecv
       THEN "ok" ELSE "bad"

Init ==
  /\ TableInit
  /\ pc = "top" /\ running = TRUE /\ batch = {} /\ cursor = 0
  /\ sinceSweep = CleanupPeriod
  /\ conn = [c \in Conn |-> FreshConn]
  /\ sock = [c \in Conn |-> FreshSock]
  /\ stat = [total |-> 0, request |-> 0, error |-> 0, response |-> 0]
  /\ env = [backlog |-> 0, connects |-> 0, begun |-> 0, faults |-> 0]

\* A system call fails, as often as the bound allows.
Fault == env.faults < MaxFaults /\ env' = [env EXCEPT !.faults = @ + 1]
NoFault == UNCHANGED env

-----------------------------------------------------------------------------
(* The loop of start().                                                    *)

Goto(l) == pc' = l /\ UNCHANGED <<running, batch, cursor, sinceSweep, tableVars, conn, sock, stat>>

\* The mutation never looks at the flag.
CheckNothing == pc = "top" /\ Goto("wait") /\ UNCHANGED env

\* running == 0 is seen only here; the records are dumped before the loop ends.
CheckRunning ==
  /\ pc = "top"
  /\ Goto(IF running THEN "wait" ELSE "exit")
  /\ UNCHANGED env

ReadyIn(c)  == "IN" \in conn[c].interest /\ (sock[c].inbox # <<>> \/ sock[c].peer # "open")
ReadyOut(c) == "OUT" \in conn[c].interest /\ (Len(sock[c].outbox) < SndBuf \/ sock[c].peer = "reset")

Event(s, i, o, h) == [src |-> s, in |-> i, out |-> o, hup |-> h]

\* What epoll_wait would report now: level-triggered, one entry per socket.
ReadyEvents ==
  {e \in {Event(c, ReadyIn(c), ReadyOut(c), sock[c].peer # "open") : c \in alive} :
     e.in \/ e.out \/ e.hup}
    \cup (IF env.backlog > 0 THEN {Event(Listener, TRUE, FALSE, FALSE)} ELSE {})

\* A socket may also be reported readable that then has nothing to read.
EpollWait ==
  /\ pc = "wait"
  /\ \E S \in SUBSET ReadyEvents :
       /\ Cardinality(S) = Least(Cardinality(ReadyEvents), MaxEvents)
       /\ \/ batch' = S /\ NoFault
          \/ /\ \E c \in {d \in alive : "IN" \in conn[d].interest /\ ~ReadyIn(d)} :
                  batch' = S \cup {Event(c, TRUE, FALSE, FALSE)}
             /\ Fault
  /\ pc' = "events"
  /\ UNCHANGED <<running, cursor, sinceSweep, tableVars, conn, sock, stat>>

\* EINTR goes back to the test of `running'.
EpollInterrupted == pc = "wait" /\ ~running /\ Goto("top") /\ UNCHANGED env

\* Any other error ends the loop, without the dump.
EpollFails == pc = "wait" /\ Goto("exit") /\ Fault

\* After the batch: every CleanupPeriod, sweep the connections.
AfterBatch ==
  /\ pc = "events" /\ batch = {}
  /\ Goto(IF sinceSweep >= CleanupPeriod THEN "sweep" ELSE "top")
  /\ UNCHANGED env

\* ~Server.
Destroy ==
  /\ pc = "exit" /\ pc' = "stopped"
  /\ FreeManager
  /\ UNCHANGED <<running, batch, cursor, sinceSweep, conn, sock, stat, env>>

-----------------------------------------------------------------------------
(* Closing, and the sweep.                                                 *)

\* The mutation frees the connection and leaves it in the table.
CloseUnlisted(c) ==
  /\ serving /\ alive' = alive \ {c}
  /\ UNCHANGED <<connections, count, id, serving>>
  /\ conn' = [conn EXCEPT ![c] = FreshConn]
  /\ sock' = [sock EXCEPT ![c] = FreshSock]

\* close_connection; the block and the socket are as good as new.
Close(c) ==
  /\ CloseConnection(c)
  /\ conn' = [conn EXCEPT ![c] = FreshConn]
  /\ sock' = [sock EXCEPT ![c] = FreshSock]

\* The mutation has no timeout for writing.
ExpiredReading(c) ==
  /\ conn[c].state # "WRITING"
  /\ conn[c].age > IF conn[c].state = "IDLE" THEN IdleTimeout ELSE TransportTimeout

Expired(c) ==
  conn[c].age > IF conn[c].state = "IDLE" THEN IdleTimeout ELSE TransportTimeout

\* i-- before the i++ of the loop; the mutation is without it.
CursorMoved == cursor + 1
CursorAfterClose == cursor

\* One round of cleanup_idle_connections.  `now' is read once before the loop,
\* so no time passes between its rounds; a slot that was closed holds the
\* connection that was last, and is looked at again (i--).
SweepStep ==
  /\ pc = "sweep" /\ cursor < count
  /\ \/ Expired(connections[cursor]) /\ Close(connections[cursor]) /\ cursor' = CursorAfterClose
     \/ ~Expired(connections[cursor]) /\ cursor' = cursor + 1 /\ UNCHANGED <<tableVars, conn, sock>>
  /\ UNCHANGED <<pc, running, batch, sinceSweep, stat, env>>

SweepDone ==
  /\ pc = "sweep" /\ cursor >= count
  /\ pc' = "top" /\ sinceSweep' = 0 /\ cursor' = 0
  /\ UNCHANGED <<running, batch, tableVars, conn, sock, stat, env>>

-----------------------------------------------------------------------------
(* The events of a batch.  Taken(e) ends the handling of one; ThenOut(e)   *)
(* goes on to its test of EPOLLOUT.                                        *)

Handling(e) == pc = "events" /\ e \in batch

Taken(e) == batch' = batch \ {e} /\ UNCHANGED <<pc, running, cursor, sinceSweep>>

ThenOut(e) ==
  /\ batch' = (batch \ {e}) \cup (IF e.out THEN {[e EXCEPT !.in = FALSE]} ELSE {})
  /\ UNCHANGED <<pc, running, cursor, sinceSweep>>

\* accept fails, or create_connection has no memory for the new socket.
AcceptFails(e) ==
  /\ Handling(e) /\ e.src = Listener
  /\ env.faults < MaxFaults
  /\ \E b \in {0, 1} : env' = [env EXCEPT !.faults = @ + 1, !.backlog = @ - b]
  /\ Taken(e)
  /\ UNCHANGED <<tableVars, conn, sock, stat>>

AcceptRefused(e) ==
  /\ Handling(e) /\ e.src = Listener
  /\ count >= MaxCount
  /\ env' = [env EXCEPT !.backlog = @ - 1]
  /\ Taken(e)
  /\ UNCHANGED <<tableVars, conn, sock, stat>>

\* The second alternative: EPOLL_CTL_ADD fails.
AcceptAdded(e) ==
  /\ Handling(e) /\ e.src = Listener
  /\ stat' = [stat EXCEPT !.total = @ + 1]
  /\ \E c \in Conn :
       \/ /\ AddConnection(c)
          /\ conn' = [conn EXCEPT ![c] = [FreshConn EXCEPT !.interest = WatchIn]]
          /\ env' = [env EXCEPT !.backlog = @ - 1]
       \/ /\ AddAndClose(c)
          /\ env.faults < MaxFaults
          /\ env' = [env EXCEPT !.backlog = @ - 1, !.faults = @ + 1]
          /\ UNCHANGED conn
  /\ Taken(e)
  /\ UNCHANGED sock

\* EPOLLERR, EPOLLHUP and EPOLLRDHUP come before EPOLLIN: what the peer sent
\* before it closed is not read.
HandleHangup(e) ==
  /\ Handling(e) /\ e.src # Listener /\ e.hup
  /\ Close(e.src)
  /\ Taken(e)
  /\ UNCHANGED <<stat, env>>

-----------------------------------------------------------------------------
(* handle_read_event, parse_header, process_data.                          *)

Reading(e) == Handling(e) /\ e.src # Listener /\ ~e.hup /\ e.in

\* Units that read() returns: none with an open peer stands for EAGAIN or EINTR.
Readable(c) == SubSeq(sock[c].inbox, 1, Least(Len(sock[c].inbox), BufferSize))

ReadOk(c) == sock[c].peer # "reset" /\ (sock[c].inbox # <<>> \/ sock[c].peer = "open")

\* An idle connection starts a request, whether or not it then reads anything.
Starts(c) == conn[c].state = "IDLE"

Parses(c) == conn[c].state \in {"IDLE", "READING_HEADER"}

\* recv.offset is reset when a request starts, and only then; the mutation
\* resets it whenever a header is read.
RxRestarted(c) == (IF Parses(c) THEN <<>> ELSE conn[c].rx) \o Readable(c)
RxOnRead(c) == (IF Starts(c) THEN <<>> ELSE conn[c].rx) \o Readable(c)

\* conn->state after parse_header.
StateParsed(c) ==
  IF ~Parses(c) THEN conn[c].state
  ELSE IF Header(RxOnRead(c)) = "ok" THEN "READING_BODY" ELSE "READING_HEADER"

\* The mutation waits for one unit more than the request has.
RequestExceeded(c) ==
  /\ StateParsed(c) = "READING_BODY"
  /\ Len(RxOnRead(c)) > HeaderSize + BodySize[Request(RxOnRead(c))]

\* recv.offset >= recv.size.
RequestComplete(c) ==
  /\ StateParsed(c) = "READING_BODY"
  /\ Len(RxOnRead(c)) >= HeaderSize + BodySize[Request(RxOnRead(c))]

CountRequest(c, errors) ==
  stat' = [stat EXCEPT !.request = @ + (IF Parses(c) THEN 1 ELSE 0), !.error = @ + errors]

\* What read() does to a connection that is kept.
Consume(c) ==
  [conn[c] EXCEPT !.state = StateParsed(c), !.rx = RxOnRead(c),
                  !.age = IF Readable(c) = <<>> THEN @ ELSE 0]

Drain(c) ==
  sock' = [sock EXCEPT ![c].inbox = SubSeq(@, Len(Readable(c)) + 1, Len(@))]

\* The peer has closed, or the read fails.
ReadFails(e) ==
  /\ Reading(e) /\ ~ReadOk(e.src)
  /\ Close(e.src)
  /\ Taken(e)
  /\ UNCHANGED <<stat, env>>

\* parse_header refuses, or expand_buffer has no memory for an accepted request.
ReadRefuses(e) ==
  /\ Reading(e) /\ ReadOk(e.src) /\ Parses(e.src)
  /\ \/ Header(RxOnRead(e.src)) = "bad" /\ NoFault
     \/ Header(RxOnRead(e.src)) = "ok" /\ Fault
  /\ CountRequest(e.src, 1)
  /\ Close(e.src)
  /\ Taken(e)

\* More of the request is to come.
ReadMore(e) ==
  LET c == e.src IN
  /\ Reading(e) /\ ReadOk(c)
  /\ ~(Parses(c) /\ Header(RxOnRead(c)) = "bad")
  /\ ~RequestComplete(c)
  /\ CountRequest(c, 0)
  /\ conn' = [conn EXCEPT ![c] = Consume(c)]
  /\ Drain(c)
  /\ ThenOut(e)
  /\ UNCHANGED <<tableVars, env>>

\* The connection r once its response is in conn->send; the mutation leaves
\* send.offset where the previous response ended.
RespondStale(r, k) ==
  [r EXCEPT !.requests = @ + 1, !.state = "WRITING", !.size = RespSize[k], !.interest = WatchOut]
Respond(r, k) ==
  [r EXCEPT !.requests = @ + 1, !.state = "WRITING", !.size = RespSize[k], !.interest = WatchOut,
            !.offset = 0]

\* The request is complete and process_data answers it.  When mod_epoll_event
\* cannot change the interest it closes the connection, and the handler returns
\* true all the same.
ReadAnswers(e) ==
  LET c == e.src
      k == Request(RxOnRead(c))
  IN
  /\ Reading(e) /\ ReadOk(c) /\ RequestComplete(c) /\ Handled[k]
  /\ CountRequest(c, 0)
  /\ \/ /\ conn' = [conn EXCEPT ![c] = Respond(Consume(c), k)]
        /\ Drain(c)
        /\ NoFault /\ UNCHANGED tableVars
     \/ Close(c) /\ Fault
  /\ ThenOut(e)

\* The request is complete and process_data returns false.
ReadRejects(e) ==
  /\ Reading(e) /\ ReadOk(e.src) /\ RequestComplete(e.src)
  /\ ~Handled[Request(RxOnRead(e.src))]
  /\ CountRequest(e.src, 0)
  /\ Close(e.src)
  /\ Taken(e)
  /\ UNCHANGED env

-----------------------------------------------------------------------------
(* handle_write_event.                                                     *)

Writing(e) == Handling(e) /\ e.src # Listener /\ ~e.hup /\ ~e.in /\ e.out

\* Units that write() takes; 0 stands for EAGAIN and EINTR.
Written(c) ==
  Least(Least(conn[c].size - conn[c].offset, BufferSize), SndBuf - Len(sock[c].outbox))

\* conn->send.offset after write().
Offset(c) == conn[c].offset + Written(c)

\* What write() does to a connection that is kept.
Sent(c) ==
  [conn[c] EXCEPT !.offset = Offset(c), !.age = IF Written(c) = 0 THEN @ ELSE 0]

Emit(c) ==
  sock' = [sock EXCEPT ![c].outbox =
             @ \o [i \in 1 .. Written(c) |-> conn[c].offset + i = conn[c].size]]

WriteFails(e) ==
  /\ Writing(e) /\ conn[e.src].state = "WRITING" /\ sock[e.src].peer = "reset"
  /\ Close(e.src)
  /\ Taken(e)
  /\ UNCHANGED <<stat, env>>

\* Also the early return of a connection that is not writing.
WriteSome(e) ==
  LET c == e.src
      writing == conn[c].state = "WRITING"
  IN
  /\ Writing(e)
  /\ writing => sock[c].peer # "reset" /\ Offset(c) < conn[c].size
  /\ IF writing
     THEN conn' = [conn EXCEPT ![c] = Sent(c)] /\ Emit(c)
     ELSE UNCHANGED <<conn, sock>>
  /\ Taken(e)
  /\ UNCHANGED <<tableVars, stat, env>>

\* As in ReadAnswers, the change of interest may fail.
WriteEnds(e) ==
  LET c == e.src IN
  /\ Writing(e) /\ conn[c].state = "WRITING" /\ sock[c].peer # "reset"
  /\ Offset(c) >= conn[c].size
  /\ stat' = [stat EXCEPT !.response = @ + 1]
  /\ \/ /\ conn' = [conn EXCEPT ![c] = [Sent(c) EXCEPT !.state = "IDLE", !.interest = WatchIn]]
        /\ Emit(c)
        /\ NoFault /\ UNCHANGED tableVars
     \/ Close(c) /\ Fault
  /\ Taken(e)

-----------------------------------------------------------------------------
(* The environment: peers, signals and time.                               *)

Connect ==
  /\ pc # "stopped" /\ env.connects < MaxConnects
  /\ env' = [env EXCEPT !.connects = @ + 1, !.backlog = @ + 1]
  /\ UNCHANGED <<tableVars, loopVars, conn, sock, stat>>

\* Like client.cc and stoxdb.py, a peer reads one answer before it asks again.
BeginRequest(c) ==
  LET p == sock[c] IN
  /\ c \in alive /\ p.peer = "open"
  /\ p.todo = <<>> /\ p.answers = p.begun /\ p.begun < MaxRequests
  /\ \E k \in Kind : sock' = [sock EXCEPT ![c] = [p EXCEPT !.todo = Units(k), !.begun = @ + 1]]
  /\ env' = [env EXCEPT !.begun = @ + 1]
  /\ UNCHANGED <<tableVars, loopVars, conn, stat>>

\* The network delivers the request in any pieces.
Deliver(c) ==
  LET p == sock[c] IN
  /\ c \in alive /\ p.peer = "open"
  /\ \E n \in 1 .. Len(p.todo) :
       sock' = [sock EXCEPT ![c] = [p EXCEPT !.inbox = @ \o SubSeq(p.todo, 1, n),
                                             !.todo = SubSeq(@, n + 1, Len(@))]]
  /\ UNCHANGED <<tableVars, loopVars, conn, stat, env>>

\* Responses that are complete in the kernel's buffer.
Ends(c) == Cardinality({i \in DOMAIN sock[c].outbox : sock[c].outbox[i]})

Receive(c) ==
  /\ c \in alive /\ sock[c].outbox # <<>>
  /\ sock' = [sock EXCEPT ![c] = [sock[c] EXCEPT !.answers = @ + Ends(c), !.outbox = <<>>]]
  /\ UNCHANGED <<tableVars, loopVars, conn, stat, env>>

\* The peer closes its socket, or its host resets the connection.
Leave(c) ==
  LET p == sock[c] IN
  /\ c \in alive /\ p.peer = "open"
  /\ \/ sock' = [sock EXCEPT ![c] = [p EXCEPT !.todo = <<>>, !.peer = "shut"]]
     \/ sock' = [sock EXCEPT ![c] = [p EXCEPT !.todo = <<>>, !.peer = "reset", !.inbox = <<>>]]
  /\ UNCHANGED <<tableVars, loopVars, conn, stat, env>>

Signal ==
  /\ running /\ running' = FALSE
  /\ UNCHANGED <<pc, batch, cursor, sinceSweep, tableVars, conn, sock, stat, env>>

Tick ==
  /\ pc \notin {"sweep", "stopped"}
  /\ sinceSweep' = Least(sinceSweep + 1, CleanupPeriod)
  /\ conn' = [c \in Conn |->
       IF c \in alive THEN [conn[c] EXCEPT !.age = Least(@ + 1, AgeCap)] ELSE conn[c]]
  /\ UNCHANGED <<pc, running, batch, cursor, tableVars, sock, stat, env>>

-----------------------------------------------------------------------------

Handler(e) ==
  \/ AcceptFails(e) \/ AcceptRefused(e) \/ AcceptAdded(e)
  \/ HandleHangup(e)
  \/ ReadFails(e) \/ ReadRefuses(e) \/ ReadMore(e) \/ ReadAnswers(e) \/ ReadRejects(e)
  \/ WriteFails(e) \/ WriteSome(e) \/ WriteEnds(e)

Loop ==
  \/ CheckRunning \/ EpollWait \/ EpollInterrupted \/ EpollFails
  \/ AfterBatch \/ SweepStep \/ SweepDone \/ Destroy

Server == Loop \/ \E e \in batch : Handler(e)

Environment ==
  \/ Connect \/ Signal \/ Tick
  \/ \E c \in Conn : BeginRequest(c) \/ Deliver(c) \/ Receive(c) \/ Leave(c)

Next == Server \/ Environment

Spec == Init /\ [][Next]_vars

\* The process is scheduled; what the peers and the clock owe is said where a
\* property needs it.
FairSpec == Spec /\ WF_vars(Server)

-----------------------------------------------------------------------------

ServerTypeOK ==
  /\ TableTypeOK
  /\ pc \in {"top", "wait", "events", "sweep", "exit", "stopped"}
  /\ running \in BOOLEAN
  /\ batch \subseteq [src : Conn \cup {Listener}, in : BOOLEAN, out : BOOLEAN, hup : BOOLEAN]
  /\ cursor \in 0 .. MaxCount
  /\ sinceSweep \in 0 .. CleanupPeriod
  /\ conn \in [Conn -> [state : {"IDLE", "READING_HEADER", "READING_BODY", "WRITING"},
                        rx : Seq(Kind \X Nat), size : Nat, offset : Nat,
                        requests : Nat, age : 0 .. AgeCap, interest : SUBSET {"IN", "OUT"}]]
  /\ sock \in [Conn -> [peer : {"open", "shut", "reset"},
                        inbox : Seq(Kind \X Nat), outbox : Seq(BOOLEAN), todo : Seq(Kind \X Nat),
                        begun : Nat, answers : Nat]]
  /\ stat \in [total : Nat, request : Nat, error : Nat, response : Nat]
  /\ env \in [backlog : Int, connects : Nat, begun : Nat, faults : Nat]

\* No handler is given a connection that an earlier event of the batch, or the
\* first half of the same event, has freed (server.cc:175-246): every pending
\* event is of a live connection.
BatchAlive == \A e \in batch : e.src # Listener => e.src \in alive

\* epoll watches a connection for writing exactly while it has a response to
\* write, and for reading otherwise, so that it neither stalls nor is read and
\* written in one event (server.cc:211-213, 317-319, 431-433).
InterestFollowsState ==
  \A c \in alive :
    conn[c].interest = IF conn[c].state = "WRITING" THEN {"OUT"} ELSE {"IN"}

\* A request that was processed gets one response, whole and once: the ones in
\* the peer's hands or on their way are those processed, less the one being
\* written (server.cc:309-320, 424-434).
OneAnswerEach ==
  \A c \in alive :
    /\ sock[c].answers + Ends(c) = conn[c].requests - (IF conn[c].state = "WRITING" THEN 1 ELSE 0)
    /\ conn[c].requests <= sock[c].begun

\* The sweep leaves no expired connection behind the cursor, although closing
\* one moves another into its slot (connection.cc:139-163).
SweepLeavesNone ==
  pc = "sweep" => \A s \in 0 .. cursor - 1 : ~Expired(connections[s])

\* What the server must refuse of a request.
Refusable(k) ==
  ~Magic[k] \/ BodySize[k] < 0 \/ BodySize[k] + HeaderSize > MaxRecv \/ ~Handled[k]

\* A connection is closed for a cause only: its peer has left, it has expired,
\* a call has failed, its request is one the server must refuse, or the server
\* shuts down.  A peer that sends good requests one at a time, in whatever
\* pieces, keeps its connection (server.cc:262-357).
ClosedForCause ==
  [][\A c \in alive \ alive' :
       \/ sock[c].peer # "open" \/ Expired(c) \/ env'.faults # env.faults \/ ~serving'
       \/ \E i \in 1 .. Len(RxOnRead(c)) : Refusable(RxOnRead(c)[i][1])]_vars

\* The loop uses the connection manager as ConnTable.tla says it may be used.
UsesTable == TableSpec

\* As time passes, a connection whose peer stops, at any point of the protocol,
\* is closed in the end: no state escapes the timeouts (connection.cc:144-162).
NoneKeptForever == WF_vars(Tick) => \A c \in Conn : c \in alive ~> c \notin alive

\* All of a request has arrived, and no answer to it.
WholeRequest(c) ==
  c \in alive /\ sock[c].begun > sock[c].answers + Ends(c) /\ sock[c].todo = <<>>

\* As peers read what they are sent, a request that has arrived whole is
\* answered or its connection closed, even if time stands still and no timeout
\* comes to the rescue (server.cc:307-327, 392-437).
EachAnswered ==
  \A c \in Conn : WF_vars(Receive(c)) => (WholeRequest(c) ~> ~WholeRequest(c))

\* SIGTERM ends the server, with every connection freed (server.cc:160-164).
SignalStops == ~running ~> (pc = "stopped" /\ alive = {})
=============================================================================
