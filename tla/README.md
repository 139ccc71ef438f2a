# Verification of stoxdb

stoxdb keeps a table of records in memory and serves it over TCP. A record has a
fixed set of typed fields; some fields are *formulas*, which the server recomputes
whenever a field they read is written. One thread runs everything: an epoll loop,
the protocol, the requests, and the dump of the table to a file.

This directory holds TLA+ modules of that program, the TLC configurations that
model-check them on small instances, and TLAPS proofs of what holds for every
value of the constants. All source references are to `src/`.

    tlc -config ServerFaults.cfg MCServer.tla     a run
    tlapm Record_proofs.tla                       a proof

`PROJECT.json` lists the runs, the theorems, the lines each definition stands for,
and for each property a change of the code that it would catch. Some definitions
have a neighbour with the comment "the mutation": that is such a change.

## 1. The system

| Part | State | Operations | Used by | What makes it correct |
|---|---|---|---|---|
| Connection manager (`connection.cc`) | `connections[]`, `count`, `id` of each connection | add, close (swap-remove), free all, idle sweep | the loop's handlers | array, counter and ids agree; nothing freed twice or never; the sweep misses none |
| Event loop and protocol (`server.cc`, `netypes.h`) | the epoll batch, `state`, `recv` and `send` of each connection, the counters, `running` | accept, read, write, hang-up, sweep, parse a header, dispatch, shut down | peers and the kernel | one whole answer per request; no freed connection handled; no connection kept for ever or closed without a cause; a signal ends it |
| Process (`main.cc`) | `running` | load, serve, dump, exit | signals | the order, and which exits skip the dump |
| Record store (`record.cc`) | `data_`: key to record | SET (`setone`, `opt_set`), DEL | `process_data` | formulas are up to date after each entry; the worklist ends; refused entries do what they say |
| Backup (`record.cc`: `dump`, `load`) | the dump file | DUMP, dump at shutdown, load at start | the process, `process_data` | a restart has the records of the last dump |
| Configuration (`meta.cc`, `db.conf`) | `fields_`, formulas, `decide` of each field | `load_config`, `has_circle` | `Record`'s constructor | no cycle of formulas is accepted; the check ends |
| Formulas (`expression.cc`) | the nodes, the stack of the check, `Computer::data` | load, check, compute | configuration, `setone`, conditions, queries | accepted exactly if well formed; computed as they read; no stack underflow |
| Conditions (`logical.cc`, `record.cc`) | the `Logical`, `lg_stack_` | load, check, evaluate | DEL, GET, AGG | the same, and the evaluation stack stays in its array |
| Queries (`record.cc`: `opt_get`, `opt_agg`, `opt_del`) | `request_`, `read_data_`, `lg_`, which outlive a request | select, filter, sort, slice, group, aggregate, erase | `process_data` | each answer is what its request alone says, by a naive definition |
| Buffers (`buffer.cc`) | `data`, `capacity`, `size`, `offset` | expand, set, free | the loop, all requests | nothing is written beyond the capacity |
| Introspection (`opt_test`, `opt_conf`, `opt_column`, `opt_detail`, `opt_status`) | none | formats state | `process_data` | - |
| C++ client, Python client | one socket, the list of fields learnt from the server | connect, send, receive; Python connects and sends again | programs | a call returns its own answer, whole; its ids are of the server's fields; it ends |
| Helpers (`base.cc`) | none | byte order, string helpers | all | - |

What is hard here is not parallelism, as there is one thread. It is what a single
thread leaves open between its steps:

- the *batch*: `epoll_wait` hands out pointers to connections that an earlier
  event of the same batch may free;
- *fragmentation*: requests arrive and answers leave in any pieces, and state of
  one request (`recv.offset`, `send.offset`) outlives it;
- *failures of system calls* inside handlers that still return success;
- *time*: peers stop anywhere, and only the sweep gets their slots back, while it
  changes the array it walks over;
- *the worklist* of `setone`, which computes formulas in the order of their ids
  and not of their dependency, in place and with early returns;
- *crashes* in a dump that has already truncated the only copy;
- *the stacks* of three small interpreters that pop two items without looking;
- *members shared by requests*: GET, AGG and DEL parse into one `request_`, filter
  `read_data_` in the place where they read it, and leave all of it behind, after a
  refusal too;
- *lost connections*, on the side of the clients: a request may have run without
  an answer, an answer may end anywhere, and the server that is connected to next
  may have been started with other fields.

`PROJECT.json` lists these hazards one by one, at their lines.

## 2. The modules

    OpenSet  <-implements-  ConnTable  <-extends-  Server
    Store    <-implements-  Record
    Backup   <-implements-  Persist
                            Meta
    Formula  <-extends-  Grammar  <-extends-  Expression
                         Grammar  <-extends-  Conditions  <-extends-  Logical  <-extends-  Query
                            Client

`OpenSet`, `Store`, `Backup`, `Grammar` and the last part of `Conditions` say what a
component promises, without
looking at how; the others are translated from the code. The implementations are
checked as `PROPERTY` with a refinement mapping (`INSTANCE ... WITH`). `MC*`
modules hold the instances for TLC, `*_proofs` the theorems.

### ConnTable (`connection.cc`, the parts of `accept` that fill the table)

`connections`, `count` and `id` are the code's. `alive` is the set of allocated
blocks; a block that was freed may be allocated again, so a dangling pointer can
come to life as another connection. `AddConnection` is the tail of the accept
handler, `CloseConnection` is `close_connection`, `AddAndClose` the accept whose
`EPOLL_CTL_ADD` fails, `FreeManager` is `free_connection_manager`. Slots past
`count` keep what they held, as in the code.

`OpenSet` is the abstract view: a set of open connections of bounded size.

### Server (`server.cc`, the sweep of `connection.cc`, the flag of `main.cc`)

Extends `ConnTable`; every handler that closes or adds a connection is the
corresponding `ConnTable` action and more.

- `pc` is where `start()` is: at the test of `running` (`top`), in `epoll_wait`
  (`wait`), in the loop over the events (`events`), in `cleanup_idle_connections`
  (`sweep`), past the loop (`exit`), past the destructor (`stopped`).
- `batch` holds the events not handled yet, with their readable, writable and
  hang-up flags as they were when `epoll_wait` returned. A handler takes its event
  out of the batch; a read handler that returns true goes on to the writable half
  of the same event, as the code does.
- `conn` is the `connection_t`; `rx` is what `recv` holds of the current request.
  A byte stream is a sequence of *units* `<<kind, j>>`, the j-th unit of a request
  of some kind; `HeaderSize`, `BodySize` and `RespSize` are in units. A header is
  recognised only if its units are those of one request from the first on, so that
  surplus or misaligned bytes are told apart from a header.
- times are *ages*, saturating just past the largest timeout. `Tick` ages every
  connection; no time passes inside the sweep because the code reads the clock
  once before it.
- `sock` is the connection's socket and the peer behind it; `env` counts what the
  bounds limit. `sock.answers` counts whole responses the peer has read.
- one action per outcome of a handler: `ReadFails`, `ReadRefuses` (`parse_header`),
  `ReadMore`, `ReadAnswers`, `ReadRejects` (`process_data` is false), `WriteFails`,
  `WriteSome`, `WriteEnds`, `AcceptFails`, `AcceptRefused`, `AcceptAdded`,
  `HandleHangup`.
- a *fault* is a failed system call or allocation, or an event that was not due.

A closing peer is noticed (`EPOLLRDHUP`) before anything it has sent is read: the
model follows the code, and a request followed at once by a close is dropped.

What a request does to the records is left to `Record`; here it has a verdict
(`Handled`) and a response size.

### Record (`record.cc`: `setone`, `opt_set`, `opt_del`)

`pc` follows `setone`: `entry` (between entries), `write` (the loop over the ids),
`compute` (the levels of `decide`), with one step per write and per formula.
`decide` and `next` are the two sets of the worklist. `before`, `assigned` and
`touched` are history: the table before the entry, the fields assigned for it,
and the keys for which the clause "formulas are up to date" is off because a
client wrote a formula itself or had an entry refused half-way.

Formulas are a parameter: `Deps` says what each reads, and `EvalAssumption` that
`Eval` reads nothing else. `Store` is the abstract view: an accepted entry is one
step, after which every field downstream of a written one equals its formula. It
says nothing of levels or order, so it is not the worklist in other words.

### Persist (`record.cc`: `dump`, `load`; `main.cc`, the end of `start()`)

`file` is the sequence of whole records in the dump file and `torn` what a crash
left of the next one. `snap` (history) is the table when the last dump began.
`size` is the number of fields configured; `AddField` is the edit of `db.conf`
that `db.conf:8` allows, between two runs. A file that ends inside a key leaves the
rest of the key to what `load`'s buffer held before; one that ends inside a value
gives some fields, a part of one, and zeros: both are nondeterministic choices.
`Backup` is the abstract view: what a restart finds.

### Meta (`meta.cc`: `load_config`, `has_circle`)

`names` and `deps` are filled line by line, in the order of the sections, with any
line possible next; a line that `tofield` or `load_expression` would refuse is
`BadField` or `BadFormula`. Then `fid`, `curr` are the outer loop and the worklist
of `has_circle`, one level per step. `seen` is history. `OnCycle` and `Acyclic`
are stated by closed sets, not by following the graph as the code does.

### Formula, Grammar, Expression (`expression.cc`)

`Formula` is the code as operators: one step of `load_expression`, one of
`check_expression`, and the `Computer`. A text is a sequence of lexemes, so names
and runs of digits are one element; the sign `-` stays a lexeme of its own because
the code decides by the node before it whether it is an operator. A double is a
fraction, or NaN. `Grammar` is the reference: which numbers a text may stand for
in the usual grammar. A reading says that a part of the text stands for a number as
a primary, a product or a sum; simple ones are given, further ones follow, and
`Meanings` collects them until no more can come. `Expression` runs
the three loops step by step, so that what the stacks hold can be stated, and
computes one formula for several records in turn, as one `Computer` serves all.

### Conditions, Logical (`logical.cc`; `compute_logical` and `put_stack` of `record.cc`)

`Conditions` is what the code does with one node, one comparison or one stack, as
operators, and what conditions mean; `Logical` has the loops. `load_logical` splits
the nodes around each comparison (`Split`, with the searches for the two ends of
it), `check_logical` and `change_fname_to_fid` check the result, and
`compute_logical` evaluates it for one record after another on `lgStack`, the code's
string of `(`, `A`, `O`, `T`, `F`. `Holds` is what one comparison yields: on numbers
with the `Computer` of `Formula`, truncated to integers when no operand is a double,
on strings, and `LIKE` with its anchors. A remainder by what truncates to zero, and
NaN where an integer is asked for, are undefined in C++ and end the evaluation
(`EvaluateTraps`).

`Truths` is the grammar of `logical.h`, in the form that `Grammar` has for formulas:
comparisons are readings of level 0, brackets around a condition are too, and a
reading of level 1 is joined to one of level 0 at its right. `Means` gives each
comparison its truth: numbers are those that `Grammar` gives the two expressions,
and a pattern matches if anything may stand around it that its anchors do not
exclude, without the prefix, suffix and `contain` of the code. A condition that can
be read in two ways with different truths would make `EvaluatesMeaning` false.

### Query (`record.cc`: `opt_get`, `opt_agg`, `opt_del`, and their parsers)

Extends `Logical`, whose variables are the members `lg_` and `lg_stack_`; so a
condition meets whatever the last one left there. `phase` is the loop the request
is in. Parsers are two actions each, one for a refusal with what it has already
written to `request_` (`Until`). The loops that change what they walk over are
taken record by record: `FilterEnd` writes into `found` where it reads, `DeleteEnd`
erases from `data` and advances the iterator; the others are one step, those over
keys as folds (`Selected`, `DelKeys`). `data_` is a map, so no key is in `data` twice
(`KeysDiffer`), and `data` is a sequence because the order in which the map is walked
shows in answers. `Sort` may
choose any order that `compare` allows, as `std::sort` may. `asked` and `before`
are history: the request and the table when it came, which is all that `GetExact`,
`AggExact` and `DelExact` look at.

Where the code departs from what a client asks, the properties name it:
`Counts`/`Counted` (only the first field of an order counts, an `int1` field not at
all, an `int8` field by its lowest byte), the accumulators that start at 0, and
`ReadsBeyond` for the id one past the last. The sum of a `char` field reads memory
that was never set and is in no instance.

### Client (`client.cc`: `Client`, `Send`, `Recv`; `stoxdb.py`: `__connect`, `__send`, `__recv`, `__send_and_recv`)

`lang` says which of the two runs. `pc` is where a call is, `stack` the requests
under way: Python's `__connect` asks for the list of fields through
`__send_and_recv`, which may connect again, so they nest. `fields` is the list
known, by the number of the configuration it was taken from, and `packed` the one
that the ids of the current request were taken from. `link`, `inbox`, `out` are
the connection and what is on it. `Disconnect` is the server closing the connection or
ending and starting again, possibly with a field more. `RecvPart` is a header of
which only a part has arrived, which neither client waits for; `skewed` remembers
that C++ then keeps a socket with the rest of an answer in it. `ran` is history:
the requests executed, with the configuration they were executed under.

The calls of both clients differ only in what they pack and how they print it.

## 3. The runs

Each run checks its invariants in every reachable state of its instance. Deadlock
checking is off: every bounded environment runs out of inputs, and the server
stops by design.

| Run | Checks | Shows |
|---|---|---|
| `ConnTable` | `TableTypeOK` `SlotsAgree` `NothingLeaked` `ImplementsOpenSet` | after every sequence of accepts and closes the table is consistent and is a bounded set; shutdown frees all |
| `ServerStream` | `ServerTypeOK` `OneAnswerEach` `ClosedForCause` | requests of five kinds, in every fragmentation, with partial writes: each processed request has one whole answer, and nobody who keeps to the protocol is disconnected |
| `ServerFaults` | `BatchAlive` `InterestFollowsState` `SweepLeavesNone` `UsesTable` | with a fault anywhere, no freed connection is handled, epoll watches for what the state needs, the sweep misses nobody, and the loop uses the table only by its operations |
| `ServerLive` | `NoneKeptForever` `EachAnswered` `SignalStops` | silent peers are disconnected, complete requests are answered, a signal ends the server |
| `RecordStore` | `RecordTypeOK` `NothingForgotten` `FormulasCurrent` `ImplementsStore` `SetEnds` | the worklist forgets nothing and ends; every SET and DEL is a step of `Store` |
| `PersistBackup` | `PersistTypeOK` `ImplementsBackup` | what a restart finds after stops, crashes and added fields |
| `PersistWide` | `KeysLoad`, **violated** | a key of 33 to 64 bytes is stored and dumped and overruns the buffer of `load` |
| `MetaCheck` | `MetaTypeOK` `AcceptedAcyclic` `RefusedForCycle` `AcyclicAccepted` | `has_circle` accepts no cycle, refuses for nothing else, and accepts what has none |
| `MetaHangs` | `CheckEnds`, **violated** | `has_circle` never returns from a field that leads to a cycle it is not on |
| `Expression` | `ExprTypeOK` `StackSafe` `CheckExact` `ComputesMeaning` | formulas are accepted and computed as the grammar says, with the departures named below |
| `Query` | `QueryTypeOK` `ConditionExact` `EvaluatesMeaning` `EvaluationFollowsCheck` `GetExact` `AggExact` `DelExact` | conditions are accepted exactly if in the grammar and evaluate as they read, on a stack that follows the check's; every GET, AGG and DEL gives and does what its request alone says |
| `Client` | `ClientTypeOK` `AnswerTells` `StaleOnlyResent` `CallEnds` | whose answer a call returns, how often its request ran, with which ids, and whether it ends |

### Bounds

- `ConnTable`: 4 blocks for 3 slots. A hole at the first, a middle and the last
  slot, a full table, and a block that is reused while stale pointers to it remain.
- `ServerStream`: one slot and two blocks, so that the block of a closed connection
  is and is not reused; 2 requests on a connection, so that a second request meets
  what the first left; a header of 2 units, so that it can be split; a body of 2,
  and one (`huge`) beyond `MaxRecv`; answers of up to 3 units against a kernel
  buffer of 2. One slot is enough here: no property of the run relates two
  connections.
- `ServerFaults`: two slots and three attempts to connect, so that one is refused,
  a batch holds two connections, and a close moves the other; events on both in
  any order; one fault. Requests are one unit, as their shape is the other run's
  subject.
- `ServerLive`: one connection, two requests of two kinds, one fault. Both
  timeouts differ from each other and from zero. No symmetry.
- `RecordStore`: 5 fields of which 3 are formulas; field 2 reads field 3, which
  has a larger id, and field 0 reaches field 2 on two ways, so the order of ids is
  wrong at least once and one field is computed twice. Values are 0 and 1. An
  entry has up to two writes, of inputs, of a formula, of the id one past the last
  and of one beyond it. A request has one entry (`MaxEntries`): entries share no
  state but `data`, which successive requests share too.
- `PersistBackup`: two keys that fit and one that does not, 2 fields of 2 values:
  a dump of three records, cut at every place, loaded before and after a field is
  added.
- `MetaCheck`: three fields (`MaxFields = 2`, of which the code accepts one more),
  all graphs on them: self-loops, a cycle of three, a diamond short of its end, a
  cycle off the path.
- `Expression`: all texts of up to 5 lexemes over brackets, `-`, `+`, `*`, a name
  and digits; of up to 4 with spaces, foreign operators and characters; and the
  longer chains, bracketed and nested formulas over all five operators, where
  precedence and the sum over a bracket show.
- `Query`, conditions: all sequences of up to 5 units (comparisons with and without
  brackets of their own, brackets, `AND`), other kinds and single nodes, longer
  conditions of three and four comparisons, nested, and every comparison of every
  type, with divisions and remainders by zero. `LgSize` is 7 where the code has 128, so that the deepest condition
  overruns it. Each is the condition of one GET over six records that hold both
  values of each number and all strings.
- `Query`, sessions: single requests over five tables (none, one and three records,
  in three orders), with ties, signs, an `int8` beyond a byte, and strings that
  would run together in a grouping key; and two requests in a row over one table,
  the first of which is refused, filtered, sorted or grouped. Two are enough for
  what one leaves to the next, as every parser overwrites what it reads.
- `Client`: three calls and three faults, so that a call is sent again twice, a
  connection is lost inside the connecting of another, and after a split header
  there is a call that misreads and one after it; two lists of fields; an answer of
  two units of header and two of body, cut at each place; a misread header may
  announce fewer units, as many, or more than there are (`MaxNeed`).

### Fairness

- `Server`: `FairSpec` is weak fairness of the server's steps together. The process
  has one thread that always has a next step once `epoll_wait` returns, and
  `epoll_wait` has a timeout, so scheduling is all it needs. The environment is not
  fair; where a property needs it, it says so itself: `NoneKeptForever` holds as
  time passes (`WF(Tick)`), `EachAnswered` as the peer reads what it is sent
  (`WF(Receive(c))`). `EachAnswered` is without `Tick`: no timeout comes to the
  rescue.
- `Record`: weak fairness of `setone` and of the end of a request; they run to
  completion in one call.
- `Meta`: weak fairness of the check, also one call.
- `Client`: weak fairness of the client's steps together, which is one thread that
  does nothing else until the call returns, and of `Execute`, the server answering
  a request that has arrived (`EachAnswered` of `Server`). That the server can be
  connected to again is part of it. Losing connections is not fair.

## 4. What is proved

TLAPS 1.4.5 checks every step. The assumptions are those named in the modules
(`TableAssumption`, `RecordAssumption`, `EvalAssumption`, `MetaAssumption`,
`PersistAssumption`, `ExpressionAssumption`, `ClientAssumption`,
`ServerAssumption`, `ConditionAssumption`, `LogicalAssumption`, `QueryAssumption`); TLC evaluates them in the runs.

**Server_proofs**, its first part - the connection table, for any set of blocks and
any limit. The inductive
invariant `TableInv` is the types, `SlotsAgree`, `NothingLeaked`, and that `alive`
is finite with `count` members while the server runs. `SlotsAgree` alone is
inductive for the swap, but not enough to show that the code's `count < MaxCount`
is the bound on the *set* that `OpenSet` asks for; the cardinality is. Theorems:
`TableTyped`, `TableConsistent`, `ShutdownFreesAll`, `CountCorrect`, and
`TableRefines`, that the table implements `OpenSet`.

Its second part - the loop, for any number of connections, any limits and kinds of request,
and system calls that fail at any time. `ServerInv` is `TableInv` together with
what the loop adds (`OwnInv`): the pending events are of distinct live connections
(`BatchDistinct`, `BatchAlive`) and none is both readable and writable
(`BatchOneWay`, which holds because epoll watches for one of the two,
`InterestFollowsState`), there are none outside the handling of a batch and the
cursor of the sweep is within the array (`LoopInv`), what is behind it has not
expired (`SweepLeavesNone`), and no response is written past its end (`Windows`).
Without distinct events a handler could free the connection of another; without
`BatchOneWay`, of the second half of its own. Theorems: `ServerTyped`,
`BatchNeverStale`, `InterestCorrect`, `SweepComplete`, and `ServerUsesTable`: every
step of the server is a step of `ConnTable` or leaves the table alone, so that the
theorems above hold in the server.

Its third part is about what passes over a connection. `StreamInv` adds to
`ServerInv` that each live connection is in one *talk* with its peer (`Talk`): the
responses the peer has read and those whole in its socket's buffer are the requests
processed, less the one being written; and either all that was begun is processed
and no part of a request is pending, in the socket or in `recv`, or one request
more was begun, nothing is being written, and what is pending is a part of it, from
its first unit on. Without the second half a read could take the rest of one
request for the header of another; without the first a response could be counted
before its last unit is written. `FreeFresh` says that a free block has no socket,
so that a block that is used again starts a new talk, and `Told` that a readable
event is of a connection that is not writing and a hang-up of a peer that has left,
whatever the events handled before it in the batch did. Theorems: `StreamInductive`,
`AnsweredOnce` (`OneAnswerEach`) and `ClosedOnlyForCause` (`ClosedForCause`).

**Record_proofs** - for any number of fields and any dependency graph, cycles
included. `RecordInv` adds to `NothingForgotten` that an entry is open and its
record exists while it is worked on (`EntryOpen`), and that `next` is empty while
ids are still read (`FirstLevel`). The heart is `ComputeOne`: computing `f` puts
all that reads `f` on the next level, and leaves current what does not read it.
Theorems: `RecordTyped`, `WorklistComplete`, `LongKeysNeverStored`, and
`FormulasAlwaysCurrent`, which needs the further invariant `UpToDate` (a formula
that reads nothing assigned for this entry is as current as it was before the
entry) and the assumption `BlankCurrent`, stated in the theorem: formulas are zero
on a record of zeros. Without it a new record has stale formulas until an entry
touches what they read, in the code as in the model.

`RecordRefines` is that `Record` implements `Store`. The invariant `StoreInv` relates
an entry that is under way to the one step it will be: only its record differs from
the table before it (`OnlyCurrent`); the writes done and those left are the entry,
and the record shows the ones done (`Prefixed`); while formulas are computed, only
what is downstream of the entry is on a level, all else has the value that the
writes gave it, and what reads an assigned field is assigned itself or waits
(`Computed`). When both levels are empty the fields assigned are closed under
dependency, and so hold all that is downstream of the entry, as `Store` defines it
by the closed sets; `NothingForgotten` says that they equal their formulas. It needs no assumption on the graph: an entry that never ends on a cycle
is, until then, no step of `Store` at all.

**Meta_proofs** - for any number of fields and any graph. `MetaInv` says that what
is downstream of the field asked about has been seen, is on the worklist or is
reached from there (`Searching`), that the worklist holds nothing else
(`Reached`), and that the fields already asked about are on no cycle (`Cleared`). Theorems: `MetaTyped`,
`CheckSound` (accepted implies acyclic), `RefusalJustified` (refused for a cycle
only). That it ends is false, see below, and for acyclic graphs is model-checked.

**Persist_proofs** - for any keys, fields and values. `PersistInv` relates the
file to `snap` at every point: each record of the file is that of `snap`
(`FileOfSnap`), while dumping the keys written and left make up the table
(`Dumping`), while loading memory is what was read of the file (`LoadOfSnap`), and
no table holds a field beyond those configured. Theorems: `PersistTyped` and
`RestartRestores`, that the process with its file implements `Backup`.

**Expression_proofs** - for any text. `Safe(stack)` says that every operator of the
stack stands on a number; together with the types and with the length of what is
loaded it is inductive. Theorems: `ExprTyped`, `StackNeverUnderflows`.

`CheckIsExact` (`CheckExact`) relates a loop with a grammar. `Maps` says that the
nodes are the lexemes of the plain text, a sign and its digits being one node
(`MapsStep`, while the text is loaded). Of the grammar two facts are needed. What it
derives is derivable: the readings grow until they are closed under `Further`
(`MeaningsMade`, `MadeFurther`), so a number, a product or a sum that follows a
derived part is derived too (`Derived`, `DerivedSum`, `OperandProduct`), and what
`check_expression` accepts has a meaning. And what has a meaning is sound: each
reading is balanced and alternates operands and operators (`Sound`,
`ReadingsSound`). The stack of the check is then, after each node, either that of a
prefix derived at every open bracket (`GoodStack`), or has an operator below a bracket
and can no longer become one number (`BadStack`, `BadStays`), which happens exactly
if the text departs from the grammar at the place read (`NoDeparture`); a node that
does not fit is at a place where no sound text has it (`Doomed`). `CheckInv` holds
these together.

`ResultIsMeaning` (`ComputesMeaning`) follows the Computer over a text that was
accepted, which by `CheckInv` is sound and has no departure: brackets are opened
only where everything begins. So the stack is, after each node, the open brackets and
above the last of them a sum with its sign and a product (`Parts`), which agree with
the sum and the product that `Derived` gives the places since (`Computed`): equal as
fractions, or both NaN (`Agrees`). `push_number` keeps that while it applies `*`, `/` and
`%` (`AgreesBound`, `PushesOperand`), and a closing bracket takes off exactly what was
put on since the opening one (`OpeningAt`, `HoldsClosed`) and makes its total of it
(`PartsTotal`). The loop of `result()` is a fold; that each item adds one step to it
(`FoldedStep`) is proved from the recursion by which the library defines folds.
`ComputeInv` holds these together.

**Client_proofs** - for any number of calls, of connections lost and of lists of
fields, and answers of any size. `ClientInv` says that while the connection is up
all that is on it, requests and answers, is of the server at its other end
(`OfServer`), that the list known is that server's unless it is being asked for
(`Known`), that a call is below something else on the stack only after it was sent
(`SentOnce`), and that before it was sent its ids are of the list known
(`PackedNow`). It is inductive because a server that changes takes the connection
with it, and a new connection is asked for the list before anything else.
Theorem: `FirstSendingFresh`. C++ has no other sendings (`CcOnce`); Python has, and
they are the exception in the property.

`AnswerOfThisCall` and `ClientTypes` need more, `AnswerInv`. Its heart is
`OneAtATime`: unless C++ has left part of an answer behind (`Clean`), there is one
request or one answer on the way, never both; what was read and what is left make
up one answer, the whole of it while the connection is up; and each of its units is
of the last sending of the request on the stack, which a server has executed
(`Fits`, `Coming`). `Executed` says that no sending is executed twice, so the
executions of a call inject into its sendings. `Costs` pays for each sending and
each nested request with a failure: Python connects again only when a failure was
counted, which `PartIsAll` derives from `Coming` (a header falls short only of a
connection that was lost). `Answered` keeps all this for the program until it makes
the next call, whatever the server does meanwhile.

**Query_proofs** - for any table, any session of requests, and conditions of any
length. Its heart is that two interpreters walk alike: `check_logical` replaces marks
on its stack, and `compute_logical` pushes, pops and joins characters on `lgStack`.
The walk of the check is a fold (`Walk`), and `LogicalInv` says of it that before
the end of the check `stack` is the walk of the nodes seen, which have all passed
(`Checking`, `Passes`), that a condition is evaluated only if all of it has passed
and left one expression (`Accepted`), and that the marks of `lgStack` are then the
walk of the nodes evaluated (`Evaluating`). What makes this inductive is the shape of
every walk that passes (`WalkShape`): an operator has its operand below it and
nothing but a bracket above it (`Formed`). So `put_stack` joins once and meets no
operator below (`JoinPlace`), and does to the marks what `push_expr` does
(`PutShape`). The depth needs a second argument, from the end backwards: a step never
gets rid of an expression that has no operator behind it (`TightBack`), and an
accepted condition leaves one expression, so no walk on the way had such a one
(`WalkTight`), and a walk without them is at most three marks for each bracket and
two more (`TightIsShallow`). `QueryInv` adds the types of the shared members,
`size < p` in a filter (`Filtering`), the iterator of DEL (`Deleting`), and that
groups are of the request's own aggregates (`Grouped`), which needs that AGG starts
without groups whatever a request before it left. Theorems: `QueryInductive`,
`FollowsCheck` (`EvaluationFollowsCheck`) and `QueryTypes` (`QueryTypeOK`).

The second part is that conditions mean what they say: `ConditionIsExact`
(`ConditionExact`) and `EvaluationMeans` (`EvaluatesMeaning`), from `MeaningInv`.
Three descriptions of one condition have to be brought together. `load_logical` cuts
it into parts, each a node or a comparison with its sides; `Splitting` says so while
it runs, and `Cover` when it is done, with the bounds of the parts. The grammar reads
it; each reading is well placed, and the comparisons in it have exactly the sides that
the cuts give them (`WellCut`), because a bracket opened on one side of a comparison
is closed on that side. And the two interpreters walk over the parts. That the check
passes exactly what has a reading is proved as for formulas: from a reading to the
walk over its parts (`Followed`: every reading of level 0 pushes one truth, every one
of level 1 one truth after an empty stack or a bracket), and from a walk that passes to
a reading, by what lies under each mark of its stack (`Laid`, `Stood`). `Runs` is the
walk of the evaluation over the parts of a reading: whatever is on the stack, it ends
with the truth of the reading joined to what waited for it. So the result is the
reading's truth, and since the evaluation has one result, no condition has two truths.
What one comparison yields is compared with what it means below that: `Computing` with
the readings of `Grammar` (the theorems about formulas again, from **Grammar_proofs**),
strings with `LIKE`'s anchors by where a part of a text begins and ends (`Has`).

The third part is what DEL does, `DeletesExactly` (`DelExact`). Rows that are kept are
described by `Picking(s, I, r, h)`: `r` has the elements of `s` at the places `I`, in
their order, and `h` numbers them. There is one such sequence only (`PickedOnce`), so
what the loop leaves equals `Kept`, the reference. Each key erases the one place that
has it (`ErasedPicks`); in the loop over the conditions what is left of `data` is a
picking whose missing places are all picked by the condition, and of which the part
behind the iterator has none that is (`Culled`). `Current` is what ties a request to
its loops: that between the parser and the end of the request `asked` is what `ex`,
`request_` and `value` are about, and that nothing else has touched `data`, whatever
the requests before left in the members they share.

The fourth part is what GET answers, `GetsExactly` (`GetExact`). `Sifted` says what
`read_data_` holds in each phase: the records looked at before the condition
(`SelectedIs`: those that the keys find, in the order of the keys); in the filter a
picking of the records before the cursor for which the condition is true, and from
the cursor on the records not yet read (`Sieved`), which needs that writing behind
the reading changes none of these (`WrittenBehind`); after it `Kept`; and after the
sort that in an order the request allows (`Arranged`). `std::sort` is only known to
follow `compare`, so the order comes from `PrecedesCompares`: wherever the client's
first field puts one record before another and counts, `compare` says so too
(`StringsTurn`, `ByteKept`: the difference of two numbers is taken from their lowest
bytes). The loop of `opt_get` over `offset` and `size` then puts the slice
(`PutsAre`, `SlicePut`). That a refusal is due to the fields or the condition follows
from `ConditionExact`.

What is said of every length is proved from `LeastNumber`: exceptions to it would
have a least one. In this way a concrete fold is shown to exist, to be unique and to
unfold (`FoldExists`, `FoldUnique`, `WalkStep`), as no induction theorem of the
library can be applied to it.

`CountCorrect` and `LongKeysNeverStored` are not properties of a run: they follow
from the shape of the guards, and are lemmas for the others. `QueryInductive` is the
invariant from which the two theorems about queries follow.

Only model-checked:

- all liveness: `NoneKeptForever`, `EachAnswered`, `SignalStops`, `SetEnds`,
  `AcyclicAccepted` and `CallEnds`;
- `AggExact`, whose sums and keys are folds over rows and bytes of any number.

## 5. Where the code and its documents disagree

Two runs show a disagreement:

1. `MetaHangs`: `has_circle` (`meta.cc:246`) keeps no set of visited fields. From
   a field that leads to a cycle it is not on, the level is never empty and never
   holds the field asked about. If that field comes first in the file, the server
   never starts.
2. `PersistWide`: `load` (`record.cc:1153`) reads keys of up to 64 bytes into 32.

Others were met while modelling. The models follow the code and the properties
name the exception; no run is spent on them.

- `expression.cc:268`: `check_expression` does not merge what a closing bracket
  stands for with the operator before it, and so refuses `(a+b)*(c-d)`, the example
  of `expression.h:15` (`BracketAfterOperator` of `CheckExact`).
- `expression.cc:111`: after digits `-` is a sign, so `5-3` is refused; a sign
  without digits is the number 0, so `a+-` is accepted. `CheckExact` names both
  (`MinusAfterNumber`, `LoneSign`).
- `expression.cc:355`, `358`: `0/0` is NaN, where `db.conf:74` promises 0 for a
  division by zero; a remainder by what truncates to zero traps (`PushTraps`).
- `record.cc:80`, and likewise 343, 906 and 923: the id equal to the number of
  fields passes the test (`WriteBeyond`, `ReadsBeyond`).
- `record.cc:82`: an entry refused half-way leaves what it has written, with
  formulas not recomputed (`PutPartly` of `Store`, `touched` of `Record`).
- `server.cc:299`: `request` counts reads that parse a header, not requests as
  `netypes.h:49` has it.
- `meta.cc:151`: one field more than the limit of `db.conf:17` is accepted.
- `logical.cc:125`: `LIKE` with nothing at its right reads beyond a vector
  (`EndSplit`).
- `record.cc:518`: nothing bounds `lg_stack_`, though `record.h:131` says that
  false is returned. `EvaluationFollowsCheck` says how deep a condition must be: 42
  levels of brackets fit.
- `record.cc:577`: a string field compared with another is compared with its name
  (`Stands`).
- `record.cc:659`: `compare` tests `kint8` where `kint1` is meant, and returns on
  the first field even if it ties, though a request may name several (`Counts`,
  `Counted`).
- `record.cc:1011`: the accumulators start at 0 and the empty string: the greatest
  of negative numbers is 0, and so is the least of positive ones.
- `stoxdb.py:133`: `__send` tries a socket that was reset for ever, where the
  comment at line 157 says that it tries again when the connection is lost
  (`SendsForEver`).
- `stoxdb.py:152`: the end of the connection inside a body is taken for the end of
  the answer (`AnswerTells`); a request sent again keeps the ids of the old list of
  fields (`StaleOnlyResent`).
- `client.cc:68`: a header in two pieces makes `Recv` fail and leaves the rest in
  the socket, for the next call to misread (`skewed`, `WaitsForEver`).

## 6. What is not modelled

- The byte layout of a SET request, `char` fields longer than their size, integer
  widths and the rounding of doubles: data below the level of the properties.
- A failing `fwrite` or `fclose` in `dump`, whose results the code ignores: what
  reaches the disk then depends on stdio.
- Buffers: `Server` counts units and has no capacities, so what `read` may write
  behind `recv.offset` (`server.cc:270`) and the `int` sum of `parse_header` (342)
  are below it, and so is the byte layout of GET, AGG and DEL; bodies cut short in
  the middle of a part are left out.
- Formulas across a restart: `load` computes none, so a formula added or changed in
  `db.conf` holds only after the next SET that touches what it reads (planned).
- Introspection requests, `print_statistics`, `print_connection` and the byte
  counters: they format state.
- In the Python client, the SQL-like text of `select`, which only splits a string
  into the parts of a request, the encoding of values, and `test`. `Server`'s
  environment sends one request at a time, as both clients do; peers that pipeline
  requests are left out.
- The kernel, the network and the file system are external: `Server` and `Persist`
  model them by how the code uses them.

## 7. Plan

Written so far, in this order, the most central behaviour first: `ConnTable` and
`Server`; `Record` with `Store`; `Meta`; `Persist` with `Backup`; `Formula`,
`Grammar`, `Expression`; `Conditions`, `Logical` and `Query`; `Client`; and the proof
modules.

To come:

1. `System`: `Record` and `Persist` composed, for formulas that change between a
   dump and a load, and records that load as they were dumped.
