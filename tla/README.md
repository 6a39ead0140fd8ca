# Verification of StorageTapper

StorageTapper streams MySQL changes: it reads the binary log of every cluster that has registered
tables, buffers each table's row events in a topic of its own (Kafka, files, or in memory), takes a
consistent snapshot of a newly registered table, and then streams the buffered events to an output
pipe. Work is distributed over processes and threads by MySQL named locks, and all that survives a
process is a few rows of a MySQL state database: `state`, `kafka_offsets`, `columns`, the schemas.

This directory holds TLA+ models of that program, TLC configurations that check them on small
instances, and proofs, checked by TLAPS, of the properties that hold for all instances.
Paths below are relative to the repository.

## 1. The system

| Component | Source | State | Operations | Hard behaviour |
|---|---|---|---|---|
| Worker threads | `main.go`, `pool/pool.go` | size of the pool, threads running | `Adjust`, `Terminate`, worker loop, `idle` | resized by the binlog reader while threads decide whether to end |
| Shutdown | `shutdown/shutdown.go` | flag, thread counter, signal channel | `Initiate`, `Register`, `Done`, `Wait` | threads registered while the shutdown runs; waiting for everybody |
| Distributed lock | `lock/lock.go` | a connection, a ticket number; the server's lock table | `TryLock`, `Refresh`, `IsLockedByMe`, `Unlock`, `Close` | lost sessions, a granted lock whose answer is lost, an unlock that fails, several tickets per name |
| Binlog reader | `changelog/mysql.go` | GTID set, seqno, entries per table, producers | `start`, `readEvents`, `processBatch`, `updateState`, `reloadState`, `handleEvent` | restarts, state updates in the middle of an event, take-over while the old reader still runs |
| State store | `state/state.go` | rows of `state`, `columns`, `clusters`, `raw_schema`, `output_schema` | `RegisterTable`, `DeregisterTable`, `ReplaceSchema`, `SaveBinlogState`, `GetGTID`, ... | several statements per operation, no isolation between processes |
| Streamer start | `streamer/streamer.go`, `streamer/snapshot.go` | locks, a consumer, a snapshot cursor | `start`, `ensureBinlogReaderStart`, `waitForGtid`, `streamFromConsistentSnapshot` | overlap of snapshot and change log, retries, partial failures |
| Streamer loop | `streamer/buffer.go` | a channel, an output batch | `StreamTable`, `processBatch`, `eventFetcher` | two goroutines over one consumer, offsets saved while messages are in flight |
| Kafka pipe | `pipe/kafka.go` | rows of `kafka_offsets`, partitions of each consumer, producer batch | `NewConsumer`, `FetchNext`, `SaveOffset`, `Close`, `CloseOnFailure`, `PushBatch`, `PushBatchCommit` | offset arithmetic, consumers joining and leaving, partial sends |
| File pipe | `pipe/file.go`, `pipe/header.go` | a directory of files, read and write positions | `Push`, `PushBatchCommit`, `Close`, `FetchNext` | rotation while a consumer follows, a producer that died, one header for files of several keys |
| Local pipe | `pipe/local.go` | a channel per topic | the same interface | no persistence |
| Snapshot reader | `snapshot/mysql.go` | a read-only transaction and a cursor | `Start`, `HasNext`, `FetchNext`, `End` | failures in the middle of a scan |
| Throttle | `throttle/throttle.go` | counters over wall-clock ticks | `Advice` | rate arithmetic |
| HTTP handlers | `server/*.go` | none | register, deregister, list, schema add/delete | several statements and commits per request, while readers and streamers work |
| Schemas and ALTER TABLE | `schema/*.go`, `state/state.go`, `encoder/*.go` | a raw schema per version, `columns` per table, the encoders' copies | `GetColumns`, `GetRaw`, `MutateTable`, `UpdateCodec` | three copies of one schema, stored one by one |
| Encoding of rows, types, configuration, metrics, logging, utilities | `encoder`, `types`, `config`, `metrics`, `log`, `util`, `db` | none that other components synchronise on | data conversion and I/O | - |

How they interact. `main` starts the pool with one thread. A thread tries to become the binlog reader
of some cluster (lock `cluster.<name>`); if it cannot, it tries to become the streamer of some table
(lock `table_id.<id>`); else it sleeps. In local mode (file and local buffers) the reader resizes the
pool of its own process to one thread per table plus itself. The reader writes events into per-table
topics and saves its GTID set and seqno into the rows of `state`; a streamer reads its topic through a
consumer whose offset is a row of `kafka_offsets`, and writes to the output pipe. The HTTP handlers
insert and delete rows of `state`, which readers and streamers discover by polling.

What makes each correct: a thread that runs is counted and a shutdown waits for exactly those; a ticket
has one holder; the reader loses no event and reuses no seqno over restarts; the streamer loses at most
what the offset protocol allows; the stored schemas follow the ALTER TABLEs; every partition is read by one consumer of a topic; a snapshot and the
change log together cover the table; the files of a topic are read in the order they were written.

## 2. Modules

| Module | What it is | Models |
|---|---|---|
| `KafkaOffsets` | pure operators: the arithmetic of `commitOffset`, `getOffsets`, `initTopicConsumer` | `pipe/kafka.go` |
| `Delivery` | abstract specification: what streaming one topic promises, whatever carries it | - |
| `TableStream` | fetcher goroutine, main loop, consumer and producer of one table, over crashes; implements `Delivery` | `streamer/buffer.go`, `pipe/kafka.go` |
| `TableStreamProofs` | theorems about `TableStream` | |
| `KafkaConsumers` | several consumers of one topic, the distribution of its partitions | `pipe/kafka.go` |
| `KafkaConsumersProofs` | theorems about `KafkaConsumers` | |
| `FilePipe`, `MCFilePipe` | producer and consumer of a topic that is a directory of files | `pipe/file.go`, `pipe/header.go` |
| `FilePipeProofs` | theorems about `FilePipe` | |
| `NamedLock` | abstract specification: what a lock promises to those who work under it | - |
| `TicketLock`, `MCTicketLock` | the distributed lock over lost sessions; implements `NamedLock` | `lock/lock.go` |
| `TicketLockProofs` | theorems about `TicketLock` | |
| `BinlogReader`, `MCBinlogReader` | the readers of one cluster and the rows they share with registration | `changelog/mysql.go`, `state/state.go` |
| `BinlogReaderProofs` | theorems about `BinlogReader` | |
| `TableSchemas`, `MCTableSchemas` | the schema of a table with several versions: ALTER TABLEs, registration, deregistration | `state/state.go`, `changelog/mysql.go`, `server/table_handler.go`, `schema/*.go`, `encoder/*.go` |
| `TableSchemasProofs` | theorems about `TableSchemas` | |
| `Bootstrap` | one table from its registration to streaming: snapshot and change log | `streamer/streamer.go`, `streamer/snapshot.go`, `snapshot/mysql.go`, `server/table_handler.go` |
| `BootstrapProofs` | theorems about `Bootstrap` | |
| `Workers`, `MCWorkers` | pool, worker loop, shutdown, local pipe; reader and streamers by their control only | `main.go`, `pool/pool.go`, `shutdown/shutdown.go`, `pipe/local.go` |
| `WorkersProofs` | theorems about `Workers` | |

The modules overlap where components meet, and each leaves the other's detail out. `Workers` has a
streamer that takes an event from a channel; `Bootstrap` has one that goes through `start` and
`streamFromConsistentSnapshot` and then streams in one step; `TableStream` is that step in full.
`BinlogReader` has two or more tables and their entries, `Bootstrap` one and a reader of three steps; `TableSchemas` has one table, and of the binlog only its ALTER
TABLEs.
The lock appears in them as a variable, taken when free and given up, and in `BinlogReader` and `TableSchemas`
also lost. That this is a lock of `NamedLock` is a theorem for these two and for `Workers` (`UsesNamedLock` in each);
`TicketLock` is the code of the lock, and implements the same `NamedLock`.

### KafkaOffsets, Delivery, TableStream

State: the topic's end (`logEnd`), its row of `kafka_offsets` (`row`), the consumer's partition record
(`part`, with `offset` and `savedOffset`), the fetcher's program counter and the message it holds, the
channel, the main loop's program counter, the output batch, and what the output has (`out`). Actions are
the points where a goroutine blocks or calls the pipe: `FetchNext`, `SendToMain` (fetcher), `BeginBatch`,
`ProduceEvent`, `TakeMore`, `CommitBatch`, `CloseConsumer` (main loop), `SaveOffset` (the tick),
`OpenConsumer`, `StopStreaming`, `Crash`. `commitOffset` writes a row and fails, or not; a
`PushBatchCommit` delivers all of a batch, or an arbitrary part and fails. `Silent` are offsets whose
events produce no output (schema events).

`Delivery` says: the position that is stored never covers more than a window of what was not delivered,
and a restart begins there. `TableStream` implements it with `Window <- PipeBatch`.

### KafkaConsumers

State: the slice of consumers, the partitions with their owner, `nextMsg` and offset, the message each
consumer's `FetchNext` has received and not noted, the rows. `Receive` and `Hand` are the goroutine of a
partition, `FetchNext` is the rest of the call, under the lock. `Distribution` is the loop of
`redistributeConsumers`, also checked on its own for every number of partitions up to `MaxParts`. A
closed consumer may still be in `FetchNext`, and the topic may be opened again meanwhile: with
`output_pipe_concurrency` of two or more several streamers have the same topic.

The offsets are saved partition by partition, and a query may fail after any of them (`CommitsSome`). A close
either succeeds (`Leave`) or returns early (`StayBehind`): the consumer is then `gone` for its streamer, which
closes it once only, and still in the slice, so that it is given partitions in every distribution to come.
When the last consumer's partitions do not all close, the goroutines are stopped and the topic stays (`shut`);
a consumer opened then would start goroutines over closed channels, which panic (`Crash`). That case needs a
library that reports errors on closing, which sarama does on request only.

### FilePipe

State: the messages pushed, one sequence of their keys, so that a message is its place in it; the files, the
directory that names them, the producer's open files with their buffers, its
sequence number and its one header, and the consumer with its watch. Names are tuples of second, seqno,
key, and a mark for `.open`, ordered as the strings are. `GetFile` and `Write` are the halves of `push`
(the consumer can see the file in between), `Commit` and `ReplaceSchema` those of `PushSchema`, `Close`
closes one file a step. The consumer's steps are the system calls its races are about: look for the
newest, open it, watch, watch the parent, read the names, look at each, wait. `ReadDir` leaves out an
entry that vanished between the last two, which is what Go's does.

The clock stands still or moves on before each name, and sequence numbers are compared as `%03d` prints them
(`Place`, with a base and a limit that TLC can reach); `misnamed` is set by the step in which two producers
name files in one second, or a number gets a digit more, and at no other time. A closing file gets the producer's
header at its beginning. If that is not the header it was opened with, the file is read with the wrong IV, and if
it has another schema, which makes it longer or shorter, it lies over the first messages, or leaves a rest: the
file is `torn`, as it also is when the write fails. `Sound` files are the others. `OpenFile` fails before or after the
name is taken, and `Read` of a file that is not sound yields its messages, or none, or the same error for ever
(`stuck`). `newFile` may fail after the file is created, which leaves an `.open` file nobody writes.

### TicketLock

State: the server's lock table (`owner`) and sessions (`alive`); for each lock object its connection, its
session, the name and ticket. The loop of `Lock` is one query a step: granted, not granted, failed before
or after the server granted it. `database/sql` may answer a query of a lost session on a new one.
`EndSession` is the server noticing, `LoseConnection` the client. A failed `Unlock` keeps the connection
(`UnlockError`): the object is `dropped`, as `lockTable`, the only caller, does without closing it
(streamer.go:161, 210), and its session may own the ticket until the server or the process ends it.

`NamedLock` has no sessions: a client takes a lock that is free, gives it up, or loses it and goes on believing
it has it. `TicketLock` implements it with a lock for every ticket; a client has what it was told, while its
session lives.

### BinlogReader

State: the binlog, the rows, the holder of the cluster's lock, the memory of each reader (`rd`: position,
seqno, entries, the batch pushed and not committed, a program counter and the place an `updateState` in
the middle of an event returns to), and what the pipe has received. `Reload` and `Save` are the two
queries of `updateState`, and registration may come between them. `TakeEvent`, `PushRow`, `AlterTable`,
`EndBatch` and `Commit` are `processBatch`.

### TableSchemas

A schema is the set of the ALTER TABLEs it contains, numbered as the master commits them; a GTID set is the
number of the last, and an ALTER TABLE cannot be applied to a schema that contains it, as MySQL refuses a
column that is there. The state is the tables of the store (`rows`, each with its raw schema and its
`schema_gtid`; `columns`, one structured schema for all versions; `saved`, the cluster's GTID set), the locks
InnoDB holds on the rows (`locked`), and what each process has in memory: a reader its entries and the
place in `handleQueryEvent` or `updateState`, a request the answers it has collected.

A step of a reader is a query: `GetRows`, `AddTables`, `Save` are `updateState`; `TakeAlter` and then for
each version `Select` (`MutateTable`, and `ReplaceSchema` up to its `SELECT ... FOR UPDATE`), `Commit` (the
rest of its transaction) and `Codec` (`UpdateCodec`) are `handleQueryEvent`. A registration asks the slave
three times (`Register`, `ReadGtid`, `ReadRaw`), between which the slave goes on, and then stores (`Insert`,
`CommitRegister`); a deregistration is the row and then the columns (`Deregister`, `DeleteColumns`), with no
transaction around them. `ReplaceSchema` returns without a rollback on an error, and on a schema that
somebody else has stored: `locked` then says that the lock is held by a transaction that is `over`, and
whoever needs the row waits in vain until the process ends. A reader's lock on a row that is not there is a
gap lock, which keeps away an insert only.

### Bootstrap

State: how far master, slave and reader are, the table's row, its topic and offset, and a streamer with
the program counter of `start`. Each action is a query or a call of `start`, `ensureBinlogReaderStart`,
`waitForGtid`, `startBootstrap`, `streamFromConsistentSnapshot`. Where the code loses events by design or
by omission the action that does it puts them into `gap`, by a cause and never by the outcome:

- "dropped": the row has the GTID set of its cluster and the reader has no entry for it;
- "restart": the flag is cleared and no offset was saved, as `commitOffset` saves none before the first
  message, so the consumer reopens at the newest message;
- "lag": what the topic held when the consumer was opened and the slave had not applied at the snapshot;
- "behind": `waitForGtid` gave up and `start` does not look at its result.

The command "del" deletes the row and later, by the topic's name, the offset (`Deregister`,
`DeleteKafkaOffsets`), whether or not a streamer of the row is still at work. The last registration the
bounds allow stays, so that there is a table whose bootstrap can complete.

A flag cleared by the streamer of an older row of the same name is `stolen`. `HandoverComplete` says that
nothing else is lost. It fails when any one of the five is not excepted.

### Workers

A table's lock has one ticket, the default of `output_pipe_concurrency`.

State: the shutdown's flag, counter and signal goroutine, the pool's two numbers, the threads, the rows of
`state`, the locks, the reader's list of tables, a bounded channel per table. A thread is at the point of
its loop where it blocks. `Adjust` starts goroutines, `Terminate` is called at the two places where the
code does.

A table without a primary key has a row, which `RegisterTable` stores whatever its key and a streamer takes like any other, but the reader
makes no entry for it and does not count it when it sizes the pool. The thread that took it is `Spent`:
`RegisteredIsStreamed` lets one table with a key go without its streamer for each such thread, and no more, and `PoolSettles`
lets the pool be too large by such threads only.

## 3. What is checked

Every run is one configuration of the same name; "states" are distinct states. Where the bounds name two
scopes, the MC module has an initial state for each (`MCInit`), and the properties are checked in both.

| Run | Properties | Bounds | States |
|---|---|---|---|
| `TableStream` | types; `InFlightBound`, `NothingDropped`, `ResendBound`; `FetchPersistsSafely`, `BoundedLossPerWrite`, `RowNeverRegresses`; refinement of `Delivery`; `DrainsOrStops` | batches of 2, persist interval 2, 9 messages of which one is silent | 1.78 M |
| `KafkaConsumers` | `NothingSkipped`, `EveryConsumerWorks`, `SavesOnlyHanded`; `AllFetched` | 3 consumers, 2 partitions, 2 messages each, 3 openings, any number of failed closes and crashes; distribution up to 8 partitions | 679 k |
| `FilePipe` | `NothingPassedOver`, `FilesHoldMessages`, `HeaderIsOwn`; `AllConsumed` | a producer and a consumer, encrypted, 2 keys, files of 2 messages, 3 messages, one of them a schema, numbers of one digit and two, 1 fault; an empty directory, or one with a file of an earlier producer | 1.13 M |
| `TicketLock` | types; `ExclusiveTickets`, `NoHiddenTicket`; refinement of `NamedLock` | 3 clients, 2 tickets of one name, 4 sessions, symmetric | 204 k |
| `BinlogReader` | `OneGtid`, `NothingDropped`; `SeqNoAdvances`, `GtidNeverRegresses`, `LossPerSave` | one reader, 2 names, transactions of an update and an insert or an ALTER TABLE, 3 registrations, 1 fault | 2.33 M |
| `BinlogTakeover` | `RegisteredIsIngested` | 2 readers, a lost lock, a crash, 2 registrations | 402 k |
| `TableSchemas` | `RowHasColumns`, `AltersAreKept`, `AlterKeepsRight`; `PastEveryAlter` | 2 versions, 1 reader, 2 registrations, 1 fault; 1 request at a time and 2 ALTER TABLEs, or 2 requests side by side after the last of these | 1.19 M |
| `Bootstrap` | `HandoverComplete`, `SnapshotComplete`; `BootstrapCompletes` | 2 rows and a schema, batches of 2, 2 events, 2 registrations, 1 fault | 1.80 M |
| `Workers` | types; `PoolCount`, `WaitsForAll`; `ShutdownCompletes`, `RegisteredIsStreamed`, `PoolSettles` | 3 threads, channels of 1; 2 tables, 2 events, 1 fault, or 2 tables and one without a key, no events, no faults | 446 k |

Why the bounds are enough to be of interest. A batch of two has a first, a last and a partial form, and
9 messages are more than a pipe batch (2*2+1) and an interval, so that a write, a crash and a second write
happen in one behaviour. Three consumers over two partitions refuse the third, and make one take over and
one return. Three messages over files of two fill one, leave one open, and interleave two keys, and the schema
is pushed while the file of the other key is open; the third sequence number has a digit more than the second. A file
that is there before the producer is, closed or left open by a crash, lets the consumer begin elsewhere than at the
first one written. The run has one producer that writes, and `misnamed` is tried by the extra digit; that a later
producer renames over a file is in the model, and in the theorems, which hold for any number of producers. Four sessions let each client lose one. Three registrations let one
table be registered anew while another is there. Two registrations of the one table in `Bootstrap` let an
old streamer meet a new row. In `TableSchemas` two
versions are what shares `columns`, and two ALTER TABLEs are one that is kept, lost or applied twice and one
that shows it; the reader ends, crashes or loses its lock and starts anew, but there is one at a time, since
with two `AltersAreKept` fails in the way `SkippedIsPersisted` shows. With one request at a time a registration cannot
come between the two statements of `DeregisterTable`, so the second scope has two, and leaves out the ALTER TABLEs
(`ColumnsAreThere` is proved with them, for any number of requests). Two tables and three threads are a reader and one streamer each; with one
fault a thread of each kind fails at any point. A third table, without a key, is one row more than the pool has
threads for. The reader produces nothing for it, so its scope does without events and faults; channels that fill up and
threads that fail are left to the other.

Every property was seen to fail under a plausible mistake in the code it is about; the mistakes are the
operators headed "Wrong:" in the modules, listed in `PROJECT.json`. The exceptions that properties make
(the gaps of `Bootstrap`, `missed`, `misnamed`, `Stranded`, `blind`, `shared`, `bad` and `Blocks` in `FilePipe`, `Stuck` and `Spent` in `Workers`)
are each needed in a property that makes them: without it TLC finds a behaviour of the code as it is.

### Fairness

- `TableStream`: the fetcher and the main loop run when they can. Both are goroutines that block on nothing
  but each other and the topic. The tick, the shutdown, crashes and the topic's producer are owed nothing.
- `KafkaConsumers`: the partitions' goroutines and a consumer that calls `FetchNext` again, unless its close
  failed. Handing over is
  strongly fair, since two goroutines may compete for one consumer and Go's channels queue senders.
- `FilePipe`: the consumer only. Its watch delivers what the operating system queued.
- `BinlogReader`: a reader that can take a step does.
- `TableSchemas`: readers and requests go on, the slave catches up. `TakeAlter` is strongly fair: it is one of
  two ready cases of `readEvents`' `select`, which picks at random, so the ticker cannot win for ever.
- `Bootstrap`: reader, slave and streamer go on; `updateState` is called by a ticker.
- `Workers`: every thread that is not blocked runs; a signal need not arrive, but one that did is served.

No fairness is assumed of faults, registration, or the master's commits.

### Disagreements between the code and what it says

Three runs check a statement of the source and find the program violating it.

- `AckedMeansDelivered` (kafka.go:378, "graceful shutdown, all messages acked"): a graceful close saves the
  fetcher's offset while up to a batch of messages is in the channel. They are not sent again.
- `EventReachesAllVersions` (mysql.go:468-469, "Produce event to all outputs and versions of the table"): the loop
  over a table's entries calls `updateState`, which removes entries from the slice being walked.
- `SkippedIsPersisted` (state.go:389-392, "this version has been persisted already by concurrent binlog
  reader"): `ReplaceSchema` takes any other GTID set for a newer one. When a reader that lost the cluster's
  lock stores its ALTER TABLE after its successor loaded the row, the successor skips its own, later one, which
  nobody stores.

What else was met while modelling, and is excepted by name in a property or listed under "hazards":

- The reader writes its GTID set into rows inserted since it read the list of tables, so a GTID set does not
  mean that events of the table are produced ("dropped" in `Bootstrap`).
- In local mode the reader blocks on the full channel of a table nobody streams, and cannot add the thread
  that would (`Stuck` in `Workers`).
- A thread of the local mode that takes a table without a primary key keeps it, although the pool was sized without that
  table: another table waits for a thread (`Spent` in `Workers`). When the last table with a key goes, the reader shrinks
  the pool to one and leaves it, and the thread that stays may be such a streamer; no thread looks for a cluster again
  (`NoReader`).
- `ReplaceSchema` returns from its errors and from a skip with the transaction open. The row stays locked,
  and every later save of the cluster's GTID set waits for it and fails, until the process ends
  (`PastEveryAlter` excepts it).
- The GTID set is saved before the schemas are replaced (mysql.go:502): after a crash between the two the next
  reader begins past an ALTER TABLE the stored schemas lack (`missed` in `TableSchemas`). When none is saved
  in between, the ALTER TABLE comes again and cannot be applied to a schema that has it.
- A registration takes its schema and its GTID set from a slave that may lag behind the reader: an ALTER TABLE
  the reader is past and the slave has not applied is missed by the new version.
- A failed `Unlock` leaves the ticket with a connection nobody closes; so does, without the ticket, a streamer
  that found no free table.
- A consumer whose `Close` returns an error keeps its partitions: what they get is fetched by nobody, and with one
  partition the topic cannot be opened again in the process (`gone` in `KafkaConsumers`).
- `PushBatchCommit` of the file pipe reports success whatever its flushes returned (file.go:494).
- "Precaution to not generate file with the same name if timestamps are equal" (file.go:281): the sequence number begins
  anew with each producer, and the name without `.open` is not asked for, so a producer opened within the second of
  its predecessor's first file renames its own over that one (`misnamed`).
- `closeFile` writes the producer's header, not the file's. With encryption a file during whose time another
  was opened is closed with the IV of that one; after `PushSchema` the files of other keys get the new
  schema, and a header of another length overwrites the first messages. The streamer itself uses
  the keys `default`, `log` and `snapshot` side by side (buffer.go:124, snapshot.go:48).
- A file consumer whose newest file is renamed between `seek` and `openFile` starts at the oldest file.
- A file consumer can pass over a file that is renamed during its `ReadDir`, and waits for good behind an
  `.open` file that a crashed producer left.
- `redistributeConsumers` gives five partitions to two consumers as one and four.
- The schema message of an empty table waits in the producer until an event is streamed.

## 4. What is proved

The theorems hold for every value of the constants, from the named assumptions of the modules alone: bounds
and sizes are natural numbers, batch sizes and intervals positive, the markers `None`, `NoRow` and the like
outside of the sets they mark. Every proof is one of an inductive invariant, by one lemma or step per action.
Where a theorem has a hypothesis of its own, the property is false without it, and the text says how.
Where an argument would go by induction over a sequence or a number, it goes by the least counterexample:
`WFMin` with `NatLessThanWellFounded` gives one (`LeastNat`), and the step before it is examined.

`TableStreamProofs`. The safety properties are not inductive: that a write of the row covers only delivered
messages depends on where the others are. `Inv` adds that fetcher, channel, main loop and batch hold
consecutive offsets that end at `next - 1` (`WindowInv`), what the program counter says of the batch
(`LoopInv`), that the consumer's offset is that of the last message fetched (`OffsetInv`), and that all
before the window is delivered (`DeliveredInv`). One lemma per action preserves it. From it follow
`TypeCorrect`, `BoundedInFlight`, `RowStaysWithinTopic`, `NothingIsDropped`, and the action properties
`FetchPersistIsSafe` and `LossPerWriteIsBounded`; `StreamImplementsDelivery` maps initial states and steps to
`Delivery`. The bound on unfinished messages uses cardinalities of intervals (`UnfinishedBound`). How far the row may fall
behind (`ResendIsBounded`, `RowStaysAhead`) is an invariant of its own, `LagInv`: what was fetched since the
offset last saved is at most the interval, and below it while the fetcher is about to fetch; the row is at
most a pipe batch behind that offset, and not ahead of it until the close.

`TicketLockProofs`. `ExclusiveTickets` says that two clients on live sessions never hold one ticket. `Inv` adds
that no two clients share a session, that only sessions the server knows own tickets, and `NoHiddenTicket` itself,
by which a session owns nothing while its client is in the loop of `Lock`. The last is what makes the loop's
re-entrant `GET_LOCK` harmless, and is why an error must close the connection. What a session owns otherwise is
the ticket its client believes in, or the one a failed `Unlock` left it with. From it follow `TypeCorrect`,
`BeliefsAreTrue`, `TicketsAreExclusive`, `NoTicketIsHidden`. `TicketLockImplements` maps the steps to those of
`NamedLock`. A grant is a `Take`, since whoever else is told it has the ticket owns it at the server; the end of
a session is a `Lose` of one client, since no two share a session; a step of `Refresh` on the client's own
session is a stutter, and on a new one the lock was lost before. `LockIsSound` is what `NamedLock` promises,
proved from its steps alone.

`KafkaConsumersProofs`. `Distribution` is taken as it comes: nothing is assumed of who gets which partition. An
offset that is saved or noted is below what the partition handed out, and so is a message in somebody's hands
(`HandedInv`); in a session, everything between its start and the partition's read position was fetched, is
in a consumer's hands, or waits in the partition, and never two of these (`SessionInv`). Hence
`NothingIsSkipped` and `OffsetsAreHanded`, whatever closes and saves fail. `EveryoneWorks` is what the loop of `redistributeConsumers` is for, for any
number of partitions and of consumers: what is left to give, and to whom, before each turn of the loop, holds
at its beginning, and no turn is the first at which it fails (`WorkInv`).

`BinlogReaderProofs`. The GTID sets of a cluster agree (`GtidsAgree`) because every write is one of all rows. That
they never go back (`GtidsAdvance`) is proved for readers whose lock sessions are not lost (`MaxKills = 0`): then
there is one reader (`LockInv`), and it has read at least what is saved, since it began with the set of some row.
With a lost session it is false while a reader has not noticed, which is why the run has none.

`TypedAlways` says what the memory of a reader may be, which is most of a program counter's meaning: in the middle of an
event only at one, in the middle of its rows only with an entry at hand. On it rest two others.
`NothingIsDropped` and `NothingLostBySaving`, by the invariant `Drop`: for
every entry of its tables, the rows the reader passed since it has the entry are in the pipe if its batch began
after them, and in the batch otherwise. So a write of the GTID set in the middle of a batch, or after a failed one,
may pass over events of that batch, of however many transactions, and a write between batches over none; in a
shutdown, when errors of the batch are ignored, nothing of the kind holds. They have the hypothesis `OneVersion`, that a table of
the master has one version: with two, the `updateState` in the middle of the loop over a table's
entries may put another entry at the index the loop is at, which is then passed over; that is what the run
`EventReachesAllVersions` shows. `SeqNosAdvance`, again for `MaxKills = 0`, by the invariant `SeqInv`: no
multiple of the interval lies between the seqno that is saved and the last one the reader took, since at a
multiple it saves; so what was issued is at most an interval above what is saved, where the next reader begins.
`ReaderUsesNamedLock` maps the readers' steps to `NamedLock`: a reader believes it has the lock while it is up.

`TableSchemasProofs`. `ColumnsAreThere` and `AlterKeepsRightAlways` for any number of versions, readers and
requests. A version that was right is followed through the loop of `handleQueryEvent`: before its turn it lacks
the ALTER TABLE, after it nothing (`Before`, `During`, `After`); what its reader stores is the raw schema of the
version (`Storing`), and until `UpdateCodec` the columns are what it stored, unless another schema was stored or
all were deleted (`Fits`).

`AltersKept` is `AltersAreKept` in every history in which no two readers are up at once, by the invariant `Known`:
whatever the saved GTID set is past, a registered version's row contains, or it was missed when the version was
registered or its reader crashed, or it is on its way (the reader's entry has it and the row is about to be
written); and a row no reader is about to write has the `schema_gtid` its reader knows, so `ReplaceSchema` does
not take it for somebody else's. Without the hypothesis it is false in 29 states: the set is saved
before the rows are written, so a second reader starts past the ALTER TABLE, and what either stores makes the
other skip. Hence `AltersKeptByOneReader`, for one process, whatever becomes of its lock, and, as the lock makes
readers one at a time (`LockMeansOneReader`), `AltersKeptByTheLock`: for any number of processes, while the server takes
the lock from no one. `ReaderUsesNamedLock` says the same of these readers as of those of `BinlogReader`.

`BootstrapProofs`. A position in the topic *keeps* the events read so far when each is in the output, in a gap, ahead
of the position, or excused. Who holds the position decides what is excused: a consumer excuses what its
streamer's snapshot will have, and nothing once it streams; the saved offset excuses nothing once the flag is
clear. `HandoverIsComplete` is the last of these conjuncts. `SnapshotIsComplete` is an account: rows acknowledged,
queued and left are the messages of the table.

`WorkersProofs`. The pool counts the threads that have not been told to end, the shutdown those that exist
(`Accounts`); four lemmas say what moving, stopping, ending and starting a thread does to both. Hence
`PoolIsCounted` and `WaitsForAllAlways`. `LocksAreHeld` is that locks and threads agree, so that there is one reader at
most and one streamer for a table; every step leaves the locks alone or is one of four (`LocksMove`), and
`ThreadsUseNamedLock` maps these to `NamedLock`.

`FilePipeProofs`. The theorems hold until `misnamed`, the moment at which two producers name files in one second or a
number gets a digit more; after it the code itself overwrites a file or reads the names out of order. Until then
no name ever leads to another file than before (`NamesAreKept`): second and place of
every name are bounded by the producer's, and no two names share both (`NamesInv`). `HeadersAreOwn`: an open file
is reached by its own name only (`FilesInv`), and one that is not shared owns the producer's header (`HeaderInv`).

`FilesHoldThem`, by the invariant `HoldInv`: what a file of a key holds comes before all that later names
of the key hold, and that before the open file's buffer; together they hold what was pushed with the key and not
lost; a file has a header over its messages only if another was opened or a schema pushed while it was open, or if
the write of its header failed. `WhatIsWrittenStays` adds that what was written to a file stays in the files of its
key, and that a closed file is never touched again: that a header comes to lie over messages happens at the close.

`NothingIsPassedOver` is about two processes that share nothing but a directory. What the
producer may do to the consumer is one fact of its actions (`Moves`): a name is kept or loses its `.open`, a new one
comes after all others, a file only grows, and not once it is closed. The invariant is an account of the
consumer (`ReadInv`): the list of names it read is what the directory had, but for trimmed names and later files
(`ListInv`); it has read all of every sound file between the one it began with and the one it is at, unless an error came after it
had taken the name (`Between`); what it was handed of a key is what these
files hold, in their order (`GotInv`). That a list has a first name past the consumer's file is again the least
counterexample.

Only model-checked is what the prover does not reach, liveness under fairness (`DrainsOrStops`, `AllFetched`,
`AllConsumed`, `RegisteredIsIngested`, `PastEveryAlter`, `BootstrapCompletes`, `ShutdownCompletes`, `RegisteredIsStreamed`,
`PoolSettles`), and `ENABLED`. Every safety property of a passing run is a theorem.

## 5. What is not modelled

- The contents of messages, rows and files, and the structure of schemas: encoders, conversions to Avro, header and file encodings, HMAC.
- Several partitions with the streamer's loop around them: `TableStream` has one, `KafkaConsumers` has no
  batches.
- `Lock` with a timeout (no caller asks for one), the ticket that limits streamers of a cluster.
- Output schemas, cluster information, the creation of the database; of the HTTP handlers, wildcards, lists,
  and the schema and cluster handlers. `MutateTable`, which works on a scratch table of its own,
  is modelled by its result.
- Tables without a primary key, which the reader skips (mysql.go:165-168), outside of `Workers`: the tables and
  versions of `BinlogReader`, `TableSchemas` and `Bootstrap` have one.
- In `Workers`, an error of the streamer's own query for rows, which ends the attempt like a look at rows that are all taken.
- In `TableSchemas`, deadlocks of InnoDB: the transactions take the row before the columns, and a request that
  meets a lock ends with a lock wait timeout.
- The throttle, configuration, metrics, logging.
- The broker, MySQL, the file system and `fsnotify` are modelled from how the code uses them and marked
  external: a topic is a sequence, a committed transaction stays, a lock ends with its session.

## 6. Plan

1. Of the first plan, done: the store with schemas as versions (`TableSchemas`), the deletion of offsets in
   `Bootstrap`, and proofs for every module that has a state machine.
2. `LocalPipe` on its own and the streamer over it, as a second refinement of `Delivery`.
3. A streamer in `Bootstrap` that loses its table's lock as a client of `NamedLock` may: what one that has not
   noticed can do to the offset and to the flag.
4. An abstract specification of a cluster's reader (the binlog up to a position, once per row) that
   `BinlogReader` implements while no lock is lost.
5. Of the proofs, those that would state more than a run checks: `NothingDropped` for several versions, except for
   the events of tables with two of them.
