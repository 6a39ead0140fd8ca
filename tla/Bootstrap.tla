-------------------------------- MODULE Bootstrap --------------------------------
(***************************************************************************)
(* streamer/streamer.go, streamer/snapshot.go, snapshot/mysql.go: how a    *)
(* newly registered table gets from nothing to streaming.  The streamer    *)
(* waits until the binlog reader has saved a GTID set for the row, waits   *)
(* for the slave to reach it, opens its consumer of the input topic, and   *)
(* only then takes a snapshot of the slave; the consumer continues where   *)
(* the snapshot ends.                                                      *)
(*                                                                         *)
(* One table, its events numbered as the master commits them: a GTID set   *)
(* is the number of the last event it contains.  Another table of the      *)
(* cluster stays registered, so the reader never ends for lack of tables.  *)
(* TableStream has the details of streaming, BinlogReader of the reader.   *)
(***************************************************************************)
EXTENDS Integers, Sequences, FiniteSets, SequencesExt

CONSTANTS
    Rows,        \* rows of the snapshot
    HasSchema,   \* the output format has a schema message (JSON only)
    BatchSize,   \* cfg.PipeBatchSize, also of the output producer
    MaxEvents,   \* bound on the events of the table
    MaxIds,      \* bound on registrations of the table; the last one stays
    MaxFaults    \* bound on errors and crashes

ASSUME RowsAssumption == Rows \in Nat
ASSUME HasSchemaAssumption == HasSchema \in BOOLEAN
ASSUME BatchSizeAssumption == BatchSize \in Nat \ {0}
ASSUME BoundsAssumption == MaxEvents \in Nat /\ MaxIds \in Nat

VARIABLES
    master,      \* events committed on the master
    slave,       \* events the slave has applied
    reader,      \* the binlog reader of the cluster
    saved,       \* the GTID set in the rows of the other tables
    row,         \* the table's row of state; its id is 0 when there is none
    lastId,      \* ids given so far
    topic,       \* the input topic: a sequence of events
    offset,      \* the row of kafka_offsets, or NoOffset
    deleting,    \* a deregistration has yet to delete that row
    s,           \* the streamer of the table
    covered,     \* the output has the snapshot of events 1..covered (history)
    delivered,   \* events streamed to the output (history)
    gap,         \* events that fell into a gap the code leaves (history)
    stolen,      \* ids whose flag another id's streamer cleared (history)
    faults

sourceVars  == <<master, slave>>
readerVars  == <<reader, saved>>
stateVars   == <<row, lastId, deleting>>
outputVars  == <<covered, delivered>>
historyVars == <<gap, stolen>>
vars == <<sourceVars, readerVars, stateVars, topic, offset, s, outputVars, historyVars, faults>>

NoGtid == -1
NoOffset == -1
NoRow == [id |-> 0, gtid |-> NoGtid, new |-> FALSE]

Fault == faults < MaxFaults /\ faults' = faults + 1

-----------------------------------------------------------------------------
(* The servers and the registration handlers. *)

Commit ==
    /\ master < MaxEvents
    /\ master' = master + 1
    /\ UNCHANGED <<slave, readerVars, stateVars, topic, offset, s, outputVars, historyVars, faults>>

Replicate ==
    /\ slave < master
    /\ slave' = slave + 1
    /\ UNCHANGED <<master, readerVars, stateVars, topic, offset, s, outputVars, historyVars, faults>>

Register ==
    /\ row = NoRow
    /\ lastId < MaxIds
    /\ lastId' = lastId + 1
    /\ row' = [id |-> lastId + 1, gtid |-> NoGtid, new |-> TRUE]
    /\ UNCHANGED <<sourceVars, readerVars, deleting, topic, offset, s, outputVars, historyVars, faults>>

\* The command "del": the row goes first, ...
Deregister ==
    /\ row # NoRow /\ ~deleting
    /\ lastId < MaxIds
    /\ row' = NoRow /\ deleting' = TRUE
    /\ UNCHANGED <<sourceVars, readerVars, lastId, topic, offset, s, outputVars, historyVars, faults>>

\* ... and then the offset, by the name of the topic; the error of that query
\* is ignored, and one of DeregisterTable ends the command before it.
DeleteKafkaOffsets ==
    /\ deleting /\ deleting' = FALSE
    /\ \/ offset' = NoOffset /\ UNCHANGED faults
       \/ Fault /\ UNCHANGED offset
    /\ UNCHANGED <<sourceVars, readerVars, row, lastId, topic, s, outputVars, historyVars>>

-----------------------------------------------------------------------------
(* The binlog reader, as far as the streamer depends on it. *)

SavedRow(g) == IF row = NoRow THEN row ELSE [row EXCEPT !.gtid = g]

\* A worker becomes the reader: it starts from the saved GTID set.
StartReader ==
    /\ reader.pc = "down"
    /\ reader' = [reader EXCEPT !.pc = "reload"]
    /\ UNCHANGED <<sourceVars, saved, stateVars, topic, offset, s, outputVars, historyVars, faults>>

\* reloadState: a row without an entry gets one, an entry whose row is gone is
\* removed, and so is one whose row was registered anew.
Reload ==
    /\ reader.pc \in {"reload", "read"}
    /\ reader' = [reader EXCEPT !.pc = "save",
                                !.entry = IF @ \in {0, row.id} THEN row.id ELSE 0]
    /\ UNCHANGED <<sourceVars, saved, stateVars, topic, offset, s, outputVars, historyVars, faults>>

\* SaveBinlogState, at the end of updateState.
Save ==
    /\ reader.pc = "save"
    /\ row' = SavedRow(reader.pos)
    /\ saved' = reader.pos
    /\ reader' = [reader EXCEPT !.pc = "read"]
    /\ UNCHANGED <<sourceVars, lastId, deleting, topic, offset, s, outputVars, historyVars, faults>>

\* An event is read: it goes to the topic if the table has an entry.  Gap
\* "dropped": the row has a GTID set and the table has no entry.
Read ==
    LET e == reader.pos + 1
    IN  /\ reader.pc = "read"
        /\ e <= master
        /\ reader' = [reader EXCEPT !.pos = e]
        /\ topic' = IF reader.entry = 0 THEN topic ELSE Append(topic, e)
        /\ gap' = IF reader.entry = 0 /\ row.gtid # NoGtid
                  THEN gap \cup {e} ELSE gap
        /\ UNCHANGED <<sourceVars, saved, stateVars, offset, s, outputVars, stolen, faults>>

\* The reader ends, with its final SaveBinlogState or without.
StopReader ==
    /\ reader.pc # "down"
    /\ Fault
    /\ \/ /\ reader.pc = "read"
          /\ row' = SavedRow(reader.pos)
          /\ saved' = reader.pos
       \/ UNCHANGED <<row, saved>>
    /\ reader' = [pc |-> "down", pos |-> saved', entry |-> 0]
    /\ UNCHANGED <<sourceVars, lastId, deleting, topic, offset, s, outputVars, historyVars>>

-----------------------------------------------------------------------------
(* The streamer: start. *)

NoStreamer ==
    [pc     |-> "idle",
     id     |-> 0,          \* the row it holds the lock of
     target |-> NoGtid,     \* what ensureBinlogReaderStart returned, until it is reached
     next   |-> 0,          \* the next message its consumer takes
     fetched |-> FALSE,     \* the consumer has fetched a message
     newest |-> FALSE,      \* no offset was saved when it was opened
     opened |-> 0,          \* if so, the reader's position then (history)
     snap   |-> 0,          \* the events the snapshot contains
     left   |-> 0,          \* rows its cursor has not returned
     n      |-> 0,          \* rows of this streamBatch
     queued |-> 0,          \* batchPtr of the output producer
     acked  |-> 0]          \* messages the output has acknowledged

Leave == s' = NoStreamer

\* StreamTable begins: what start needed before is forgotten.
StreamTable == s' = [NoStreamer EXCEPT !.pc = "stream", !.id = s.id, !.next = s.next]

\* lockTable; the output producer.
LockTable ==
    /\ s.pc = "idle"
    /\ row # NoRow
    /\ s' = [NoStreamer EXCEPT !.pc = "gtid", !.id = row.id]
    /\ UNCHANGED <<sourceVars, readerVars, stateVars, topic, offset, outputVars, historyVars, faults>>

\* Wrong: a row without a GTID set will do.
StartedAtOnce == TRUE

Started == row.gtid # NoGtid

\* Wrong: a row that is gone is waited for.
EnsureStartedOrWait ==
    /\ s.pc = "gtid"
    /\ row.id = s.id /\ Started
    /\ s' = [s EXCEPT !.pc = "wait", !.target = row.gtid]
    /\ UNCHANGED <<sourceVars, readerVars, stateVars, topic, offset, outputVars, historyVars, faults>>

\* ensureBinlogReaderStart.
EnsureStarted ==
    /\ s.pc = "gtid"
    /\ \/ /\ row.id = s.id /\ Started
          /\ s' = [s EXCEPT !.pc = "wait", !.target = row.gtid]
       \/ row.id # s.id /\ Leave
    /\ UNCHANGED <<sourceVars, readerVars, stateVars, topic, offset, outputVars, historyVars, faults>>

\* waitForGtid, whose result start ignores.
WaitForGtid ==
    /\ s.pc = "wait"
    /\ \/ slave >= s.target /\ s' = [s EXCEPT !.pc = "open", !.target = NoGtid] /\ UNCHANGED faults
       \/ Fault /\ s' = [s EXCEPT !.pc = "open"]
    /\ UNCHANGED <<sourceVars, readerVars, stateVars, topic, offset, outputVars, historyVars>>

\* OffsetNewest.
Newest == Len(topic)

\* The consumer starts at the saved offset, or at the newest message.
OpenConsumer ==
    LET at == IF offset = NoOffset THEN Newest ELSE offset
    IN  /\ s.pc = "open"
        /\ s' = [s EXCEPT !.pc = "flag", !.next = at,
                          !.newest = (offset = NoOffset),
                          !.opened = IF offset = NoOffset THEN reader.pos ELSE 0]
        /\ UNCHANGED <<sourceVars, readerVars, stateVars, topic, offset, outputVars, historyVars, faults>>

\* startBootstrap: the flag is read by the name of the table, so it may be that
\* of a row with another id.  Gap "restart": a table that has its snapshot and
\* no offset is streamed from the newest message.
GetTableNewFlag ==
    /\ s.pc = "flag"
    /\ \/ row = NoRow /\ Leave /\ UNCHANGED gap
       \/ row.new /\ s' = [s EXCEPT !.pc = "schema"] /\ UNCHANGED gap
       \/ /\ row # NoRow /\ ~row.new
          /\ StreamTable
          /\ gap' = IF s.newest THEN gap \cup (1 .. s.opened) ELSE gap
    /\ UNCHANGED <<sourceVars, readerVars, stateVars, topic, offset, outputVars, stolen, faults>>

-----------------------------------------------------------------------------
(* The streamer: snapshot. *)

\* Sends what the producer has queued; m is the streamer with it.
Flushed(m) == [m EXCEPT !.acked = @ + m.queued, !.queued = 0]

\* PushBatch commits by itself when the batch is full.
Pushed(m) ==
    LET q == [m EXCEPT !.queued = @ + 1]
    IN  IF q.queued >= BatchSize THEN Flushed(q) ELSE q

\* The snapshot reader's Start: the cursor sees what the slave has applied.
SnapshotStarted(m) == [m EXCEPT !.pc = "rows", !.snap = slave, !.left = Rows]

\* Its HasNext; an error it meets on the way is one of Fail.
HasNext == s.left > 0

\* pushSchema, if the format has one, and the start of the snapshot.  Gap "lag": events that went to the topic before the consumer was
\* opened and have not reached the slave.  Gap "behind": waitForGtid gave up.
StartSnapshot ==
    /\ s.pc = "schema"
    /\ s' = [SnapshotStarted(IF HasSchema THEN Pushed(s) ELSE s) EXCEPT
                !.target = NoGtid, !.newest = FALSE, !.opened = 0]
    /\ gap' = gap \cup (IF s.newest THEN slave + 1 .. s.opened ELSE {})
                  \cup (slave + 1 .. s.target)
    /\ UNCHANGED <<sourceVars, readerVars, stateVars, topic, offset, outputVars, stolen, faults>>

\* streamBatch: the next row is pushed.
PushRow ==
    /\ s.pc = "rows"
    /\ s.n < BatchSize /\ HasNext
    /\ s' = [Pushed(s) EXCEPT !.left = @ - 1, !.n = @ + 1]
    /\ UNCHANGED <<sourceVars, readerVars, stateVars, topic, offset, outputVars, historyVars, faults>>

\* Wrong: the snapshot goes on when every attempt has failed.
CommitAndForget ==
    /\ s.pc = "rows"
    /\ s.n > 0
    /\ s.n = BatchSize \/ ~HasNext
    /\ \/ s' = [Flushed(s) EXCEPT !.n = 0] /\ UNCHANGED faults
       \/ Fault /\ s' = [s EXCEPT !.n = 0, !.queued = 0]
    /\ UNCHANGED <<sourceVars, readerVars, stateVars, topic, offset, outputVars, historyVars>>

\* commitWithRetry, after a streamBatch that pushed something.
CommitWithRetry ==
    /\ s.pc = "rows"
    /\ s.n > 0
    /\ s.n = BatchSize \/ ~HasNext
    /\ s' = [Flushed(s) EXCEPT !.n = 0]
    /\ UNCHANGED <<sourceVars, readerVars, stateVars, topic, offset, outputVars, historyVars, faults>>

\* The cursor has no more rows.
EndSnapshot ==
    /\ s.pc = "rows"
    /\ s.n = 0 /\ ~HasNext
    /\ s' = [s EXCEPT !.pc = "clear"]
    /\ covered' = s.snap
    /\ UNCHANGED <<sourceVars, readerVars, stateVars, topic, offset, delivered, historyVars, faults>>

\* The tick of the snapshot finds that the row is gone, or cannot read it.
CancelSnapshot ==
    /\ s.pc = "rows" /\ s.n = 0 /\ s.left < Rows
    /\ row.id # s.id
    /\ Leave
    /\ UNCHANGED <<sourceVars, readerVars, stateVars, topic, offset, outputVars, historyVars, faults>>

\* SetTableNewFlag, by the name of the table.
ClearNewFlag ==
    /\ s.pc = "clear"
    /\ row' = [row EXCEPT !.new = FALSE]
    /\ stolen' = IF row.id # s.id THEN stolen \cup {row.id} ELSE stolen
    /\ StreamTable
    /\ UNCHANGED <<sourceVars, readerVars, lastId, deleting, topic, offset, outputVars, gap, faults>>

-----------------------------------------------------------------------------
(* The streamer: StreamTable, in short, and failures. *)

Stream ==
    /\ s.pc = "stream"
    /\ s.next < Len(topic)
    /\ delivered' = delivered \cup {topic[s.next + 1]}
    /\ s' = [s EXCEPT !.next = @ + 1, !.fetched = TRUE]
    /\ UNCHANGED <<sourceVars, readerVars, stateVars, topic, offset, covered, historyVars, faults>>

\* commitOffset writes nothing before the first message was fetched.
SavedOffset == IF s.fetched THEN s.next ELSE offset

\* The tick: the offset is saved, or the row is gone and the consumer is closed.
Tick ==
    /\ s.pc = "stream"
    /\ offset' = SavedOffset
    /\ IF row.id = s.id THEN offset' # offset /\ UNCHANGED s ELSE Leave
    /\ UNCHANGED <<sourceVars, readerVars, stateVars, topic, outputVars, historyVars, faults>>

\* An error, a lost lock or a crash anywhere; a shutdown saves the offset of a
\* streamer that streams.
Fail ==
    /\ s.pc # "idle"
    /\ Fault
    /\ Leave
    /\ \/ UNCHANGED offset
       \/ s.pc = "stream" /\ offset' = SavedOffset
    /\ UNCHANGED <<sourceVars, readerVars, stateVars, topic, outputVars, historyVars>>

-----------------------------------------------------------------------------

Init ==
    /\ master = 0 /\ slave = 0
    /\ reader = [pc |-> "down", pos |-> 0, entry |-> 0] /\ saved = 0
    /\ row = NoRow /\ lastId = 0 /\ deleting = FALSE
    /\ topic = <<>> /\ offset = NoOffset
    /\ s = NoStreamer
    /\ covered = 0 /\ delivered = {}
    /\ gap = {} /\ stolen = {}
    /\ faults = 0

ReaderStep == StartReader \/ Reload \/ Save

StreamerStep ==
    \/ LockTable \/ EnsureStarted \/ WaitForGtid \/ OpenConsumer \/ GetTableNewFlag
    \/ StartSnapshot \/ PushRow \/ CommitWithRetry \/ EndSnapshot \/ ClearNewFlag
    \/ Stream \/ Tick

Next ==
    \/ Commit \/ Replicate \/ Register \/ Deregister \/ DeleteKafkaOffsets
    \/ ReaderStep \/ Read \/ StopReader
    \/ StreamerStep \/ CancelSnapshot \/ Fail

Spec == Init /\ [][Next]_vars

\* The reader, the slave and the streamer go on when they can; updateState is
\* called again and again.
FairSpec ==
    /\ Spec
    /\ WF_vars(ReaderStep) /\ WF_vars(Read)
    /\ WF_vars(Replicate)
    /\ WF_vars(StreamerStep)

-----------------------------------------------------------------------------
(* Properties. *)

\* The schema and the rows.
Messages == Rows + (IF HasSchema THEN 1 ELSE 0)

Ids == 0 .. MaxIds
Events == 1 .. MaxEvents
PCs == {"idle", "gtid", "wait", "open", "flag", "schema", "rows", "clear", "stream"}

\* Type correctness of the state rows, the reader and the streamer.
TypeOK ==
    /\ master \in 0 .. MaxEvents /\ slave \in 0 .. master
    /\ reader \in [pc : {"down", "reload", "save", "read"}, pos : 0 .. master, entry : Ids]
    /\ saved \in 0 .. reader.pos
    /\ row \in [id : Ids, gtid : {NoGtid} \cup 0 .. master, new : BOOLEAN]
    /\ lastId \in Ids /\ deleting \in BOOLEAN
    /\ topic \in Seq(Events) /\ offset \in {NoOffset} \cup 0 .. Len(topic)
    /\ s \in [pc : PCs, id : Ids, target : {NoGtid} \cup 0 .. master,
              next : 0 .. Len(topic), fetched : BOOLEAN, newest : BOOLEAN,
              opened : 0 .. master, snap : 0 .. slave, left : 0 .. Rows,
              n : 0 .. BatchSize, queued : 0 .. BatchSize - 1, acked : 0 .. Messages]
    /\ covered \in 0 .. slave /\ delivered \subseteq Events
    /\ gap \subseteq Events /\ stolen \subseteq Ids /\ faults \in Nat

Ahead == {topic[i] : i \in s.next + 1 .. Len(topic)}

Lost(e) == e > covered /\ e \notin delivered /\ e \notin Ahead

\* While a table is streamed, every event the reader has read is in the
\* snapshot, was streamed, or is ahead of the consumer; but for the gaps that
\* the code leaves (see the actions that name them) and for a row that was
\* registered while its predecessor's snapshot ran (streamer.go:245-275).
HandoverComplete ==
    s.pc = "stream" /\ s.id = row.id /\ s.id \notin stolen =>
        \A e \in 1 .. reader.pos : Lost(e) => e \in gap

\* The flag of a table is cleared only when the output has acknowledged every
\* message of the snapshot, those that PushBatch committed by itself included
\* (snapshot.go:38-88, 149-182).  The exception is the schema of an empty table,
\* which stays in the producer's batch until an event is streamed.
SnapshotComplete == s.pc = "clear" /\ Rows > 0 => s.acked = Messages /\ s.queued = 0

\* Again and again, a registered table is streamed by a streamer of its own row,
\* whatever was registered before, and whatever failed (streamer.go:157-292).
BootstrapCompletes == []<>(row = NoRow \/ (s.pc = "stream" /\ s.id = row.id))

=============================================================================
