------------------------------- MODULE BinlogReader -------------------------------
(***************************************************************************)
(* changelog/mysql.go: the binlog reader of one cluster, with the state    *)
(* table it shares with the registration handlers.  A reader takes the     *)
(* lock of the cluster, resumes from the saved GTID set, and then          *)
(* alternates between batches of events and the periodic updateState,      *)
(* which also runs in the middle of a batch: at every multiple of          *)
(* SeqInterval (nextSeqNo) and before every ALTER TABLE.                   *)
(*                                                                         *)
(* The binlog is a sequence of transactions, each a sequence of events.  A *)
(* GTID set is the number of transactions whose GTID event was read, so a  *)
(* reader is at a position <<g, k>>: k events into transaction g.          *)
(***************************************************************************)
EXTENDS Integers, Sequences, FiniteSets, SequencesExt

CONSTANTS
    Readers,      \* workers that may become the reader of the cluster
    Tables,       \* rows of state: one per name, output and version
    Names,        \* db and table names
    NameOf,       \* the name of a row of state
    Transactions, \* what a transaction may consist of: sequences of Event
    SeqInterval,  \* seqnoSaveInterval
    BatchSize,    \* cfg.PipeBatchSize
    None,         \* no row, no lock holder
    MaxTx,        \* bound on the binlog
    MaxId,        \* bound on registrations
    MaxFaults,    \* bound on crashes, errors and shutdowns
    MaxKills      \* bound on sessions of the lock that are lost

Event == [kind : {"insert", "update", "alter"}, name : Names]

ASSUME NameOfAssumption == NameOf \in [Tables -> Names] /\ IsFiniteSet(Tables)
ASSUME TransactionsAssumption == Transactions \subseteq Seq(Event)
ASSUME SeqIntervalAssumption == SeqInterval \in Nat \ {0}
ASSUME BatchSizeAssumption == BatchSize \in Nat \ {0}
ASSUME NoneAssumption == None \notin Readers
ASSUME BoundsAssumption == MaxId \in Nat /\ MaxKills \in Nat

VARIABLES
    binlog,      \* the master's binary log
    rows,        \* the state table: for each of Tables its row, or None
    nextId,      \* the AUTO_INCREMENT of the state table
    lockBy,      \* who holds the lock "cluster.<name>"
    rd,          \* the readers' memory
    out,         \* what the changelog pipe has received, [id, ev, row]
    issued,      \* the greatest seqno given to a registration (history)
    faults,      \* crashes, errors and shutdowns so far
    kills        \* lost sessions so far

vars == <<binlog, rows, nextId, lockBy, rd, out, issued, faults, kills>>

\* An update row is produced as a delete and an insert.
RowCount(ev) == IF ev.kind = "update" THEN 2 ELSE 1

NoGtid == -1
Size(g) == IF g = 0 THEN 0 ELSE Len(binlog[g])
EventAt(p) == binlog[p[1]][p[2]]
Before(p, q) == p[1] < q[1] \/ (p[1] = q[1] /\ p[2] < q[2])

NoEntry == [id |-> 0, tab |-> None, since |-> <<0, 0>>]

\* A worker that is not the reader of the cluster.
IdleReader ==
    [pc     |-> "idle",
     cont   |-> "none",                       \* who called updateState
     pos    |-> <<0, 0>>,                     \* gtidSet, and events of its last transaction
     began  |-> <<0, 0>>,                     \* pos when the batch began (history)
     seqNo  |-> 0,
     tables |-> [n \in Names |-> <<>>],       \* b.tables: entries [id, tab, since]
     pend   |-> <<>>,                         \* pushed to a producer, not committed
     cnt    |-> 0,                            \* events handled in this batch
     i      |-> 0,                            \* handleRowsEvent: index into the entries
     cur    |-> NoEntry,                      \* and the entry it took from there
     row    |-> 0,                            \* handleRowsEventLow: index into the rows
     down   |-> FALSE]                        \* shutdown.Initiated()

Set(r, m) == rd' = [rd EXCEPT ![r] = m]

Entries(m) == UNION {Range(m.tables[n]) : n \in Names}

\* b.numTables
NumTables(m) == Cardinality(Entries(m))

Fault == faults < MaxFaults /\ faults' = faults + 1
NoFault == UNCHANGED faults

Registered == {t \in Tables : rows[t] # None}

\* SaveBinlogState: one UPDATE of every row of the cluster.
SavedRows(g, s) ==
    [t \in Tables |-> IF rows[t] = None THEN None
                      ELSE [rows[t] EXCEPT !.gtid = g, !.seq = s]]

-----------------------------------------------------------------------------
(* The master and the registration handlers. *)

CommitTx ==
    /\ Len(binlog) < MaxTx
    /\ \E tx \in Transactions : binlog' = Append(binlog, tx)
    /\ UNCHANGED <<rows, nextId, lockBy, rd, out, issued, faults, kills>>

Register(t) ==
    /\ rows[t] = None
    /\ nextId <= MaxId
    /\ rows' = [rows EXCEPT ![t] = [id |-> nextId, gtid |-> NoGtid, seq |-> 0]]
    /\ nextId' = nextId + 1
    /\ UNCHANGED <<binlog, lockBy, rd, out, issued, faults, kills>>

Deregister(t) ==
    /\ rows[t] # None
    /\ rows' = [rows EXCEPT ![t] = None]
    /\ UNCHANGED <<binlog, nextId, lockBy, rd, out, issued, faults, kills>>

-----------------------------------------------------------------------------
(* Becoming and ceasing to be the reader. *)

\* lockCluster, over a state with a row of the cluster.
LockCluster(r) ==
    /\ rd[r].pc = "idle"
    /\ Registered # {}
    /\ lockBy = None
    /\ lockBy' = r
    /\ rd' = [rd EXCEPT ![r].pc = "begin"]
    /\ UNCHANGED <<binlog, rows, nextId, out, issued, faults, kills>>

\* The deferred lock.Close; what the reader had in memory is gone.
Leave(r) ==
    /\ lockBy' = IF lockBy = r THEN None ELSE lockBy
    /\ Set(r, IdleReader)

\* Wrong: starts behind the saved GTID set.
StartBehind(m, g) ==
    [m EXCEPT !.pc = "reload", !.cont = "start", !.pos = <<g - 1, 0>>]

StartAt(m, g) ==
    [m EXCEPT !.pc = "reload", !.cont = "start", !.pos = <<g, Size(g)>>]

\* The GTID set to start from is the one saved in the state or, when there is
\* none, the master's, which is then saved for every table.
Begin(r) ==
    /\ rd[r].pc = "begin"
    /\ \/ \E t \in Registered :
             /\ rows[t].gtid # NoGtid
             /\ Set(r, StartAt(rd[r], rows[t].gtid))
             /\ UNCHANGED <<rows, lockBy, faults>>
       \/ /\ Registered # {}
          /\ \A t \in Registered : rows[t].gtid = NoGtid
          /\ Set(r, StartAt(rd[r], Len(binlog)))
          /\ \/ /\ rows' = [t \in Tables |-> IF rows[t] = None THEN None
                                             ELSE [rows[t] EXCEPT !.gtid = Len(binlog)]]
                /\ UNCHANGED faults
             \/ Fault /\ UNCHANGED rows           \* the error is only logged
          /\ UNCHANGED lockBy
       \/ /\ Registered = {}
          /\ Leave(r)
          /\ UNCHANGED <<rows, faults>>
       \/ /\ Fault
          /\ Leave(r)
          /\ UNCHANGED rows
    /\ UNCHANGED <<binlog, nextId, out, issued, kills>>

-----------------------------------------------------------------------------
(* updateState. *)

UpdateState(m, caller) == [m EXCEPT !.pc = "reload", !.cont = caller]

\* Its failure ends the reader: at the start at once, later through the
\* final save of readEvents.
UpdateFailed(r) ==
    \/ rd[r].cont = "start" /\ Leave(r)
    \/ rd[r].cont # "start" /\ Set(r, [rd[r] EXCEPT !.pc = "finish"]) /\ UNCHANGED lockBy

\* The row the entry was made for is still there.
Current(e) == rows[e.tab] # None /\ rows[e.tab].id = e.id

\* removeDeletedTables: the last entry takes the place of a removed one.
Swept(s) ==
    LET kept  == {k \in DOMAIN s : Current(s[k])}
        front == 1 .. Cardinality(kept)
        from  == CHOOSE f \in [front \ kept -> kept \ front] :
                    \A h, k \in front \ kept : h < k => f[h] > f[k]
    IN  [k \in front |-> s[IF k \in kept THEN k ELSE from[k]]]

\* Wrong: entries are never removed.
ReloadedKeeping(s, n, pos) ==
    LET new == SetToSeq({t \in Registered : NameOf[t] = n /\ \A e \in Range(s) : e.tab # t})
    IN  s \o [k \in DOMAIN new |-> [id |-> rows[new[k]].id, tab |-> new[k], since |-> pos]]

\* reloadState for one name: a row that has no entry gets one, an entry whose
\* row is gone is removed.  A row registered anew while its old entry is still
\* there only has that entry removed, and gets its own at the next reload.
Reloaded(s, n, pos) ==
    LET new == SetToSeq({t \in Registered : NameOf[t] = n /\ \A e \in Range(s) : e.tab # t})
    IN  Swept(s \o [k \in DOMAIN new |-> [id |-> rows[new[k]].id, tab |-> new[k], since |-> pos]])

\* The seqno to go on from: that of the first row that has one.
SeqNos(m) ==
    LET saved == {rows[t].seq : t \in Registered} \ {0}
    IN  IF m.seqNo # 0 THEN {m.seqNo} ELSE IF saved = {} THEN {0} ELSE saved

\* Wrong: the seqnos the last run may have used are used again.
FirstSeqNoSaved(s) == s

\* "Skip all seqNo possibly used before restart."
FirstSeqNo(s) == s + SeqInterval

\* lock.Refresh, which also takes a free lock, and reloadState; the reader
\* ends when no table is left.
Reload(r) ==
    LET m   == rd[r]
        new == [n \in Names |-> Reloaded(m.tables[n], n, m.pos)]
    IN  /\ m.pc = "reload"
        /\ \/ /\ lockBy \in {r, None}
              /\ \E n \in Names : new[n] # <<>>
              /\ lockBy' = r
              /\ \E s \in SeqNos(m) :
                    Set(r, [m EXCEPT !.pc = "save", !.tables = new,
                                     !.seqNo = IF m.cont = "start" THEN FirstSeqNo(s) ELSE s])
              /\ UNCHANGED faults
           \/ /\ lockBy \in {r, None} => \A n \in Names : new[n] = <<>>
              /\ UpdateFailed(r)
              /\ UNCHANGED faults
           \/ /\ Fault
              /\ UpdateFailed(r)
        /\ UNCHANGED <<binlog, rows, nextId, out, issued, kills>>

\* Where updateState returns to.
Returned(m) ==
    LET to == [start |-> "select", tick |-> "select", row |-> "push",
               alter |-> "mutate", schema |-> "schema"]
    IN  [m EXCEPT !.pc = to[m.cont], !.cont = "none",
                  !.began = IF m.cont = "start" THEN m.pos ELSE @]

\* Wrong: only the rows being ingested are saved.
SavedIngested(m) ==
    [t \in Tables |-> IF t \in {e.tab : e \in Entries(m)} /\ rows[t] # None
                      THEN [rows[t] EXCEPT !.gtid = m.pos[1], !.seq = m.seqNo] ELSE rows[t]]

\* SaveBinlogState: one UPDATE of every row of the cluster.
Saved(m) ==
    [t \in Tables |-> IF rows[t] = None THEN None
                      ELSE [rows[t] EXCEPT !.gtid = m.pos[1], !.seq = m.seqNo]]

Save(r) ==
    /\ rd[r].pc = "save"
    /\ \/ /\ rows' = Saved(rd[r])
          /\ Set(r, Returned(rd[r]))
          /\ UNCHANGED <<lockBy, faults>>
       \/ /\ Fault
          /\ rows' \in {rows, Saved(rd[r])}
          /\ UpdateFailed(r)
    /\ UNCHANGED <<binlog, nextId, out, issued, kills>>

\* The state update timer.
Tick(r) ==
    /\ rd[r].pc = "select"
    /\ Set(r, UpdateState(rd[r], "tick"))
    /\ UNCHANGED <<binlog, rows, nextId, lockBy, out, issued, faults, kills>>

-----------------------------------------------------------------------------
(* processBatch and handleEvent. *)

BatchFailed(m) == [m EXCEPT !.pc = "finish"]

\* Wrong: the batch ends without a commit.
HandledNoCommit(m) ==
    [m EXCEPT !.cnt = @ + 1, !.i = 0, !.cur = NoEntry, !.row = 0,
              !.pc = IF m.cnt + 1 >= BatchSize * NumTables(m) THEN "select" ELSE "batch"]

\* An event was handled; the batch is over when it has enough of them.
Handled(m) ==
    [m EXCEPT !.cnt = @ + 1, !.i = 0, !.cur = NoEntry, !.row = 0,
              !.pc = IF m.cnt + 1 >= BatchSize * NumTables(m) THEN "commit" ELSE "batch"]

\* handleRowsEvent goes on to the i-th entry, if there is one by then.
NextEntry(m, i) ==
    LET entries == m.tables[EventAt(m.pos).name]
    IN  IF i > Len(entries) THEN Handled(m)
        ELSE [m EXCEPT !.pc = "rows", !.i = i, !.cur = entries[i], !.row = 1]

\* handleEvent of a GTID event (incGTID) or of a row or query event.
TakeEvent(r) ==
    LET m == rd[r]
        n == [m EXCEPT !.pos = <<@[1], @[2] + 1>>]
    IN  /\ m.pc \in {"select", "batch"}
        /\ \/ /\ m.pos[2] = Size(m.pos[1])
              /\ m.pos[1] < Len(binlog)
              /\ Set(r, Handled([m EXCEPT !.pos = <<@[1] + 1, 0>>]))
           \/ /\ m.pos[2] < Size(m.pos[1])
              /\ EventAt(n.pos).kind # "alter"
              /\ Set(r, NextEntry(n, 1))
           \/ /\ m.pos[2] < Size(m.pos[1])
              /\ EventAt(n.pos).kind = "alter"
              /\ Set(r, UpdateState(n, "alter"))
        /\ UNCHANGED <<binlog, rows, nextId, lockBy, out, issued, faults, kills>>

\* The event of the fetcher is an error other than the end.
FetchFailed(r) ==
    /\ rd[r].pc \in {"select", "batch"}
    /\ Fault
    /\ Set(r, BatchFailed(rd[r]))
    /\ UNCHANGED <<binlog, rows, nextId, lockBy, out, issued, kills>>

\* nextSeqNo saves the state at every SeqInterval-th seqno.
SaveIsDue(s) == s % SeqInterval = 0

Message(m) == [id |-> m.cur.id, ev |-> m.pos, row |-> m.row, seq |-> m.seqNo]

\* Wrong: only the first row of an event is produced.
AfterFirstRow(m) == NextEntry(m, m.i + 1)

AfterRow(m) ==
    IF m.row < RowCount(EventAt(m.pos)) THEN [m EXCEPT !.pc = "rows", !.row = @ + 1]
    ELSE NextEntry(m, m.i + 1)

\* produceRow after nextSeqNo: PushBatch to the producer of the entry.  An
\* error ends the batch, unless a shutdown was initiated.
PushRow(r, m) ==
    /\ \/ /\ Set(r, AfterRow([m EXCEPT !.pend = Append(@, Message(m))]))
          /\ UNCHANGED faults
       \/ Fault /\ ~m.down /\ Set(r, BatchFailed(m))
       \/ Fault /\ m.down /\ Set(r, AfterRow(m))
    /\ issued' = [issued EXCEPT ![m.cur.id] = IF @ < m.seqNo THEN m.seqNo ELSE @]

ProduceRow(r) ==
    LET m == rd[r]
        n == [m EXCEPT !.seqNo = @ + 1]
    IN  /\ \/ m.pc = "rows" /\ ~SaveIsDue(n.seqNo) /\ PushRow(r, n)
           \/ m.pc = "push" /\ PushRow(r, m)
           \/ /\ m.pc = "rows" /\ SaveIsDue(n.seqNo)
              /\ Set(r, UpdateState(n, "row"))
              /\ UNCHANGED <<issued, faults>>
        /\ UNCHANGED <<binlog, rows, nextId, lockBy, out, kills>>

\* handleQueryEvent after updateState: MutateTable and ReplaceSchema for each
\* entry of the name, then pushSchema, which takes a seqno of its own.  If its
\* updateState removes an entry, the slice pushSchema walks ends in nil and
\* the process dies.
AlterTable(r) ==
    LET m       == rd[r]
        entries == m.tables[EventAt(m.pos).name]
        n       == [m EXCEPT !.seqNo = @ + 1, !.i = Len(entries)]
    IN  /\ \/ /\ m.pc = "mutate" /\ entries = <<>>
              /\ Set(r, Handled(m))
              /\ UNCHANGED <<lockBy, faults>>
           \/ /\ m.pc = "mutate" /\ entries # <<>>
              /\ Set(r, IF SaveIsDue(n.seqNo) THEN UpdateState(n, "schema") ELSE Handled(n))
              /\ UNCHANGED <<lockBy, faults>>
           \/ /\ m.pc = "schema" /\ Len(entries) >= m.i
              /\ Set(r, Handled(m))
              /\ UNCHANGED <<lockBy, faults>>
           \/ /\ m.pc = "schema" /\ Len(entries) < m.i
              /\ Leave(r)
              /\ UNCHANGED faults
           \/ /\ m.pc \in {"mutate", "schema"}
              /\ Fault
              /\ Set(r, BatchFailed(m))
              /\ UNCHANGED lockBy
        /\ UNCHANGED <<binlog, rows, nextId, out, issued, kills>>

\* No event is waiting: processBatch commits what it has.
EndBatch(r) ==
    /\ rd[r].pc = "batch"
    /\ Set(r, [rd[r] EXCEPT !.pc = "commit"])
    /\ UNCHANGED <<binlog, rows, nextId, lockBy, out, issued, faults, kills>>

Stored(msgs) == out \cup {[id |-> x.id, ev |-> x.ev, row |-> x.row] : x \in msgs}

\* PushBatchCommit of every entry's producer; an error leaves some of the
\* messages out of the pipe.
Commit(r) ==
    LET m    == rd[r]
        msgs == {x \in Range(m.pend) : x.id \in {e.id : e \in Entries(m)}}
        n    == [m EXCEPT !.pend = <<>>]
    IN  /\ m.pc = "commit"
        /\ \/ /\ out' = Stored(msgs)
              /\ Set(r, [n EXCEPT !.pc = "select", !.cnt = 0, !.began = m.pos])
              /\ UNCHANGED faults
           \/ /\ Fault
              /\ \E some \in SUBSET msgs : some # msgs /\ out' = Stored(some)
              /\ Set(r, BatchFailed(n))
        /\ UNCHANGED <<binlog, rows, nextId, lockBy, issued, kills>>

-----------------------------------------------------------------------------
(* The end of a reader. *)

\* Shutdown is initiated in the reader's process, at any moment.
Shutdown(r) ==
    /\ rd[r].pc # "idle" /\ ~rd[r].down
    /\ Fault
    /\ Set(r, [rd[r] EXCEPT !.down = TRUE])
    /\ UNCHANGED <<binlog, rows, nextId, lockBy, out, issued, kills>>

\* The loop of readEvents sees it.
Stop(r) ==
    /\ rd[r].pc = "select" /\ rd[r].down
    /\ Set(r, [rd[r] EXCEPT !.pc = "finish"])
    /\ UNCHANGED <<binlog, rows, nextId, lockBy, out, issued, faults, kills>>

\* The final save of readEvents, whatever ended it, and the deferred calls.
Finish(r) ==
    /\ rd[r].pc = "finish"
    /\ \/ rows' = Saved(rd[r]) /\ UNCHANGED faults
       \/ Fault /\ UNCHANGED rows
    /\ Leave(r)
    /\ UNCHANGED <<binlog, nextId, out, issued, kills>>

\* The process dies; the server releases the lock of its session.
Crash(r) ==
    /\ rd[r].pc # "idle"
    /\ Fault
    /\ Leave(r)
    /\ UNCHANGED <<binlog, rows, nextId, out, issued, kills>>

\* The session that holds the lock is lost, and its reader does not know yet.
LoseLock ==
    /\ lockBy # None
    /\ kills < MaxKills
    /\ kills' = kills + 1
    /\ lockBy' = None
    /\ UNCHANGED <<binlog, rows, nextId, rd, out, issued, faults>>

-----------------------------------------------------------------------------
Init ==
    /\ binlog = <<>>
    /\ rows = [t \in Tables |-> None]
    /\ nextId = 1
    /\ lockBy = None
    /\ rd = [r \in Readers |-> IdleReader]
    /\ out = {}
    /\ issued = [id \in 1 .. MaxId |-> 0]
    /\ faults = 0
    /\ kills = 0

ReaderStep(r) ==
    \/ LockCluster(r) \/ Begin(r)
    \/ Tick(r) \/ Reload(r) \/ Save(r)
    \/ TakeEvent(r) \/ ProduceRow(r) \/ AlterTable(r) \/ EndBatch(r) \/ Commit(r)
    \/ Stop(r) \/ Finish(r)

Next ==
    \/ CommitTx
    \/ \E t \in Tables : Register(t) \/ Deregister(t)
    \/ \E r \in Readers : ReaderStep(r)
    \/ \E r \in Readers : FetchFailed(r) \/ Shutdown(r) \/ Crash(r)
    \/ LoseLock

Spec == Init /\ [][Next]_vars

FairSpec == Spec /\ \A r \in Readers : WF_vars(ReaderStep(r))

-----------------------------------------------------------------------------
(* Properties. *)

\* The seqno is the logical time of the events of a table: every row pushed for
\* a registration has a greater one than all before it, whichever reader, in
\* whichever run, pushed them (nextSeqNo, updateState).
SeqNoAdvances ==
    [][\A r \in Readers :
          Len(rd'[r].pend) > Len(rd[r].pend) =>
              Last(rd'[r].pend).seq > issued[Last(rd'[r].pend).id]]_vars

\* The saved GTID set of a table never goes back while readers take over from
\* each other (state.SaveBinlogState, state.SetGTID).
GtidNeverRegresses ==
    [][\A t \in Tables :
          rows[t] # None /\ rows'[t] # None /\ rows'[t].id = rows[t].id
              => rows'[t].gtid >= rows[t].gtid]_vars

\* The rows of a cluster that have a GTID set have the same one: GetGTID may
\* take any of them (ORDER BY compares texts, not sets).
OneGtid ==
    \A t, u \in Registered :
        NoGtid \in {rows[t].gtid, rows[u].gtid} \/ rows[t].gtid = rows[u].gtid

\* The row events of a name after position `from', up to position `to'.
RowEvents(n, from, to) ==
    {p \in UNION {{<<g, k>> : k \in 1 .. Size(g)} : g \in 1 .. Len(binlog)} :
        /\ Before(from, p) /\ ~Before(to, p)
        /\ EventAt(p).name = n /\ EventAt(p).kind # "alter"}

RowsOf(id, events) ==
    UNION {{[id |-> id, ev |-> p, row |-> k] : k \in 1 .. RowCount(EventAt(p))} : p \in events}

\* While a reader runs, every row of every event it read since it took up a
\* table is in the pipe, or, if read in the current batch, pushed: the
\* hand-over from batch to batch and the state updates in the middle of one
\* lose nothing (processBatch, handleRowsEvent, updateState).
NothingDropped ==
    \A r \in Readers :
        LET m == rd[r]
        IN  m.pc \in {"select", "batch", "commit"} /\ ~m.down =>
              \A n \in Names : \A e \in Range(m.tables[n]) :
                  /\ RowsOf(e.id, RowEvents(n, e.since, m.began)) \subseteq out
                  /\ RowsOf(e.id, RowEvents(n, e.since, m.pos)) \subseteq Stored(Range(m.pend))

\* What a save of the GTID set can lose, if the reader dies right after it, are
\* events of the batch in progress, which may hold several transactions; the
\* one between batches loses nothing that was read.  Not so in a shutdown, when
\* errors of the batch are ignored (state.SaveBinlogState at mysql.go:339 and
\* 744; mysql.go:415).
LossPerSave ==
    [][\A r \in Readers :
          rd[r].pc \in {"save", "finish"} /\ rows' # rows /\ ~rd[r].down =>
              \A n \in Names : \A e \in Range(rd[r].tables[n]) :
                  LET to == IF rd[r].cont = "tick" THEN rd[r].pos ELSE rd[r].began
                  IN  RowsOf(e.id, RowEvents(n, e.since, to)) \subseteq out]_vars

Ingested(t) ==
    \E r \in Readers : \E e \in Range(rd[r].tables[NameOf[t]]) : e.tab = t /\ Current(e)

\* A table that is registered is taken up by a reader, or deregistered again:
\* a re-registered table, a reader that ended for want of tables and a crash
\* only delay it (reloadState).
RegisteredIsIngested ==
    \A t \in Tables : rows[t] # None ~> (Ingested(t) \/ rows[t] = None)

\* mysql.go:468, "Produce event to all outputs and versions of the table".
EventReachesAllVersions ==
    \A r \in Readers :
        LET m == rd[r]
        IN  m.pc \in {"batch", "commit"} /\ ~m.down /\ m.pos[2] > 0 /\ EventAt(m.pos).kind # "alter" =>
              \A e \in Range(m.tables[EventAt(m.pos).name]) :
                  Before(e.since, m.pos) => RowsOf(e.id, {m.pos}) \subseteq Stored(Range(m.pend))

\* A worker reads the binlog between taking the cluster's lock and closing it,
\* and is ended by the loss of it or goes on: what it does with the lock, also in
\* updateState, is what a NamedLock allows (mysql.go:417-466, 770-790).
ClusterLock == INSTANCE NamedLock WITH
    Clients <- Readers,
    Locks <- {"cluster"},
    has <- IF lockBy = None THEN {} ELSE {<<lockBy, "cluster">>},
    believes <- {r \in Readers : rd[r].pc # "idle"}
UsesNamedLock == ClusterLock!Spec

=============================================================================
