------------------------------ MODULE TableSchemas ------------------------------
(***************************************************************************)
(* state/state.go with its callers in changelog/mysql.go and               *)
(* server/table_handler.go: the schema of one table, its versions          *)
(* registered and deregistered by HTTP requests while the binlog reader    *)
(* meets ALTER TABLEs.  A version is a row of `state` with a raw schema;   *)
(* the structured schema is kept once for the table, in `columns`, and     *)
(* every encoder is made from that.                                        *)
(*                                                                         *)
(* A schema is the set of the ALTER TABLEs it contains, numbered as the    *)
(* master commits them, and a GTID set the number of the last.  An ALTER   *)
(* TABLE cannot be applied to a schema that contains it.  Every statement  *)
(* of ReplaceSchema's transaction that others could wait for is a step;    *)
(* the locks are those of InnoDB on the rows the statements name.          *)
(* Another table of the cluster stays registered.                          *)
(***************************************************************************)
EXTENDS Integers, FiniteSets

CONSTANTS
    Versions,    \* versions of the table
    Readers,     \* processes that may read the binlog
    Handlers,    \* HTTP requests served at a time
    MaxAlters,   \* bound on ALTER TABLEs
    MaxIds,      \* bound on registrations
    MaxFaults,   \* bound on errors, crashes and lost locks
    None

ASSUME VersionsAssumption == Versions # {} /\ None \notin Versions
ASSUME ProcessesAssumption == Readers \cap Handlers = {} /\ None \notin Readers \cup Handlers
ASSUME BoundsAssumption == MaxAlters \in Nat

VARIABLES
    master,      \* ALTER TABLEs the master has committed
    slave,       \* and those the slave has applied
    rows,        \* the rows of state
    columns,     \* the schema in columns, or NoColumns
    saved,       \* the GTID set of the cluster
    locked,      \* who holds the lock of a row, and whether its transaction is over
    cluster,     \* the reader that holds the cluster's lock
    rd,          \* the readers
    req,         \* the requests
    lastId,      \* AUTO_INCREMENT of state
    missed,      \* pairs of an id and an ALTER TABLE it is not going to get (history)
    faults

sourceVars == <<master, slave>>
storeVars  == <<rows, columns, saved>>
vars == <<sourceVars, storeVars, locked, cluster, rd, req, lastId, missed, faults>>

Schemas == SUBSET (Nat \ {0})
NoColumns == {0}
NoRow == [id |-> 0, sgtid |-> 0, raw |-> {}]
Columns == "columns"
Lockable == Versions \cup {Columns}
Free == [by |-> None, over |-> FALSE]

Registered == {v \in Versions : rows[v] # NoRow}

Fault == faults < MaxFaults /\ faults' = faults + 1

\* The locks when p's transaction ends, ...
Released(p) == [x \in Lockable |-> IF locked[x] = [by |-> p, over |-> FALSE] THEN Free ELSE locked[x]]

\* ... when ReplaceSchema returns and neither commits nor rolls back, ...
Abandoned(p) == [x \in Lockable |-> IF locked[x].by = p THEN [by |-> p, over |-> TRUE] ELSE locked[x]]

\* ... and when the process is gone, and its connections with it.
Dropped(p) == [x \in Lockable |-> IF locked[x].by = p THEN Free ELSE locked[x]]

\* A reader that looked for a row that is not there has locked the gap, which
\* keeps away nobody but an insert.
Waits(v) == locked[v] # Free /\ ~(v \notin Registered /\ locked[v].by \in Readers)

-----------------------------------------------------------------------------
(* The servers. *)

Alter ==
    /\ master < MaxAlters
    /\ master' = master + 1
    /\ UNCHANGED <<slave, storeVars, locked, cluster, rd, req, lastId, missed, faults>>

Replicate ==
    /\ slave < master
    /\ slave' = slave + 1
    /\ UNCHANGED <<master, storeVars, locked, cluster, rd, req, lastId, missed, faults>>

-----------------------------------------------------------------------------
(* The binlog reader: updateState. *)

NoEntry == [id |-> 0, sgtid |-> 0, raw |-> {}, enc |-> {}]

Down ==
    [pc      |-> "down",
     pos     |-> 0,           \* gtidSet
     entries |-> [v \in Versions |-> NoEntry],
     seen    |-> [v \in Versions |-> NoRow],  \* what GetCond returned
     todo    |-> {},          \* versions the loop over the entries has not met
     at      |-> None,        \* the version it is at
     first   |-> FALSE,       \* in the updateState readEvents begins with
     alter   |-> FALSE,       \* in handleQueryEvent
     right   |-> {},          \* versions that were right before the ALTER TABLE (history)
     crossed |-> FALSE]       \* another schema was stored meanwhile (history)

\* Wrong: the ticket is never given back.
UnlockedNever(r) == cluster

\* The cluster's lock when r is done with it.
Unlocked(r) == IF cluster = r THEN None ELSE cluster

\* A worker locks the cluster and starts from the saved GTID set.
Start(r) ==
    /\ rd[r].pc = "down" /\ cluster = None
    /\ cluster' = r
    /\ rd' = [rd EXCEPT ![r] = [Down EXCEPT !.pc = "rows", !.pos = saved, !.first = TRUE]]
    /\ UNCHANGED <<sourceVars, storeVars, locked, req, lastId, missed, faults>>

\* What the versions do not get when r ends and the next reader begins with the
\* ALTER TABLE after last.
GivenUp(r, last) ==
    LET from == IF rd[r].alter THEN rd[r].pos ELSE rd[r].pos + 1
    IN  UNION {{<<rows[v].id, k>> : k \in (from .. last) \ rows[v].raw} : v \in Registered}

\* A return with an error: the entries are gone.
Failed(r) ==
    /\ rd' = [rd EXCEPT ![r] = [Down EXCEPT !.pc = "final", !.pos = rd[r].pos, !.first = rd[r].first]]
    /\ missed' = missed \cup GivenUp(r, IF saved > rd[r].pos THEN saved ELSE rd[r].pos)

\* updateState: the lock is still there, and GetCond.
GetRows(r) ==
    /\ rd[r].pc = "rows"
    /\ IF cluster = r
       THEN rd' = [rd EXCEPT ![r].pc = "add", ![r].seen = rows] /\ UNCHANGED missed
       ELSE Failed(r)
    /\ UNCHANGED <<sourceVars, storeVars, locked, cluster, req, lastId, faults>>

\* reloadState: an entry of a row that is gone or was registered anew is
\* removed; a row without an entry gets one, with an encoder for the columns.
Reloaded(r, v) ==
    LET row == rd[r].seen[v]
        ent == rd[r].entries[v]
    IN  CASE row = NoRow    -> NoEntry
          [] ent = NoEntry  -> [id |-> row.id, sgtid |-> row.sgtid, raw |-> row.raw, enc |-> columns]
          [] ent.id = row.id -> ent
          [] OTHER          -> NoEntry

\* The rows whose entry is removed although they are there.
Reborn(r) ==
    {v \in Versions : /\ rd[r].seen[v] # NoRow
                      /\ rd[r].entries[v].id \notin {0, rd[r].seen[v].id}}

AddTables(r) ==
    LET pos == rd[r].pos
        new == {v \in Versions : rd[r].seen[v] # NoRow /\ rd[r].entries[v] = NoEntry}
    IN  /\ rd[r].pc = "add"
        /\ IF new # {} /\ columns = NoColumns
           THEN Failed(r)
           ELSE /\ rd' = [rd EXCEPT ![r].pc = "save",
                                    ![r].entries = [v \in Versions |-> Reloaded(r, v)],
                                    ![r].seen = Down.seen]
                /\ missed' = missed \cup
                       IF ~rd[r].alter THEN {}
                       ELSE {<<rd[r].seen[v].id, pos>> : v \in {w \in Reborn(r) : pos \notin rd[r].seen[w].raw}}
        /\ UNCHANGED <<sourceVars, storeVars, locked, cluster, req, lastId, faults>>

\* The next entry of the loop in handleQueryEvent, or the end of the loop.
Resume(m, todo) ==
    IF todo = {} THEN [m EXCEPT !.pc = "read", !.todo = {}, !.at = None, !.alter = FALSE]
                 ELSE [m EXCEPT !.pc = "alter", !.todo = todo, !.at = None]

\* SaveBinlogState: it updates every row of the cluster.
Save(r) ==
    LET m == [rd[r] EXCEPT !.first = FALSE]
    IN  /\ rd[r].pc = "save"
        /\ IF \E v \in Versions : Waits(v)
           THEN Failed(r) /\ UNCHANGED saved
           ELSE /\ saved' = rd[r].pos
                /\ rd' = [rd EXCEPT ![r] = IF m.alter
                              THEN Resume(m, {v \in Versions : m.entries[v] # NoEntry})
                              ELSE [m EXCEPT !.pc = "read"]]
                /\ UNCHANGED missed
        /\ UNCHANGED <<sourceVars, rows, columns, locked, cluster, req, lastId, faults>>

Tick(r) ==
    /\ rd[r].pc = "read"
    /\ rd' = [rd EXCEPT ![r].pc = "rows", ![r].right = {}, ![r].crossed = FALSE]
    /\ UNCHANGED <<sourceVars, storeVars, locked, cluster, req, lastId, missed, faults>>

\* The final SaveBinlogState of readEvents, whose error is logged; a reader that
\* never got to read makes none.
FinalSave(r) ==
    /\ rd[r].pc = "final"
    /\ saved' = IF rd[r].first \/ \E v \in Versions : Waits(v) THEN saved ELSE rd[r].pos
    /\ rd' = [rd EXCEPT ![r] = Down]
    /\ cluster' = Unlocked(r)
    /\ UNCHANGED <<sourceVars, rows, columns, locked, req, lastId, missed, faults>>

-----------------------------------------------------------------------------
(* The binlog reader: handleQueryEvent. *)

\* The next ALTER TABLE arrives; the state is updated before anything else.
TakeAlter(r) ==
    LET m == rd[r]
    IN  /\ m.pc = "read" /\ m.pos < master
        /\ rd' = [rd EXCEPT ![r] = [m EXCEPT
                      !.pc = "rows", !.pos = @ + 1, !.alter = TRUE, !.crossed = FALSE,
                      !.right = {v \in Versions : m.entries[v] # NoEntry /\ m.entries[v].raw = 1 .. m.pos}]]
        /\ UNCHANGED <<sourceVars, storeVars, locked, cluster, req, lastId, missed, faults>>

\* Wrong: the encoder's schema gets the ALTER TABLE on top of what it was.
MutatedEach(ent, pos) == [ent EXCEPT !.raw = @ \cup {pos}, !.enc = @ \cup {pos}]

\* MutateTable applies the ALTER TABLE to the raw schema of an entry and puts
\* the result into the encoder's.
Mutated(ent, pos) == [ent EXCEPT !.raw = @ \cup {pos}, !.enc = ent.raw \cup {pos}]

\* Wrong: schemaGtid stays what it was when the table was added.
StoredBefore(ent, pos) == ent

\* schemaGtid after ReplaceSchema.
Stored(ent, pos) == [ent EXCEPT !.sgtid = pos]

\* One version: MutateTable, and ReplaceSchema up to its SELECT ... FOR UPDATE.
\* A version whose schema was stored by someone else is skipped; the
\* transaction, and with it the lock, stays open.
Select(r) ==
    /\ rd[r].pc = "alter"
    /\ \E v \in rd[r].todo :
         LET ent  == rd[r].entries[v]
             pos  == rd[r].pos
             next == [rd[r] EXCEPT !.at = v, !.entries[v] = Mutated(ent, pos)]
         IN  IF pos \in ent.raw \/ (v \in Registered /\ locked[v] # Free)
             THEN Failed(r) /\ UNCHANGED locked
             ELSE IF v \notin Registered
             THEN Failed(r) /\ locked' = [locked EXCEPT ![v] = IF @ = Free THEN [by |-> r, over |-> TRUE] ELSE @]
             ELSE /\ rd' = [rd EXCEPT ![r] =
                       IF rows[v].sgtid = ent.sgtid THEN [next EXCEPT !.pc = "commit"]
                       ELSE [next EXCEPT !.pc = "codec", !.entries[v] = Stored(@, pos), !.crossed = TRUE]]
                  /\ locked' = [locked EXCEPT ![v] = [by |-> r, over |-> rows[v].sgtid # ent.sgtid]]
                  /\ UNCHANGED missed
    /\ UNCHANGED <<sourceVars, storeVars, cluster, req, lastId, faults>>

\* Another schema is stored before the readers in UpdateCodec have read theirs.
Crossed(m) == IF m.pc = "codec" THEN [m EXCEPT !.crossed = TRUE] ELSE m

\* The rest of ReplaceSchema: the row, the columns, and the commit.
Commit(r) ==
    LET m   == rd[r]
        ent == m.entries[m.at]
        row == rows[m.at]
    IN  /\ m.pc = "commit"
        /\ IF locked[Columns] # Free
           THEN Failed(r) /\ locked' = Abandoned(r) /\ UNCHANGED <<rows, columns>>
           ELSE /\ rows' = [rows EXCEPT ![m.at].raw = ent.raw, ![m.at].sgtid = m.pos]
                /\ columns' = ent.enc
                /\ locked' = Released(r)
                /\ rd' = [p \in Readers |-> IF p = r
                             THEN [m EXCEPT !.pc = "codec", !.entries[m.at] = Stored(@, m.pos)]
                             ELSE Crossed(rd[p])]
                /\ missed' = missed \cup {<<row.id, k>> : k \in IF row.id = ent.id THEN {} ELSE row.raw \ ent.raw}
        /\ UNCHANGED <<sourceVars, saved, cluster, req, lastId, faults>>

\* UpdateCodec: the encoder's schema is read again from columns.
Codec(r) ==
    LET m == rd[r]
    IN  /\ m.pc = "codec"
        /\ IF columns = NoColumns
           THEN Failed(r)
           ELSE /\ rd' = [rd EXCEPT ![r] = Resume([m EXCEPT !.entries[m.at].enc = columns], m.todo \ {m.at})]
                /\ UNCHANGED missed
        /\ UNCHANGED <<sourceVars, storeVars, locked, cluster, req, lastId, faults>>

\* A query fails, or the batch later on; in ReplaceSchema the transaction is left as it is, with the
\* lock on columns once it came to them.
FailReader(r) ==
    /\ rd[r].pc \notin {"down", "final"}
    /\ Fault
    /\ Failed(r)
    /\ locked' = IF rd[r].pc # "commit" THEN locked
                 ELSE IF locked[Columns] # Free THEN Abandoned(r)
                 ELSE [Abandoned(r) EXCEPT ![Columns] = [by |-> r, over |-> TRUE]]
    /\ UNCHANGED <<sourceVars, storeVars, cluster, req, lastId>>

\* The process ends; the server rolls its transactions back and frees its locks.
Crash(r) ==
    /\ rd[r].pc # "down"
    /\ Fault
    /\ rd' = [rd EXCEPT ![r] = Down]
    /\ missed' = missed \cup GivenUp(r, saved)
    /\ locked' = Dropped(r)
    /\ cluster' = Unlocked(r)
    /\ UNCHANGED <<sourceVars, storeVars, req, lastId>>

\* The session of the cluster's lock is lost and the reader does not know it.
LoseLock ==
    /\ cluster # None
    /\ Fault
    /\ cluster' = None
    /\ UNCHANGED <<sourceVars, storeVars, locked, rd, req, lastId, missed>>

-----------------------------------------------------------------------------
(* HTTP requests, served by processes of their own. *)

Idle == [pc |-> "idle", v |-> None, id |-> 0, ts |-> {}, gtid |-> 0, raw |-> {}]

\* RegisterTable asks the slave three times: for the structured schema, ...
Register(h) ==
    /\ req[h].pc = "idle" /\ lastId < MaxIds
    /\ \E v \in Versions :
         req' = [req EXCEPT ![h] = [Idle EXCEPT !.pc = "gtid", !.v = v, !.ts = 1 .. slave]]
    /\ UNCHANGED <<sourceVars, storeVars, locked, cluster, rd, lastId, missed, faults>>

\* ... for its GTID set ...
ReadGtid(h) ==
    /\ req[h].pc = "gtid"
    /\ req' = [req EXCEPT ![h].pc = "raw", ![h].gtid = slave]
    /\ UNCHANGED <<sourceVars, storeVars, locked, cluster, rd, lastId, missed, faults>>

\* ... and for the raw schema.
ReadRaw(h) ==
    /\ req[h].pc = "raw"
    /\ req' = [req EXCEPT ![h].pc = "insert", ![h].raw = 1 .. slave]
    /\ UNCHANGED <<sourceVars, storeVars, locked, cluster, rd, lastId, missed, faults>>

\* INSERT INTO state: waits in vain, finds the key taken and rolls back, or
\* holds the lock of the new row.
Insert(h) ==
    LET v == req[h].v
    IN  /\ req[h].pc = "insert"
        /\ IF locked[v] # Free \/ v \in Registered
           THEN /\ req' = [req EXCEPT ![h] = Idle]
                /\ UNCHANGED <<locked, lastId>>
           ELSE /\ locked' = [locked EXCEPT ![v] = [by |-> h, over |-> FALSE]]
                /\ lastId' = lastId + 1
                /\ req' = [req EXCEPT ![h].pc = "store", ![h].id = lastId + 1]
        /\ UNCHANGED <<sourceVars, storeVars, cluster, rd, missed, faults>>

\* The ALTER TABLEs nobody is going to apply to a row registered now.
Behind ==
    {k \in 1 .. MaxAlters :
        \/ k <= saved
        \/ \E r \in Readers : /\ rd[r].pc # "down" /\ k <= rd[r].pos
                          /\ ~(k = rd[r].pos /\ rd[r].alter /\ rd[r].pc = "rows")}

\* The columns and the commit.
CommitRegister(h) ==
    LET q == req[h]
    IN  /\ q.pc = "store"
        /\ req' = [req EXCEPT ![h] = Idle]
        /\ IF locked[Columns] # Free
           THEN locked' = Abandoned(h) /\ UNCHANGED <<rows, columns, rd, missed>>
           ELSE /\ rows' = [rows EXCEPT ![q.v] = [id |-> q.id, sgtid |-> q.gtid, raw |-> q.raw]]
                /\ columns' = q.ts
                /\ locked' = Released(h)
                /\ missed' = missed \cup {<<q.id, k>> : k \in Behind \ q.raw}
                /\ rd' = [p \in Readers |-> Crossed(rd[p])]
        /\ UNCHANGED <<sourceVars, saved, cluster, lastId, faults>>

\* DeregisterTable: the row, ...
Deregister(h) ==
    /\ req[h].pc = "idle"
    /\ \E v \in Registered :
         /\ locked[v] = Free
         /\ rows' = [rows EXCEPT ![v] = NoRow]
    /\ req' = [req EXCEPT ![h] = [Idle EXCEPT !.pc = "columns"]]
    /\ UNCHANGED <<sourceVars, columns, saved, locked, cluster, rd, lastId, missed, faults>>

\* Wrong: the columns go with every version.
RemainingNone == NoColumns

Remaining == IF Registered = {} THEN NoColumns ELSE columns

\* ... and the columns, when no row of the table is left.
DeleteColumns(h) ==
    /\ req[h].pc = "columns"
    /\ req' = [req EXCEPT ![h] = Idle]
    /\ columns' = IF locked[Columns] = Free /\ ~\E v \in Versions : Waits(v) THEN Remaining ELSE columns
    /\ UNCHANGED <<sourceVars, rows, saved, locked, cluster, rd, lastId, missed, faults>>

\* One of the first queries fails.
GiveUp(h) ==
    /\ req[h].pc \in {"gtid", "raw", "insert"}
    /\ req' = [req EXCEPT ![h] = Idle]
    /\ UNCHANGED <<sourceVars, storeVars, locked, cluster, rd, lastId, missed, faults>>

\* A later one does; ReplaceSchema's transaction is left as it is.
FailRequest(h) ==
    /\ req[h].pc \in {"store", "columns"}
    /\ Fault
    /\ req' = [req EXCEPT ![h] = Idle]
    /\ locked' = Abandoned(h)
    /\ UNCHANGED <<sourceVars, storeVars, cluster, rd, lastId, missed>>

\* Its process ends.
CrashRequest(h) ==
    /\ req[h].pc \in {"store", "columns"} \/ \E x \in Lockable : locked[x].by = h
    /\ Fault
    /\ req' = [req EXCEPT ![h] = Idle]
    /\ locked' = Dropped(h)
    /\ UNCHANGED <<sourceVars, storeVars, cluster, rd, lastId, missed>>

-----------------------------------------------------------------------------
Init ==
    /\ master = 0 /\ slave = 0
    /\ rows = [v \in Versions |-> NoRow]
    /\ columns = NoColumns
    /\ saved = 0
    /\ locked = [x \in Lockable |-> Free]
    /\ cluster = None
    /\ rd = [r \in Readers |-> Down]
    /\ req = [h \in Handlers |-> Idle]
    /\ lastId = 0
    /\ missed = {}
    /\ faults = 0

ReaderStep(r) ==
    \/ Start(r) \/ GetRows(r) \/ AddTables(r) \/ Save(r) \/ TakeAlter(r)
    \/ Select(r) \/ Commit(r) \/ Codec(r) \/ FinalSave(r)

RequestStep(h) ==
    ReadGtid(h) \/ ReadRaw(h) \/ Insert(h) \/ CommitRegister(h) \/ DeleteColumns(h)

Next ==
    \/ Alter \/ Replicate \/ LoseLock
    \/ \E r \in Readers : ReaderStep(r) \/ Tick(r) \/ FailReader(r) \/ Crash(r)
    \/ \E h \in Handlers : \/ RequestStep(h) \/ Register(h) \/ Deregister(h)
                           \/ GiveUp(h) \/ FailRequest(h) \/ CrashRequest(h)

\* A goroutine that can go on does, a request that has begun ends, and a
\* replica that is alive catches up.  The select of readEvents picks any case
\* that is ready, so the ticker cannot keep an event away for ever.
Fairness ==
    /\ WF_vars(Replicate)
    /\ \A r \in Readers : WF_vars(ReaderStep(r)) /\ SF_vars(TakeAlter(r))
    /\ \A h \in Handlers : WF_vars(RequestStep(h))

Spec == Init /\ [][Next]_vars /\ Fairness

-----------------------------------------------------------------------------
SchemaOrNone == Schemas \cup {NoColumns}
Processes == Readers \cup Handlers \cup {None}

RowType == [id : Nat, sgtid : Nat, raw : Schemas]
EntryType == [id : Nat, sgtid : Nat, raw : Schemas, enc : SchemaOrNone]

ReaderType ==
    [pc : {"down", "rows", "add", "save", "read", "alter", "commit", "codec", "final"},
     pos : Nat, entries : [Versions -> EntryType], seen : [Versions -> RowType],
     todo : SUBSET Versions, at : Versions \cup {None}, first : BOOLEAN, alter : BOOLEAN,
     right : SUBSET Versions, crossed : BOOLEAN]

RequestType ==
    [pc : {"idle", "gtid", "raw", "insert", "store", "columns"}, v : Versions \cup {None},
     id : Nat, ts : Schemas, gtid : Nat, raw : Schemas]

\* Type correctness of the tables, the readers and the requests.
TypeOK ==
    /\ master \in Nat /\ slave \in Nat
    /\ rows \in [Versions -> RowType]
    /\ columns \in SchemaOrNone
    /\ saved \in Nat
    /\ locked \in [Lockable -> [by : Processes, over : BOOLEAN]]
    /\ cluster \in Readers \cup {None}
    /\ rd \in [Readers -> ReaderType]
    /\ req \in [Handlers -> RequestType]
    /\ lastId \in Nat

\* While a version of the table is registered the schema in columns is there,
\* whichever registrations and deregistrations of others run meanwhile: the
\* reader takes every encoder from it (encoder/json.go:117) and ends without it.
RowHasColumns == Registered # {} => columns # NoColumns

\* A reader is going to come to the ALTER TABLE, or is at it and the version's
\* turn has not come.
Ahead(v, k) ==
    \E r \in Readers :
        \/ rd[r].pc \notin {"down", "final"} /\ rd[r].pos < k
        \/ rd[r].alter /\ rd[r].pos = k /\ (v \in rd[r].todo \/ rd[r].pc \in {"rows", "add", "save"})

\* An ALTER TABLE the saved GTID set is past is in the schema of every version,
\* unless it has been given up: the version was registered from a slave that
\* lagged behind the reader, its entry was removed because it had been
\* registered anew or was stored over the new row, or the reader failed or
\* crashed after the set was saved (mysql.go:502).
AltersAreKept ==
    \A v \in Registered : \A k \in 1 .. saved :
        k \in rows[v].raw \/ <<rows[v].id, k>> \in missed \/ Ahead(v, k)

\* A version whose raw schema was the table's when an ALTER TABLE came has the
\* table's schema in the entry and in the encoder when the reader goes on,
\* although the encoder reads columns, which all versions share, after the
\* commit (mysql.go:524-529); unless another schema was stored in between.
AlterKeepsRight ==
    \A r \in Readers : rd[r].pc = "read" /\ ~rd[r].crossed =>
        \A v \in rd[r].right : LET ent == rd[r].entries[v] IN
            ent # NoEntry => ent.raw = 1 .. rd[r].pos /\ ent.enc = 1 .. rd[r].pos

\* The reader gets past every ALTER TABLE, one that cannot be applied included,
\* unless a transaction nobody ends keeps its saves waiting (state.go:397).
PastEveryAlter == []<>(saved = master \/ \E x \in Lockable : locked[x].over)

\* The comment at state.go:389-392 says of a schema that is skipped that "this
\* version has been persisted already by concurrent binlog reader earlier": the
\* row has the ALTER TABLE the reader is at.
SkippedIsPersisted ==
    \A r \in Readers : rd[r].pc = "codec" /\ locked[rd[r].at] = [by |-> r, over |-> TRUE] =>
        rd[r].pos \in rows[rd[r].at].raw

\* A reader is up between taking the cluster's lock and giving it up at its end,
\* and what it does with the lock is what a NamedLock allows (mysql.go:770-790).
ClusterLock == INSTANCE NamedLock WITH
    Clients <- Readers,
    Locks <- {"cluster"},
    has <- IF cluster = None THEN {} ELSE {<<cluster, "cluster">>},
    believes <- {r \in Readers : rd[r].pc # "down"}
UsesNamedLock == ClusterLock!Spec

=============================================================================
