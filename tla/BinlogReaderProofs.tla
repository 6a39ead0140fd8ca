---------------------------- MODULE BinlogReaderProofs ----------------------------
(***************************************************************************)
(* The GTID sets a cluster's rows are saved with, for any number of        *)
(* readers, tables, transactions and registrations, over every crash and   *)
(* error: those that are there agree, and, while no session of the lock is *)
(* lost, none goes back.                                                   *)
(*                                                                         *)
(* The first holds because every write of a GTID set is one of all rows of *)
(* the cluster.  For the second the reader that is not idle is one, since  *)
(* it has the lock, and has read at least what is saved: it starts from    *)
(* the set of some row, which by the first is that of every row.  When a   *)
(* lock is lost a reader that does not know it writes what it had read     *)
(* over what the next one saved, and both statements about it fail.        *)
(*                                                                         *)
(* Then what the readers hand over (Drop), for tables with one version     *)
(* each: for every entry a reader has, the events since the entry was made *)
(* are in the pipe up to where the batch began, and in the pipe or pushed up*)
(* to the row the reader is at.  Typed says where a reader may be.         *)
(*                                                                         *)
(* And the sequence numbers it gives (SeqInv), while no session of the lock*)
(* is lost: what was issued to a row is below the number saved with it plus*)
(* SeqInterval, since a reader saves at every multiple of SeqInterval, and *)
(* the next one starts from there.                                         *)
(***************************************************************************)
EXTENDS BinlogReader, FiniteSetTheorems, WellFoundedInduction, TLAPS

\* The records of the model, with the fields that matter here typed.
IsRow(x) == x \in [id : {x.id}, gtid : Int, seq : {x.seq}]

IsReader(m) ==
    /\ m \in [pc : {m.pc}, cont : {m.cont}, pos : {m.pos}, began : {m.began}, seqNo : {m.seqNo},
              tables : {m.tables}, pend : {m.pend}, cnt : {m.cnt}, i : {m.i}, cur : {m.cur},
              row : {m.row}, down : {m.down}]
    /\ m.pos[1] \in Int /\ m.pos[1] >= NoGtid

TypeInv ==
    /\ binlog \in Seq(Transactions)
    /\ rows = [t \in Tables |-> rows[t]]
    /\ \A t \in Registered : IsRow(rows[t]) /\ rows[t].gtid >= NoGtid
    /\ rd = [r \in Readers |-> rd[r]]
    /\ \A r \in Readers : IsReader(rd[r])
    /\ kills \in 0 .. MaxKills

Running(r) == rd[r].pc \notin {"idle", "begin"}

\* One reader, which has read what is saved.
LockInv ==
    MaxKills = 0 => \A r \in Readers :
        /\ rd[r].pc # "idle" => lockBy = r
        /\ Running(r) => \A t \in Registered : rows[t].gtid <= rd[r].pos[1]

Inv == TypeInv /\ OneGtid /\ LockInv

\* The step's part of GtidNeverRegresses.
Advance ==
    \A t \in Tables :
        rows[t] # None /\ rows'[t] # None /\ rows'[t].id = rows[t].id
            => rows'[t].gtid >= rows[t].gtid

StepOk == Inv' /\ (MaxKills = 0 => Advance)

-----------------------------------------------------------------------------
(* What the steps have in common. *)

LEMMA NoGtidIs == NoGtid = -1
BY DEF NoGtid

LEMMA AdvanceSame == ASSUME Inv, UNCHANGED rows PROVE Advance
<1>1. \A t \in Tables : rows[t] # None => rows[t].gtid \in Int
  BY DEF Inv, TypeInv, Registered, IsRow
<1> QED
  BY <1>1 DEF Advance

\* All rows are written with what a reader has read.
LEMMA SavedIs ==
    ASSUME Inv, NEW m, IsReader(m), rows' = Saved(m)
    PROVE  /\ rows' = [t \in Tables |-> rows'[t]]
           /\ \A t \in Tables : rows'[t] # None =>
                 /\ t \in Registered /\ rows'[t].gtid = m.pos[1] /\ IsRow(rows'[t])
                 /\ rows'[t].id = rows[t].id
<1>1. rows' = [t \in Tables |-> IF rows[t] = None THEN None
                                ELSE [rows[t] EXCEPT !.gtid = m.pos[1], !.seq = m.seqNo]]
  BY DEF Saved
<1>2. ASSUME NEW t \in Tables, rows'[t] # None
      PROVE  /\ t \in Registered /\ rows'[t].gtid = m.pos[1] /\ IsRow(rows'[t])
             /\ rows'[t].id = rows[t].id
  <2>1. rows[t] # None /\ IsRow(rows[t]) /\ t \in Registered
    BY <1>1, <1>2 DEF Inv, TypeInv, Registered
  <2>2. rows'[t] = [rows[t] EXCEPT !.gtid = m.pos[1], !.seq = m.seqNo]
    BY <1>1, <2>1
  <2>3. rows'[t] = [id |-> rows[t].id, gtid |-> m.pos[1], seq |-> m.seqNo]
    BY <2>1, <2>2 DEF IsRow
  <2> QED
    BY <2>1, <2>3 DEF IsRow, IsReader
<1> QED
  BY <1>1, <1>2

\* A running reader goes on, and may save.
LEMMA GoesOn ==
    ASSUME Inv, NEW r \in Readers, Running(r),
           NEW m, IsReader(m), m.pos[1] >= rd[r].pos[1], Set(r, m),
           lockBy' \in {lockBy, r}, rows' \in {rows, Saved(rd[r])}, UNCHANGED <<binlog, kills>>
    PROVE  StepOk
<1>1. rd' = [q \in Readers |-> IF q = r THEN m ELSE rd[q]]
  BY DEF Inv, TypeInv, Set
<1>2. IsReader(rd[r]) /\ rd[r].pos[1] \in Int /\ m.pos[1] \in Int
  BY DEF Inv, TypeInv, IsReader
<1>3. \/ rows' = rows
      \/ /\ rows' = [t \in Tables |-> rows'[t]]
         /\ \A t \in Tables : rows'[t] # None =>
               /\ t \in Registered /\ rows'[t].gtid = rd[r].pos[1] /\ IsRow(rows'[t])
               /\ rows'[t].id = rows[t].id
  BY <1>2, SavedIs
<1>4. TypeInv'
  <2>1. \A q \in Readers : IsReader(rd'[q])
    BY <1>1 DEF Inv, TypeInv
  <2>2. /\ rows' = [t \in Tables |-> rows'[t]]
        /\ \A t \in Registered' : IsRow(rows'[t]) /\ rows'[t].gtid >= NoGtid
    BY <1>2, <1>3 DEF Inv, TypeInv, Registered, IsReader
  <2> QED
    BY <1>1, <2>1, <2>2 DEF Inv, TypeInv
<1>5. OneGtid'
  BY <1>3 DEF Inv, OneGtid, Registered
<1>6. ASSUME MaxKills = 0
      PROVE  /\ \A q \in Readers : rd'[q].pc # "idle" => lockBy' = q
             /\ \A q \in Readers : Running(q)' => \A t \in Registered' : rows'[t].gtid <= rd'[q].pos[1]
  <2>1. lockBy = r /\ \A q \in Readers : q # r => rd[q].pc = "idle"
    BY <1>6 DEF Inv, LockInv, Running
  <2>2. \A t \in Registered' : rows'[t].gtid <= rd[r].pos[1] /\ rows'[t].gtid \in Int
    BY <1>2, <1>3, <1>6 DEF Inv, LockInv, TypeInv, Registered, IsRow
  <2>3. \A t \in Registered' : rows'[t].gtid <= m.pos[1]
    BY <1>2, <2>2
  <2> QED
    BY <1>1, <2>1, <2>3 DEF Running
<1>7. ASSUME MaxKills = 0
      PROVE  Advance
  <2>1. \A t \in Registered : rows[t].gtid <= rd[r].pos[1] /\ rows[t].gtid \in Int
    BY <1>7 DEF Inv, LockInv, TypeInv, IsRow
  <2> QED
    BY <1>2, <1>3, <2>1 DEF Advance, Registered
<1> QED
  BY <1>4, <1>5, <1>6, <1>7 DEF StepOk, Inv, LockInv

\* A reader is gone, and may save before.
LEMMA Leaves ==
    ASSUME Inv, NEW r \in Readers, rd[r].pc # "idle", Leave(r),
           rows' = rows \/ (Running(r) /\ rows' = Saved(rd[r])), UNCHANGED <<binlog, kills>>
    PROVE  StepOk
<1>1. rd' = [q \in Readers |-> IF q = r THEN IdleReader ELSE rd[q]]
  BY DEF Inv, TypeInv, Leave, Set
<1>2. IsReader(rd[r]) /\ rd[r].pos[1] \in Int
  BY DEF Inv, TypeInv, IsReader
<1>3. \/ rows' = rows
      \/ /\ rows' = [t \in Tables |-> rows'[t]] /\ Running(r)
         /\ \A t \in Tables : rows'[t] # None =>
               /\ t \in Registered /\ rows'[t].gtid = rd[r].pos[1] /\ IsRow(rows'[t])
               /\ rows'[t].id = rows[t].id
  BY <1>2, SavedIs
<1>4. IsReader(IdleReader)
  BY DEF IsReader, IdleReader, NoGtid
<1>5. TypeInv'
  <2>1. \A q \in Readers : IsReader(rd'[q])
    BY <1>1, <1>4 DEF Inv, TypeInv
  <2>2. /\ rows' = [t \in Tables |-> rows'[t]]
        /\ \A t \in Registered' : IsRow(rows'[t]) /\ rows'[t].gtid >= NoGtid
    BY <1>2, <1>3 DEF Inv, TypeInv, Registered, IsReader
  <2> QED
    BY <1>1, <2>1, <2>2 DEF Inv, TypeInv
<1>6. OneGtid'
  BY <1>3 DEF Inv, OneGtid, Registered
<1>7. ASSUME MaxKills = 0
      PROVE  \A q \in Readers : rd'[q].pc = "idle"
  <2>1. lockBy = r /\ \A q \in Readers : q # r => rd[q].pc = "idle"
    BY <1>7 DEF Inv, LockInv, Running
  <2> QED
    BY <1>1, <2>1 DEF IdleReader
<1>8. ASSUME MaxKills = 0
      PROVE  Advance
  <2>1. Running(r) => \A t \in Registered : rows[t].gtid <= rd[r].pos[1]
    BY <1>8 DEF Inv, LockInv
  <2>2. \A t \in Registered : rows[t].gtid \in Int
    BY DEF Inv, TypeInv, IsRow
  <2> QED
    BY <1>2, <1>3, <2>1, <2>2 DEF Advance, Registered
<1> QED
  BY <1>5, <1>6, <1>7, <1>8 DEF StepOk, Inv, LockInv, Running

-----------------------------------------------------------------------------
(* The operators on a reader's memory leave its position alone. *)

Stays(m, n) == IsReader(n) /\ n.pos = m.pos

LEMMA Updates ==
    ASSUME NEW m, IsReader(m), NEW caller
    PROVE  /\ Stays(m, UpdateState(m, caller)) /\ Stays(m, BatchFailed(m))
           /\ Stays(m, [m EXCEPT !.pc = caller])
BY DEF Stays, IsReader, UpdateState, BatchFailed

LEMMA Returns ==
    ASSUME NEW m, IsReader(m)
    PROVE  Stays(m, Returned(m))
<1> DEFINE to == [start |-> "select", tick |-> "select", row |-> "push",
                  alter |-> "mutate", schema |-> "schema"]
           pc == to[m.cont]
           began == IF m.cont = "start" THEN m.pos ELSE m.began
<1>1. Returned(m) = [m EXCEPT !.pc = pc, !.cont = "none", !.began = began]
  BY DEF Returned
<1> HIDE DEF pc, began
<1> QED
  BY <1>1 DEF Stays, IsReader

LEMMA Handles ==
    ASSUME NEW m, IsReader(m)
    PROVE  Stays(m, Handled(m))
<1> DEFINE pc == IF m.cnt + 1 >= BatchSize * NumTables(m) THEN "commit" ELSE "batch"
           cnt == m.cnt + 1
<1>1. Handled(m) = [m EXCEPT !.cnt = cnt, !.i = 0, !.cur = NoEntry, !.row = 0, !.pc = pc]
  BY DEF Handled
<1> HIDE DEF pc, cnt
<1> QED
  BY <1>1 DEF Stays, IsReader

LEMMA Nexts ==
    ASSUME NEW m, IsReader(m), NEW i
    PROVE  Stays(m, NextEntry(m, i))
<1> DEFINE e == m.tables[EventAt(m.pos).name][i]
<1>1. NextEntry(m, i) \in {Handled(m), [m EXCEPT !.pc = "rows", !.i = i, !.cur = e, !.row = 1]}
  BY DEF NextEntry
<1> HIDE DEF e
<1>2. Stays(m, [m EXCEPT !.pc = "rows", !.i = i, !.cur = e, !.row = 1])
  BY DEF Stays, IsReader
<1> QED
  BY <1>1, <1>2, Handles

LEMMA AfterRows ==
    ASSUME NEW m, IsReader(m)
    PROVE  Stays(m, AfterRow(m))
<1> DEFINE row == m.row + 1
<1>1. AfterRow(m) \in {NextEntry(m, m.i + 1), [m EXCEPT !.pc = "rows", !.row = row]}
  BY DEF AfterRow
<1> HIDE DEF row
<1>2. Stays(m, [m EXCEPT !.pc = "rows", !.row = row])
  BY DEF Stays, IsReader
<1> QED
  BY <1>1, <1>2, Nexts

\* A reader with other numbers and messages.
LEMMA Counts ==
    ASSUME NEW m, IsReader(m), NEW a, NEW b, NEW c
    PROVE  /\ Stays(m, [m EXCEPT !.seqNo = a]) /\ Stays(m, [m EXCEPT !.seqNo = a, !.i = b])
           /\ Stays(m, [m EXCEPT !.pend = a]) /\ Stays(m, [m EXCEPT !.down = a])
           /\ Stays(m, [m EXCEPT !.pend = a, !.pc = b])
           /\ Stays(m, [m EXCEPT !.pc = a, !.tables = b, !.seqNo = c])
           /\ Stays(m, [m EXCEPT !.pc = a, !.cnt = b, !.began = c])
BY DEF Stays, IsReader

LEMMA StaysTwice ==
    ASSUME NEW m, NEW n, NEW o, Stays(m, n), Stays(n, o)
    PROVE  Stays(m, o)
BY DEF Stays

\* The same for a step.
LEMMA StaysOn ==
    ASSUME Inv, NEW r \in Readers, Running(r), NEW m, Stays(rd[r], m), Set(r, m),
           lockBy' \in {lockBy, r}, rows' \in {rows, Saved(rd[r])}, UNCHANGED <<binlog, kills>>
    PROVE  StepOk
<1>1. IsReader(m) /\ m.pos[1] >= rd[r].pos[1]
  BY DEF Stays, IsReader
<1> QED
  BY <1>1, GoesOn

LEMMA ReaderType == ASSUME Inv, NEW r \in Readers PROVE IsReader(rd[r])
BY DEF Inv, TypeInv

-----------------------------------------------------------------------------
(* The steps. *)

LEMMA StutterOk == ASSUME Inv, UNCHANGED <<binlog, rows, lockBy, rd, kills>> PROVE StepOk
<1>1. Inv'
  BY DEF Inv, TypeInv, OneGtid, LockInv, Running, Registered
<1> QED
  BY <1>1, AdvanceSame DEF StepOk

LEMMA CommitTxOk == ASSUME Inv, CommitTx PROVE StepOk
<1>1. UNCHANGED <<rows, lockBy, rd, kills>> /\ \E tx \in Transactions : binlog' = Append(binlog, tx)
  BY DEF CommitTx
<1>2. binlog' \in Seq(Transactions)
  BY <1>1 DEF Inv, TypeInv
<1>3. Inv'
  BY <1>1, <1>2 DEF Inv, TypeInv, OneGtid, LockInv, Running, Registered
<1> QED
  BY <1>1, <1>3, AdvanceSame DEF StepOk

LEMMA RegisterOk == ASSUME Inv, NEW t \in Tables, Register(t) PROVE StepOk
<1> DEFINE new == [id |-> nextId, gtid |-> NoGtid, seq |-> 0]
<1>1. rows' = [u \in Tables |-> IF u = t THEN new ELSE rows[u]] /\ rows[t] = None
  BY DEF Register, Inv, TypeInv
<1>2. IsRow(new) /\ new.gtid = NoGtid
  BY DEF IsRow, NoGtid
<1> HIDE DEF new
<1>3. UNCHANGED <<binlog, lockBy, rd, kills>>
  BY DEF Register
<1>4. TypeInv'
  BY <1>1, <1>2, <1>3 DEF Inv, TypeInv, Registered, NoGtid
<1>5. OneGtid'
  BY <1>1, <1>2 DEF Inv, OneGtid, Registered
<1>6. LockInv'
  <2>1. \A r \in Readers : NoGtid <= rd[r].pos[1]
    BY DEF Inv, TypeInv, IsReader
  <2> QED
    BY <1>1, <1>2, <1>3, <2>1 DEF Inv, LockInv, Running, Registered
<1>7. Advance
  BY <1>1 DEF Advance, Inv, TypeInv, IsRow, Registered
<1> QED
  BY <1>4, <1>5, <1>6, <1>7 DEF StepOk, Inv

LEMMA DeregisterOk == ASSUME Inv, NEW t \in Tables, Deregister(t) PROVE StepOk
<1>1. rows' = [u \in Tables |-> IF u = t THEN None ELSE rows[u]] /\ UNCHANGED <<binlog, lockBy, rd, kills>>
  BY DEF Deregister, Inv, TypeInv
<1>2. Inv'
  BY <1>1 DEF Inv, TypeInv, OneGtid, LockInv, Running, Registered
<1>3. Advance
  BY <1>1 DEF Advance, Inv, TypeInv, IsRow, Registered
<1> QED
  BY <1>2, <1>3 DEF StepOk

LEMMA LockClusterOk == ASSUME Inv, NEW r \in Readers, LockCluster(r) PROVE StepOk
<1>1. /\ rd[r].pc = "idle" /\ lockBy = None /\ lockBy' = r /\ UNCHANGED <<binlog, rows, kills>>
      /\ rd' = [q \in Readers |-> IF q = r THEN [rd[r] EXCEPT !.pc = "begin"] ELSE rd[q]]
  BY DEF LockCluster, Inv, TypeInv
<1>2. IsReader(rd'[r]) /\ rd'[r].pc = "begin"
  BY <1>1, ReaderType DEF IsReader
<1>3. TypeInv'
  BY <1>1, <1>2 DEF Inv, TypeInv, Registered
<1>4. OneGtid'
  BY <1>1 DEF Inv, OneGtid, Registered
<1>5. MaxKills = 0 => \A q \in Readers : rd[q].pc = "idle"
  BY <1>1, NoneAssumption DEF Inv, LockInv
<1>6. LockInv'
  BY <1>1, <1>2, <1>5 DEF LockInv, Running
<1> QED
  BY <1>1, <1>3, <1>4, <1>6, AdvanceSame DEF StepOk, Inv

\* The reader starts at g, behind which no row is.
LEMMA StartsOk ==
    ASSUME Inv, NEW r \in Readers, rd[r].pc = "begin", NEW g \in Int, g >= NoGtid,
           Set(r, StartAt(rd[r], g)), UNCHANGED <<binlog, lockBy, kills>>,
           \A t \in Registered : rows[t].gtid <= g,
           \/ rows' = rows
           \/ rows' = [t \in Tables |-> IF rows[t] = None THEN None ELSE [rows[t] EXCEPT !.gtid = g]]
    PROVE  StepOk
<1> DEFINE m == StartAt(rd[r], g)
<1>1. rd' = [q \in Readers |-> IF q = r THEN m ELSE rd[q]]
  BY DEF Inv, TypeInv, Set
<1>2. IsReader(m) /\ m.pos[1] = g
  BY ReaderType DEF StartAt, IsReader
<1> HIDE DEF m
<1>3. ASSUME rows' # rows, NEW t \in Tables, rows'[t] # None
      PROVE  /\ t \in Registered /\ rows'[t].gtid = g /\ IsRow(rows'[t])
             /\ rows'[t].id = rows[t].id
  <2>1. rows[t] # None /\ IsRow(rows[t]) /\ t \in Registered
    BY <1>3 DEF Inv, TypeInv, Registered
  <2>2. rows'[t] = [rows[t] EXCEPT !.gtid = g]
    BY <1>3, <2>1
  <2>3. rows'[t] = [id |-> rows[t].id, gtid |-> g, seq |-> rows[t].seq]
    BY <2>1, <2>2 DEF IsRow
  <2> QED
    BY <2>1, <2>3 DEF IsRow
<1>4. TypeInv'
  <2>1. rows' = [t \in Tables |-> rows'[t]]
    BY DEF Inv, TypeInv
  <2>2. \A t \in Registered' : IsRow(rows'[t]) /\ rows'[t].gtid >= NoGtid
    BY <1>3 DEF Inv, TypeInv, Registered
  <2> QED
    BY <1>1, <1>2, <2>1, <2>2 DEF Inv, TypeInv
<1>5. OneGtid'
  BY <1>3 DEF Inv, OneGtid, Registered
<1>6. \A t \in Registered' : rows'[t].gtid <= g
  BY <1>3 DEF Registered
<1>7. LockInv'
  <2>1. MaxKills = 0 => lockBy = r /\ \A q \in Readers : q # r => rd[q].pc = "idle"
    BY DEF Inv, LockInv
  <2> QED
    BY <1>1, <1>2, <1>6, <2>1 DEF LockInv, Running
<1>8. Advance
  BY <1>3, AdvanceSame DEF Advance, Registered
<1> QED
  BY <1>4, <1>5, <1>7, <1>8 DEF StepOk, Inv

LEMMA BeginOk == ASSUME Inv, NEW r \in Readers, Begin(r) PROVE StepOk
<1>1. rd[r].pc = "begin" /\ UNCHANGED <<binlog, kills>> /\ Len(binlog) \in Nat
  BY DEF Begin, Inv, TypeInv
<1>2. ASSUME NEW t \in Registered, rows[t].gtid # NoGtid, UNCHANGED <<rows, lockBy>>,
             Set(r, StartAt(rd[r], rows[t].gtid))
      PROVE  StepOk
  <2>1. \A u \in Registered : rows[u].gtid \in Int /\ rows[u].gtid >= NoGtid
    BY DEF Inv, TypeInv, IsRow
  <2>2. \A u \in Registered : rows[u].gtid <= rows[t].gtid
    BY <1>2, <2>1 DEF Inv, OneGtid
  <2> QED
    BY <1>1, <1>2, <2>1, <2>2, StartsOk
<1>3. ASSUME \A t \in Registered : rows[t].gtid = NoGtid, UNCHANGED lockBy,
             Set(r, StartAt(rd[r], Len(binlog))),
             \/ rows' = rows
             \/ rows' = [t \in Tables |-> IF rows[t] = None THEN None
                                          ELSE [rows[t] EXCEPT !.gtid = Len(binlog)]]
      PROVE  StepOk
  <2>1. Len(binlog) \in Int /\ Len(binlog) >= NoGtid /\ NoGtid <= Len(binlog)
    BY <1>1 DEF NoGtid
  <2> QED
    BY <1>1, <1>3, <2>1, StartsOk
<1>4. ASSUME Leave(r), UNCHANGED rows
      PROVE  StepOk
  BY <1>1, <1>4, Leaves
<1> QED
  BY <1>2, <1>3, <1>4 DEF Begin

LEMMA FailsOk ==
    ASSUME Inv, NEW r \in Readers, Running(r), UpdateFailed(r),
           rows' \in {rows, Saved(rd[r])}, UNCHANGED <<binlog, kills>>
    PROVE  StepOk
<1>1. rd[r].pc # "idle"
  BY DEF Running
<1>2. Stays(rd[r], [rd[r] EXCEPT !.pc = "finish"])
  BY Updates, ReaderType
<1> QED
  BY <1>1, <1>2, Leaves, StaysOn DEF UpdateFailed

LEMMA ReloadOk == ASSUME Inv, NEW r \in Readers, Reload(r) PROVE StepOk
<1> DEFINE new == [n \in Names |-> Reloaded(rd[r].tables[n], n, rd[r].pos)]
<1>1. Running(r) /\ UNCHANGED <<binlog, rows, kills>>
  BY DEF Reload, Running
<1>2. ASSUME NEW s, lockBy' = r, Set(r, [rd[r] EXCEPT !.pc = "save", !.tables = new, !.seqNo = s])
      PROVE  StepOk
  <2> HIDE DEF new
  <2>1. Stays(rd[r], [rd[r] EXCEPT !.pc = "save", !.tables = new, !.seqNo = s])
    BY Counts, ReaderType
  <2> QED
    BY <1>1, <1>2, <2>1, StaysOn
<1>3. ASSUME UpdateFailed(r) PROVE StepOk
  BY <1>1, <1>3, FailsOk
<1> QED
  BY <1>2, <1>3 DEF Reload

LEMMA SaveOk == ASSUME Inv, NEW r \in Readers, Save(r) PROVE StepOk
<1>1. Running(r) /\ UNCHANGED <<binlog, kills>>
  BY DEF Save, Running
<1>2. CASE rows' = Saved(rd[r]) /\ Set(r, Returned(rd[r])) /\ UNCHANGED lockBy
  BY <1>1, <1>2, Returns, ReaderType, StaysOn
<1>3. CASE rows' \in {rows, Saved(rd[r])} /\ UpdateFailed(r)
  BY <1>1, <1>3, FailsOk
<1> QED
  BY <1>2, <1>3 DEF Save

LEMMA TakeEventOk == ASSUME Inv, NEW r \in Readers, TakeEvent(r) PROVE StepOk
<1> DEFINE m == rd[r]
           n == [m EXCEPT !.pos = <<@[1], @[2] + 1>>]
           o == [m EXCEPT !.pos = <<@[1] + 1, 0>>]
<1>1. Running(r) /\ UNCHANGED <<binlog, rows, lockBy, kills>> /\ IsReader(m)
  BY ReaderType DEF TakeEvent, Running
<1>2. IsReader(n) /\ n.pos[1] = m.pos[1]
  <2> DEFINE p == <<m.pos[1], m.pos[2] + 1>>
  <2>1. n = [m EXCEPT !.pos = p] /\ p[1] = m.pos[1]
    BY <1>1 DEF IsReader
  <2> HIDE DEF p, n
  <2> QED
    BY <1>1, <2>1 DEF IsReader
<1>3. IsReader(o) /\ o.pos[1] = m.pos[1] + 1
  <2> DEFINE p == <<m.pos[1] + 1, 0>>
  <2>1. o = [m EXCEPT !.pos = p] /\ p[1] = m.pos[1] + 1 /\ p[1] \in Int /\ p[1] >= NoGtid
    BY <1>1 DEF IsReader, NoGtid
  <2> HIDE DEF p, o
  <2> QED
    BY <1>1, <2>1 DEF IsReader
<1>4. \/ Set(r, Handled(o)) \/ Set(r, NextEntry(n, 1)) \/ Set(r, UpdateState(n, "alter"))
  BY DEF TakeEvent
<1>5. m.pos[1] \in Int
  BY <1>1 DEF IsReader
<1> HIDE DEF n, o, m
<1>6. Stays(o, Handled(o)) /\ Stays(n, NextEntry(n, 1)) /\ Stays(n, UpdateState(n, "alter"))
  BY <1>2, <1>3, Handles, Nexts, Updates
<1>7. \E x : Set(r, x) /\ IsReader(x) /\ x.pos[1] >= m.pos[1]
  BY <1>2, <1>3, <1>4, <1>5, <1>6 DEF Stays
<1> QED
  BY <1>1, <1>7, GoesOn DEF m

LEMMA PushRowOk ==
    ASSUME Inv, NEW r \in Readers, Running(r), NEW m, Stays(rd[r], m), PushRow(r, m),
           UNCHANGED <<binlog, rows, lockBy, kills>>
    PROVE  StepOk
<1> DEFINE pend == Append(m.pend, Message(m))
           n == [m EXCEPT !.pend = pend]
<1>1. IsReader(m)
  BY DEF Stays
<1>2. Set(r, AfterRow(n)) \/ Set(r, BatchFailed(m)) \/ Set(r, AfterRow(m))
  BY DEF PushRow
<1>3. Stays(m, n)
  <2> HIDE DEF pend
  <2> QED
    BY <1>1, Counts
<1> HIDE DEF n
<1>4. Stays(n, AfterRow(n)) /\ Stays(m, BatchFailed(m)) /\ Stays(m, AfterRow(m))
  BY <1>1, <1>3, AfterRows, Updates DEF Stays
<1>5. \E x : Set(r, x) /\ Stays(rd[r], x)
  BY <1>2, <1>3, <1>4, StaysTwice
<1> QED
  BY <1>5, StaysOn

LEMMA ProduceRowOk == ASSUME Inv, NEW r \in Readers, ProduceRow(r) PROVE StepOk
<1> DEFINE m == rd[r]
           s == m.seqNo + 1
           n == [m EXCEPT !.seqNo = s]
<1>1. Running(r) /\ UNCHANGED <<binlog, rows, lockBy, kills>> /\ IsReader(m)
  BY ReaderType DEF ProduceRow, Running
<1>2. PushRow(r, n) \/ PushRow(r, m) \/ Set(r, UpdateState(n, "row"))
  BY DEF ProduceRow
<1>3. Stays(m, n) /\ Stays(m, m)
  <2> HIDE DEF s, m
  <2> QED
    BY <1>1, Counts DEF Stays
<1> HIDE DEF n
<1>4. ASSUME Set(r, UpdateState(n, "row")) PROVE StepOk
  <2>1. Stays(n, UpdateState(n, "row"))
    BY <1>3, Updates DEF Stays
  <2> QED
    BY <1>1, <1>3, <1>4, <2>1, StaysOn, StaysTwice
<1> QED
  BY <1>1, <1>2, <1>3, <1>4, PushRowOk

LEMMA AlterTableOk == ASSUME Inv, NEW r \in Readers, AlterTable(r) PROVE StepOk
<1> DEFINE m == rd[r]
           len == Len(m.tables[EventAt(m.pos).name])
           s == m.seqNo + 1
           n == [m EXCEPT !.seqNo = s, !.i = len]
<1>1. Running(r) /\ UNCHANGED <<binlog, rows, kills>> /\ IsReader(m) /\ rd[r].pc # "idle"
  BY ReaderType DEF AlterTable, Running
<1>2. \/ UNCHANGED lockBy /\ (Set(r, Handled(m)) \/ Set(r, BatchFailed(m)))
      \/ UNCHANGED lockBy /\ (Set(r, UpdateState(n, "schema")) \/ Set(r, Handled(n)))
      \/ Leave(r)
  BY DEF AlterTable
<1>3. Stays(m, n)
  <2> HIDE DEF s, m, len
  <2> QED
    BY <1>1, Counts
<1> HIDE DEF n
<1>4. Stays(n, UpdateState(n, "schema")) /\ Stays(n, Handled(n))
  BY <1>3, Updates, Handles DEF Stays
<1>5. Stays(m, Handled(m)) /\ Stays(m, BatchFailed(m))
  BY <1>1, Handles, Updates
<1>6. CASE Leave(r)
  BY <1>1, <1>6, Leaves
<1>7. CASE ~Leave(r)
  <2>1. UNCHANGED lockBy /\ \E x : Set(r, x) /\ Stays(m, x)
    BY <1>2, <1>3, <1>4, <1>5, <1>7, StaysTwice
  <2> QED
    BY <1>1, <2>1, StaysOn
<1> QED
  BY <1>6, <1>7

LEMMA CommitOk == ASSUME Inv, NEW r \in Readers, Commit(r) PROVE StepOk
<1> DEFINE m == rd[r]
           n == [m EXCEPT !.pend = <<>>]
           o == [n EXCEPT !.pc = "select", !.cnt = 0, !.began = m.pos]
<1>1. Running(r) /\ UNCHANGED <<binlog, rows, lockBy, kills>> /\ IsReader(m)
  BY ReaderType DEF Commit, Running
<1>2. Set(r, o) \/ Set(r, BatchFailed(n))
  BY DEF Commit
<1>3. Stays(m, n)
  BY <1>1, Counts
<1>4. Stays(n, o) /\ Stays(n, BatchFailed(n))
  <2> DEFINE p == m.pos
  <2> HIDE DEF n, p
  <2>1. IsReader(n)
    BY <1>3 DEF Stays
  <2>2. Stays(n, [n EXCEPT !.pc = "select", !.cnt = 0, !.began = p])
    BY <2>1, Counts
  <2>3. Stays(n, BatchFailed(n))
    BY <2>1, Updates
  <2> QED
    BY <2>2, <2>3 DEF p
<1> HIDE DEF n, o
<1>5. Stays(m, o) /\ Stays(m, BatchFailed(n))
  BY <1>3, <1>4, StaysTwice
<1> QED
  BY <1>1, <1>2, <1>5, StaysOn

\* The steps that change no more than the program counter or the flag, and those
\* that end a reader.
LEMMA SmallStepsOk ==
    ASSUME Inv, NEW r \in Readers,
           Tick(r) \/ FetchFailed(r) \/ EndBatch(r) \/ Stop(r) \/ Shutdown(r) \/ Finish(r) \/ Crash(r)
    PROVE  StepOk
<1> DEFINE m == rd[r]
<1>1. IsReader(m)
  BY ReaderType
<1>2. CASE Tick(r)
  <2>1. Running(r) /\ Set(r, UpdateState(m, "tick")) /\ UNCHANGED <<binlog, rows, lockBy, kills>>
    BY <1>2 DEF Tick, Running
  <2> QED
    BY <1>1, <2>1, Updates, StaysOn
<1>3. CASE FetchFailed(r)
  <2>1. Running(r) /\ Set(r, BatchFailed(m)) /\ UNCHANGED <<binlog, rows, lockBy, kills>>
    BY <1>3 DEF FetchFailed, Running
  <2> QED
    BY <1>1, <2>1, Updates, StaysOn
<1>4. CASE EndBatch(r)
  <2>1. Running(r) /\ Set(r, [m EXCEPT !.pc = "commit"]) /\ UNCHANGED <<binlog, rows, lockBy, kills>>
    BY <1>4 DEF EndBatch, Running
  <2> QED
    BY <1>1, <2>1, Updates, StaysOn
<1>5. CASE Stop(r)
  <2>1. Running(r) /\ Set(r, [m EXCEPT !.pc = "finish"]) /\ UNCHANGED <<binlog, rows, lockBy, kills>>
    BY <1>5 DEF Stop, Running
  <2> QED
    BY <1>1, <2>1, Updates, StaysOn
<1>6. CASE Shutdown(r)
  <2> DEFINE n == [m EXCEPT !.down = TRUE]
  <2>1. rd' = [q \in Readers |-> IF q = r THEN n ELSE rd[q]] /\ UNCHANGED <<binlog, rows, lockBy, kills>>
    BY <1>6 DEF Shutdown, Set, Inv, TypeInv
  <2>2. Stays(m, n) /\ n.pc = m.pc
    BY <1>1, Counts DEF IsReader
  <2> HIDE DEF n
  <2>3. Inv'
    BY <2>1, <2>2 DEF Inv, TypeInv, OneGtid, LockInv, Running, Registered, Stays
  <2> QED
    BY <2>1, <2>3, AdvanceSame DEF StepOk
<1>7. CASE Finish(r)
  <2>1. /\ Running(r) /\ rd[r].pc # "idle" /\ Leave(r) /\ (rows' = rows \/ rows' = Saved(m))
        /\ UNCHANGED <<binlog, kills>>
    BY <1>7 DEF Finish, Running
  <2> QED
    BY <2>1, Leaves
<1>8. CASE Crash(r)
  <2>1. rd[r].pc # "idle" /\ Leave(r) /\ UNCHANGED <<binlog, rows, kills>>
    BY <1>8 DEF Crash
  <2> QED
    BY <2>1, Leaves
<1> QED
  BY <1>2, <1>3, <1>4, <1>5, <1>6, <1>7, <1>8

LEMMA LoseLockOk == ASSUME Inv, LoseLock PROVE StepOk
<1>1. kills' = kills + 1 /\ kills < MaxKills /\ UNCHANGED <<binlog, rows, rd>>
  BY DEF LoseLock
<1>2. MaxKills # 0 /\ kills' \in 0 .. MaxKills
  BY <1>1, BoundsAssumption DEF Inv, TypeInv
<1>3. Inv'
  BY <1>1, <1>2 DEF Inv, TypeInv, OneGtid, LockInv, Registered
<1> QED
  BY <1>1, <1>3, AdvanceSame DEF StepOk

LEMMA InitInv == Init => Inv
<1> SUFFICES ASSUME Init PROVE Inv
  OBVIOUS
<1>1. IsReader(IdleReader) /\ IdleReader.pc = "idle"
  BY DEF IsReader, IdleReader, NoGtid
<1>2. Registered = {}
  BY DEF Init, Registered
<1>3. rd = [r \in Readers |-> IdleReader]
  BY DEF Init
<1>4. binlog \in Seq(Transactions) /\ kills \in 0 .. MaxKills
  BY BoundsAssumption DEF Init
<1>5. rows = [t \in Tables |-> rows[t]]
  BY DEF Init
<1> HIDE DEF Init
<1>6. TypeInv
  BY <1>1, <1>2, <1>3, <1>4, <1>5 DEF TypeInv
<1> QED
  BY <1>1, <1>2, <1>3, <1>6 DEF Inv, OneGtid, LockInv, Running

LEMMA NextOk == Inv /\ [Next]_vars => StepOk
<1> SUFFICES ASSUME Inv, [Next]_vars PROVE StepOk
  OBVIOUS
<1>1. CASE UNCHANGED vars
  BY <1>1, StutterOk DEF vars
<1>2. ASSUME NEW r \in Readers, ReaderStep(r)
      PROVE  StepOk
  BY <1>2, LockClusterOk, BeginOk, ReloadOk, SaveOk, TakeEventOk, ProduceRowOk, AlterTableOk,
     CommitOk, SmallStepsOk DEF ReaderStep
<1> QED
  BY <1>1, <1>2, CommitTxOk, RegisterOk, DeregisterOk, SmallStepsOk, LoseLockOk DEF Next

LEMMA InvAlways == Spec => []Inv
<1>1. Inv /\ [Next]_vars => Inv'
  BY NextOk DEF StepOk
<1> QED
  BY <1>1, InitInv, PTL DEF Spec

-----------------------------------------------------------------------------

\* The rows of a cluster that have a GTID set have the same one, whichever reader
\* wrote it, also one that has lost its lock: GetGTID may take any of them
\* (state.go, SaveBinlogState and SetGTID).
THEOREM GtidsAgree == Spec => []OneGtid
<1>1. Inv => OneGtid
  BY DEF Inv
<1> QED
  BY <1>1, InvAlways, PTL

\* While no session of the lock is lost, the saved GTID set of a table never goes
\* back, whatever reader takes over from another (mysql.go, updateState and the
\* final save of readEvents).
THEOREM GtidsAdvance ==
    ASSUME MaxKills = 0
    PROVE  Spec => GtidNeverRegresses
<1>1. Inv /\ [Next]_vars => [Advance]_vars
  BY NextOk DEF StepOk
<1>2. Spec => [][Advance]_vars
  BY <1>1, InvAlways, PTL DEF Spec
<1> QED
  BY <1>2 DEF GtidNeverRegresses, Advance

-----------------------------------------------------------------------------
(* What the state and the readers' memory may be, and what the steps do. *)

Pcs == {"idle", "begin", "reload", "save", "select", "batch", "rows", "push", "mutate", "schema",
        "commit", "finish"}
Conts == {"none", "start", "tick", "row", "alter", "schema"}

Position == Nat \X Nat
Entry == [id : 1 .. MaxId, tab : Tables, since : Position]
Msg == [id : 1 .. MaxId, ev : Position, row : Nat, seq : Nat]
Row == [id : 1 .. MaxId, gtid : Nat \cup {NoGtid}, seq : Nat]

Memory ==
    [pc : Pcs, cont : Conts, pos : Position, began : Position, seqNo : Nat,
     tables : [Names -> Seq(Entry)], pend : Seq(Msg), cnt : Nat, i : Nat,
     cur : Entry \cup {NoEntry}, row : Nat, down : BOOLEAN]

\* Positions of the binlog b, and the event at one.
LenOf(b, g) == IF g = 0 THEN 0 ELSE Len(b[g])
Positions(b) == UNION {{<<g, k>> : k \in 1 .. Len(b[g])} : g \in 1 .. Len(b)}
At(b, p) == b[p[1]][p[2]]

\* In the middle of the rows of an event, or of an event.
InRow(m) == m.pc \in {"rows", "push"} \/ (m.pc \in {"reload", "save"} /\ m.cont = "row")
InEvent(m) ==
    \/ m.pc \in {"rows", "push", "mutate", "schema"}
    \/ m.pc \in {"reload", "save"} /\ m.cont \in {"row", "alter", "schema"}

NoTables == [n \in Names |-> <<>>]

\* What a reader's memory is, over the binlog b.
MemOk(b, m) ==
    /\ m \in Memory
    /\ m.pos[1] <= Len(b) /\ m.pos[2] <= LenOf(b, m.pos[1])
    /\ m.pc \in {"reload", "save"} => m.cont # "none"
    /\ m.cont # "none" => m.pc \in {"reload", "save", "finish"}
    /\ m.cont = "start" => m.pc # "finish"
    /\ m.pc \in {"idle", "begin"} \/ m.cont = "start" => m.began = <<0, 0>> /\ m.pend = <<>>
    /\ m.pc \in {"idle", "begin"} \/ (m.pc = "reload" /\ m.cont = "start") =>
          m.seqNo = 0 /\ m.tables = NoTables
    /\ InEvent(m) => m.pos \in Positions(b)
    /\ InRow(m) => /\ m.cur \in Entry /\ m.i >= 1
                   /\ At(b, m.pos).kind # "alter"
                   /\ m.row \in 1 .. RowCount(At(b, m.pos))

Typed ==
    /\ binlog \in Seq(Transactions)
    /\ nextId \in Nat \ {0}
    /\ rows = [t \in Tables |-> rows[t]]
    /\ \A t \in Registered : /\ rows[t] \in Row
                             /\ rows[t].gtid <= Len(binlog)
                             /\ rows[t].id < nextId
    /\ rd = [r \in Readers |-> rd[r]]
    /\ \A r \in Readers : MemOk(binlog, rd[r])
    /\ issued \in [1 .. MaxId -> Nat]


Item(id, p, j) == [id |-> id, ev |-> p, row |-> j]

\* What is in the pipe o or pushed.
Got(o, m) == o \cup {Item(x.id, x.ev, x.row) : x \in Range(m.pend)}

\* The row events of name n after from, up to to.
Evs(b, n, from, to) ==
    {p \in Positions(b) : /\ Before(from, p) /\ ~Before(to, p)
                          /\ At(b, p).name = n /\ At(b, p).kind # "alter"}

Handed(b, S, e, n, to) ==
    \A p \in Evs(b, n, e.since, to) : \A j \in 1 .. RowCount(At(b, p)) : Item(e.id, p, j) \in S

\* The same, up to where the reader is in the event at hand.
HandedSoFar(b, S, m, e, n) ==
    \A p \in Evs(b, n, e.since, m.pos) : \A j \in 1 .. RowCount(At(b, p)) :
        Item(e.id, p, j) \in S \/ (InRow(m) /\ e = m.cur /\ p = m.pos /\ j >= m.row)

DropOk(b, o, m) ==
    /\ ~Before(m.pos, m.began)
    /\ \A n \in Names : /\ Len(m.tables[n]) <= 1
                        /\ \A e \in Range(m.tables[n]) : NameOf[e.tab] = n
    /\ m.cont = "start" => \A n \in Names : \A e \in Range(m.tables[n]) : e.since = m.pos
    /\ m.pc = "select" \/ m.cont = "tick" => m.began = m.pos
    /\ ~m.down => \A n \in Names : \A e \in Range(m.tables[n]) :
          /\ Handed(b, o, e, n, m.began)
          /\ m.pc # "finish" => HandedSoFar(b, Got(o, m), m, e, n)

Drop == \A r \in Readers : DropOk(binlog, out, rd[r])

Limit(m) == IF m.pc = "push" \/ (m.pc \in {"reload", "save"} /\ m.cont = "row") THEN m.seqNo - 1 ELSE m.seqNo
LastTaken(m) == IF m.cont \in {"row", "schema"} THEN m.seqNo - 1 ELSE m.seqNo

SeqOk(m) ==
    /\ \A n \in Names : \A e \in Range(m.tables[n]) : e.id < nextId /\ issued[e.id] <= Limit(m)
    /\ InRow(m) => m.cur.id < nextId /\ issued[m.cur.id] <= Limit(m)
    /\ m.pc = "save" \/ m.cont # "start" =>
          m.seqNo >= 1 /\ \A t \in Registered : issued[rows[t].id] <= Limit(m)
    /\ m.cont # "start" => \A t \in Registered : rows[t].seq # 0 =>
          rows[t].seq <= m.seqNo /\ \A k \in rows[t].seq + 1 .. LastTaken(m) : k % SeqInterval # 0
    /\ m.pc \notin {"save", "finish"} => \A t \in Registered : \A n \in Names :
          \A e \in Range(m.tables[n]) : rows[t].id = e.id => rows[t].seq # 0
    /\ InRow(m) => \A t \in Registered : rows[t].id = m.cur.id => rows[t].seq # 0

\* What is saved, and every running reader.
SeqSaved ==
    /\ \A id \in 1 .. MaxId : id >= nextId => issued[id] = 0
    /\ \A t, u \in Registered : 0 \in {rows[t].seq, rows[u].seq} \/ rows[t].seq = rows[u].seq
    /\ \A t \in Registered : IF rows[t].seq = 0 THEN issued[rows[t].id] = 0
                             ELSE issued[rows[t].id] <= rows[t].seq + SeqInterval

SeqInv == SeqSaved /\ \A r \in Readers : Running(r) => SeqOk(rd[r])

LEMMA LeastNat ==
    ASSUME NEW T \in SUBSET Nat, T # {}
    PROVE  \E m \in T : \A k \in T : m <= k
<1> DEFINE R == OpToRel(<, Nat)
<1>1. IsWellFoundedOn(R, Nat)
  BY NatLessThanWellFounded
<1>2. \A x, y \in Nat : <<y, x>> \in R <=> y < x
  BY DEF OpToRel
<1> HIDE DEF R
<1>3. \E x \in T : \A y \in T : ~ (<<y, x>> \in R)
  BY <1>1, WFMin
<1>4. PICK x \in T : \A y \in T : ~ (<<y, x>> \in R)
  BY <1>3
<1>5. \A y \in T : x \in Nat /\ y \in Nat /\ ~(y < x)
  BY <1>2, <1>4
<1> QED
  BY <1>5

LEMMA Antitone ==
    ASSUME NEW N \in Nat, NEW A \in SUBSET (1 .. N), NEW B \in SUBSET (1 .. N),
           Cardinality(A) = Cardinality(B)
    PROVE  \E f \in [A -> B] : \A h, k \in A : h < k => f[h] > f[k]
<1> DEFINE Over(x) == {l \in B : l > x}
           Under(h) == {g \in A : g < h}
<1>0. /\ \A l \in B : l \in Nat /\ l >= 1 /\ l <= N
      /\ \A l \in A : l \in Nat
  OBVIOUS
<1>1. /\ IsFiniteSet(A) /\ IsFiniteSet(B) /\ Cardinality(A) \in Nat
      /\ \A x : IsFiniteSet(Over(x)) /\ IsFiniteSet(Under(x))
      /\ \A x : Cardinality(Over(x)) \in Nat /\ Cardinality(Under(x)) \in Nat
  <2>1. IsFiniteSet(1 .. N)
    BY FS_Interval
  <2>2. \A S \in SUBSET (1 .. N) : IsFiniteSet(S) /\ Cardinality(S) \in Nat
    BY <2>1, FS_Subset, FS_CardinalityType
  <2>3. \A x : Over(x) \in SUBSET (1 .. N) /\ Under(x) \in SUBSET (1 .. N)
    OBVIOUS
  <2> QED
    BY <2>2, <2>3
<1>2. ASSUME NEW r \in Nat, r < Cardinality(B)
      PROVE  \E j \in B : Cardinality(Over(j)) = r
  <2> DEFINE T == {x \in Nat : Cardinality(Over(x)) <= r}
  <2>1. N \in T
    <3>1. Over(N) = {}
      <4>1. \A l \in B : ~(l > N)
        BY <1>0
      <4> QED
        BY <4>1
    <3> QED
      BY <3>1, FS_EmptySet
  <2>2. PICK x \in T : \A y \in T : x <= y
    BY <2>1, LeastNat
  <2>3. x # 0
    <3>1. Over(0) = B
      <4>1. \A l \in B : l > 0
        BY <1>0
      <4> QED
        BY <4>1
    <3> QED
      BY <1>1, <1>2, <2>2, <3>1
  <2>4. x - 1 \in Nat /\ Cardinality(Over(x - 1)) > r
    <3>1. x - 1 \in Nat /\ ~(x <= x - 1)
      BY <2>2, <2>3
    <3>2. Cardinality(Over(x - 1)) \in Nat
      BY <1>1
    <3> QED
      BY <2>2, <3>1, <3>2
  <2>5. Over(x - 1) = IF x \in B THEN Over(x) \cup {x} ELSE Over(x)
    <3>1. x \in Nat /\ \A l \in B : l > x - 1 <=> l > x \/ l = x
      BY <1>0, <2>2
    <3> QED
      BY <3>1
  <2>6. x \notin Over(x)
    BY <2>2
  <2>7. x \in B /\ Cardinality(Over(x - 1)) = Cardinality(Over(x)) + 1
    <3>1. x \in B
      BY <1>1, <2>2, <2>4, <2>5
    <3> HIDE DEF Over
    <3> QED
      BY <1>1, <2>5, <2>6, <3>1, FS_AddElement
  <2>8. Cardinality(Over(x)) = r
    <3> HIDE DEF Over
    <3>1. Cardinality(Over(x)) \in Nat /\ Cardinality(Over(x)) <= r
      BY <1>1, <2>2
    <3> QED
      BY <2>4, <2>7, <3>1
  <2> QED
    BY <2>7, <2>8
<1>3. \A h \in A : Cardinality(Under(h)) < Cardinality(A)
  <2> SUFFICES ASSUME NEW h \in A
               PROVE  Cardinality(Under(h)) < Cardinality(A)
    OBVIOUS
  <2>1. Under(h) \in SUBSET A /\ Under(h) # A
    OBVIOUS
  <2>2. Cardinality(Under(h)) <= Cardinality(A) /\ Cardinality(Under(h)) # Cardinality(A)
    BY <1>1, <2>1, FS_Subset
  <2>3. Cardinality(Under(h)) \in Nat /\ Cardinality(A) \in Nat
    BY <1>1
  <2> QED
    BY <2>2, <2>3
<1>4. ASSUME NEW h \in A, NEW k \in A, h < k
      PROVE  Cardinality(Under(h)) < Cardinality(Under(k))
  <2>1. Under(h) \in SUBSET Under(k) /\ h \in Under(k) /\ h \notin Under(h)
    <3>1. h \in Nat /\ k \in Nat /\ ~(h < h) /\ \A g \in A : g < h => g < k
      BY <1>0, <1>4
    <3> QED
      BY <1>4, <3>1
  <2>2. /\ Cardinality(Under(h)) <= Cardinality(Under(k))
        /\ Cardinality(Under(h)) # Cardinality(Under(k))
    BY <1>1, <2>1, FS_Subset
  <2>3. Cardinality(Under(h)) \in Nat /\ Cardinality(Under(k)) \in Nat
    BY <1>1
  <2> QED
    BY <2>2, <2>3
<1>5. ASSUME NEW i \in B, NEW j \in B, i <= j
      PROVE  Cardinality(Over(j)) <= Cardinality(Over(i))
  <2>1. Over(j) \in SUBSET Over(i)
    <3>1. \A l \in B : l > j => l > i
      BY <1>0, <1>5
    <3> QED
      BY <3>1
  <2> QED
    BY <1>1, <2>1, FS_Subset
<1> DEFINE f == [h \in A |-> CHOOSE j \in B : Cardinality(Over(j)) = Cardinality(Under(h))]
<1>6. ASSUME NEW h \in A
      PROVE  f[h] \in B /\ Cardinality(Over(f[h])) = Cardinality(Under(h))
  <2> HIDE DEF Over, Under
  <2>1. \E j \in B : Cardinality(Over(j)) = Cardinality(Under(h))
    BY <1>1, <1>2, <1>3
  <2> QED
    BY <2>1
<1>7. ASSUME NEW h \in A, NEW k \in A, h < k
      PROVE  f[h] > f[k]
  <2> HIDE DEF Over, Under, f
  <2>1. f[h] \in Nat /\ f[k] \in Nat
    BY <1>0, <1>6
  <2>2. ~(f[h] <= f[k])
    <3>1. /\ Cardinality(Under(h)) < Cardinality(Under(k))
          /\ Cardinality(Under(h)) \in Nat /\ Cardinality(Under(k)) \in Nat
      BY <1>1, <1>4, <1>7
    <3>2. f[h] <= f[k] => Cardinality(Under(k)) <= Cardinality(Under(h))
      BY <1>5, <1>6
    <3> QED
      BY <3>1, <3>2
  <2> QED
    BY <2>1, <2>2
<1>8. f \in [A -> B]
  BY <1>6
<1> HIDE DEF f
<1> QED
  BY <1>7, <1>8

-----------------------------------------------------------------------------
(* reloadState. *)

LEMMA SeqOfSet ==
    ASSUME NEW S, IsFiniteSet(S)
    PROVE  SetToSeq(S) \in [1 .. Cardinality(S) -> S] /\ Cardinality(S) \in Nat
<1>1. Cardinality(S) \in Nat /\ ExistsBijection(1 .. Cardinality(S), S)
  BY FS_CardinalityType
<1>2. \E f \in [1 .. Cardinality(S) -> S] : IsInjective(f)
  BY <1>1 DEF ExistsBijection, Bijection, Injection
<1> QED
  BY <1>1, <1>2 DEF SetToSeq

\* removeDeletedTables keeps entries, and makes none.
LEMMA SweptIs ==
    ASSUME NEW S, NEW s \in Seq(S)
    PROVE  /\ Swept(s) \in Seq(S) /\ Len(Swept(s)) <= Len(s)
           /\ Range(Swept(s)) \subseteq {e \in Range(s) : Current(e)}
<1> DEFINE kept == {k \in DOMAIN s : Current(s[k])}
           N == Cardinality(kept)
           front == 1 .. N
           from == CHOOSE f \in [front \ kept -> kept \ front] :
                       \A h, k \in front \ kept : h < k => f[h] > f[k]
<1>1. Swept(s) = [k \in front |-> s[IF k \in kept THEN k ELSE from[k]]]
  BY DEF Swept
<1>2. Len(s) \in Nat /\ DOMAIN s = 1 .. Len(s) /\ kept \in SUBSET (1 .. Len(s))
  OBVIOUS
<1> HIDE DEF kept
<1>3. IsFiniteSet(1 .. Len(s)) /\ Cardinality(1 .. Len(s)) = Len(s)
  <2>1. 1 \in Int /\ Len(s) \in Int /\ (IF 1 > Len(s) THEN 0 ELSE Len(s) - 1 + 1) = Len(s)
    BY <1>2
  <2> QED
    BY <2>1, FS_Interval
<1>4. IsFiniteSet(kept) /\ N \in Nat /\ N <= Len(s)
  <2> DEFINE D == 1 .. Len(s)
  <2>0. kept \in SUBSET D /\ IsFiniteSet(D) /\ Cardinality(D) = Len(s)
    BY <1>2, <1>3
  <2> HIDE DEF D
  <2>1. IsFiniteSet(kept) /\ Cardinality(kept) <= Len(s)
    <3>1. IsFiniteSet(kept) /\ Cardinality(kept) <= Cardinality(D)
      BY <2>0, FS_Subset
    <3> QED
      BY <2>0, <3>1
  <2> QED
    BY <2>1, FS_CardinalityType
<1> HIDE DEF N
<1>5. IsFiniteSet(front) /\ Cardinality(front) = N
  BY <1>4, FS_Interval
<1>6. Cardinality(front \ kept) = Cardinality(kept \ front)
  <2>1. front \cap kept = kept \cap front
    OBVIOUS
  <2>2. Cardinality(kept) = N
    BY DEF N
  <2>3. /\ Cardinality(front \ kept) = Cardinality(front) - Cardinality(front \cap kept)
        /\ Cardinality(kept \ front) = Cardinality(kept) - Cardinality(kept \cap front)
    <3> HIDE DEF front
    <3> QED
      BY <1>4, <1>5, FS_Difference
  <2> QED
    BY <1>5, <2>1, <2>2, <2>3
<1>7. front \ kept \in SUBSET (1 .. Len(s)) /\ kept \ front \in SUBSET (1 .. Len(s))
  BY <1>2, <1>4
<1>8. from \in [front \ kept -> kept \ front]
  <2> DEFINE A == front \ kept
             B == kept \ front
  <2>1. A \in SUBSET (1 .. Len(s)) /\ B \in SUBSET (1 .. Len(s)) /\ Cardinality(A) = Cardinality(B)
    BY <1>6, <1>7
  <2> HIDE DEF A, B
  <2>2. \E f \in [A -> B] : \A h, k \in A : h < k => f[h] > f[k]
    BY <1>2, <2>1, Antitone
  <2> QED
    BY <2>2 DEF A, B
<1> HIDE DEF from
<1>9. \A k \in front : s[IF k \in kept THEN k ELSE from[k]] \in {e \in Range(s) : Current(e)}
  <2>1. \A k \in kept : s[k] \in Range(s) /\ Current(s[k])
    BY DEF kept, Range
  <2> QED
    BY <1>8, <2>1
<1>10. Range(s) \subseteq S
  BY DEF Range
<1>11. Swept(s) \in [1 .. N -> S] /\ Len(Swept(s)) = N
  BY <1>1, <1>4, <1>9, <1>10
<1> QED
  BY <1>1, <1>4, <1>9, <1>11 DEF Range

Made(t, pos) == [id |-> rows[t].id, tab |-> t, since |-> pos]

\* The entries after a reload: some of those before, and new ones.
LEMMA ReloadedIs ==
    ASSUME Typed, NEW n \in Names, NEW s \in Seq(Entry), NEW pos \in Position
    PROVE  /\ Reloaded(s, n, pos) \in Seq(Entry)
           /\ \A e \in Range(Reloaded(s, n, pos)) :
                 \/ e \in Range(s)
                 \/ \E t \in Registered : NameOf[t] = n /\ e = Made(t, pos)
           /\ (\A t, u \in Tables : NameOf[t] = NameOf[u] => t = u)
              /\ Len(s) <= 1 /\ (\A e \in Range(s) : NameOf[e.tab] = n) =>
                 Len(Reloaded(s, n, pos)) <= 1
<1> DEFINE fresh == {t \in Registered : NameOf[t] = n /\ \A e \in Range(s) : e.tab # t}
           new == SetToSeq(fresh)
           made == [k \in DOMAIN new |-> Made(new[k], pos)]
<1>1. Reloaded(s, n, pos) = Swept(s \o made)
  BY DEF Reloaded, Made
<1>2. IsFiniteSet(fresh)
  <2>1. fresh \in SUBSET Tables
    BY DEF Registered
  <2> QED
    BY <2>1, NameOfAssumption, FS_Subset
<1>3. new \in [1 .. Cardinality(fresh) -> fresh] /\ Cardinality(fresh) \in Nat
  BY <1>2, SeqOfSet
<1>4. \A t \in fresh : Made(t, pos) \in Entry /\ t \in Registered /\ NameOf[t] = n
  BY DEF Typed, Row, Entry, Made, Registered
<1> HIDE DEF new
<1>5. made \in Seq(Entry) /\ Len(made) = Cardinality(fresh)
  <2> HIDE DEF fresh
  <2>1. /\ DOMAIN new = 1 .. Cardinality(fresh) /\ Cardinality(fresh) \in Nat
        /\ \A k \in 1 .. Cardinality(fresh) : Made(new[k], pos) \in Entry
    BY <1>3, <1>4
  <2>2. made \in [1 .. Cardinality(fresh) -> Entry]
    BY <2>1
  <2> QED
    BY ONLY <2>1, <2>2
<1>6. \A k \in 1 .. Len(made) : \E t \in Registered : NameOf[t] = n /\ made[k] = Made(t, pos)
  <2> HIDE DEF fresh
  <2> QED
    BY <1>3, <1>4, <1>5
<1> HIDE DEF made
<1>7. s \o made \in Seq(Entry) /\ Len(s \o made) = Len(s) + Len(made)
  BY <1>5
<1>8. \A e \in Range(s \o made) : e \in Range(s) \/ \E k \in 1 .. Len(made) : e = made[k]
  <2> SUFFICES ASSUME NEW k \in 1 .. Len(s \o made)
               PROVE  (s \o made)[k] \in Range(s) \/ \E l \in 1 .. Len(made) : (s \o made)[k] = made[l]
    BY <1>7 DEF Range
  <2>1. CASE k <= Len(s)
    <3>1. (s \o made)[k] = s[k] /\ k \in DOMAIN s
      BY <1>5, <2>1
    <3> QED
      BY <3>1 DEF Range
  <2>2. CASE ~(k <= Len(s))
    <3>1. (s \o made)[k] = made[k - Len(s)] /\ k - Len(s) \in 1 .. Len(made)
      BY <1>5, <1>7, <2>2
    <3> QED
      BY <3>1
  <2> QED
    BY <2>1, <2>2
<1>9. /\ Swept(s \o made) \in Seq(Entry) /\ Len(Swept(s \o made)) <= Len(s \o made)
      /\ Range(Swept(s \o made)) \subseteq Range(s \o made)
  BY <1>7, SweptIs
<1>10. ASSUME \A t, u \in Tables : NameOf[t] = NameOf[u] => t = u, Len(s) <= 1,
              \A e \in Range(s) : NameOf[e.tab] = n
       PROVE  Len(s) + Cardinality(fresh) <= 1
  <2>1. CASE s = <<>>
    <3>1. \A t, u \in fresh : t = u
      BY <1>10 DEF Registered
    <3>2. fresh = {} \/ \E t : fresh = {t}
      <4> HIDE DEF fresh
      <4>1. CASE fresh # {}
        <5>1. PICK t \in fresh : TRUE
          BY <4>1
        <5>2. fresh = {t}
          BY <3>1, <5>1
        <5> QED
          BY <5>2
      <4> QED
        BY <4>1
    <3>3. Cardinality(fresh) \in {0, 1}
      BY <3>2, FS_EmptySet, FS_Singleton
    <3> QED
      BY <2>1, <3>3
  <2>2. CASE s # <<>>
    <3>0. Len(s) \in Nat /\ Len(s) # 0 /\ Len(s) <= 1
      BY <1>10, <2>2
    <3>1. Len(s) = 1 /\ s[1] \in Range(s) /\ s[1] \in Entry
      <4>0. \A k \in Nat : k # 0 /\ k <= 1 => k = 1
        OBVIOUS
      <4>1. Len(s) = 1
        BY <3>0, <4>0
      <4>2. 1 \in DOMAIN s
        BY <4>1
      <4> QED
        BY <4>1, <4>2 DEF Range
    <3>2. s[1].tab \in Tables /\ NameOf[s[1].tab] = n
      BY <1>10, <3>1 DEF Entry
    <3>3. fresh = {}
      BY <1>10, <3>1, <3>2 DEF Registered
    <3>4. Cardinality(fresh) = 0
      BY <3>3, FS_EmptySet
    <3> QED
      BY <3>1, <3>4
  <2> QED
    BY <2>1, <2>2
<1>11. Len(Swept(s \o made)) \in Nat /\ Len(s) \in Nat
  BY <1>9
<1> HIDE DEF fresh
<1>12. /\ \A e \in Range(Reloaded(s, n, pos)) :
             e \in Range(s) \/ \E t \in Registered : NameOf[t] = n /\ e = Made(t, pos)
       /\ Reloaded(s, n, pos) \in Seq(Entry)
  BY <1>1, <1>6, <1>8, <1>9
<1>13. Len(Reloaded(s, n, pos)) <= Len(s) + Cardinality(fresh) /\ Len(Reloaded(s, n, pos)) \in Nat
  BY <1>1, <1>5, <1>7, <1>9, <1>11
<1> QED
  BY <1>3, <1>10, <1>11, <1>12, <1>13

-----------------------------------------------------------------------------
(* What the operators on a reader's memory do to it. *)

LEMMA LogIs ==
    ASSUME Typed
    PROVE  /\ Len(binlog) \in Nat
           /\ \A g \in 1 .. Len(binlog) : binlog[g] \in Seq(Event) /\ Len(binlog[g]) \in Nat
           /\ \A g \in 0 .. Len(binlog) : Size(g) = LenOf(binlog, g) /\ Size(g) \in Nat
           /\ \A p \in Positions(binlog) : p \in Position /\ At(binlog, p) \in Event
           /\ \A p : EventAt(p) = At(binlog, p)
<1>1. binlog \in Seq(Transactions)
  BY DEF Typed
<1>2. \A g \in 1 .. Len(binlog) : binlog[g] \in Seq(Event)
  BY <1>1, TransactionsAssumption
<1>3. \A g \in 1 .. Len(binlog) : \A k \in 1 .. Len(binlog[g]) : binlog[g][k] \in Event
  BY <1>2
<1>4. Len(binlog) \in Nat /\ \A g \in 1 .. Len(binlog) : Len(binlog[g]) \in Nat
  BY <1>1, <1>2
<1>5. \A p \in Positions(binlog) : p \in Position /\ At(binlog, p) \in Event
  BY <1>3, <1>4 DEF Positions, Position, At
<1>6. \A g \in 0 .. Len(binlog) : Size(g) = LenOf(binlog, g) /\ Size(g) \in Nat
  BY <1>4 DEF Size, LenOf
<1>7. \A p : EventAt(p) = At(binlog, p)
  BY DEF EventAt, At
<1> QED
  BY <1>2, <1>4, <1>5, <1>6, <1>7

\* What most steps leave alone.
Same(m, n) ==
    /\ n.pos = m.pos /\ n.began = m.began /\ n.seqNo = m.seqNo
    /\ n.tables = m.tables /\ n.pend = m.pend /\ n.down = m.down

LEMMA RestOk ==
    ASSUME NEW b, NEW n \in Memory, n.pos[1] <= Len(b), n.pos[2] <= LenOf(b, n.pos[1]),
           n.cont = "none", n.pc \in {"select", "batch", "commit", "finish"}
    PROVE  MemOk(b, n)
BY DEF MemOk, InRow, InEvent

LEMMA HandledIs ==
    ASSUME NEW m \in Memory
    PROVE  /\ Handled(m) \in Memory /\ Same(m, Handled(m))
           /\ Handled(m).cont = m.cont /\ Handled(m).pc \in {"batch", "commit"}
<1> DEFINE pc == IF m.cnt + 1 >= BatchSize * NumTables(m) THEN "commit" ELSE "batch"
           cnt == m.cnt + 1
<1>1. Handled(m) = [m EXCEPT !.cnt = cnt, !.i = 0, !.cur = NoEntry, !.row = 0, !.pc = pc]
  BY DEF Handled
<1>2. pc \in {"batch", "commit"} /\ pc \in Pcs /\ cnt \in Nat /\ 0 \in Nat
  BY DEF Pcs, Memory
<1> HIDE DEF pc, cnt
<1>3. Handled(m) \in Memory
  BY <1>1, <1>2 DEF Memory
<1>4. Handled(m).cont = m.cont /\ Handled(m).pc \in {"batch", "commit"}
  BY <1>1, <1>2 DEF Memory
<1>5. Same(m, Handled(m))
  BY <1>1 DEF Memory, Same
<1> QED
  BY <1>3, <1>4, <1>5

LEMMA NextEntryIs ==
    ASSUME NEW m \in Memory, NEW i \in Nat, i >= 1, EventAt(m.pos).name \in Names
    PROVE  LET n == NextEntry(m, i)
               s == m.tables[EventAt(m.pos).name]
           IN  /\ n \in Memory /\ Same(m, n) /\ n.cont = m.cont
               /\ \/ i > Len(s) /\ n.pc \in {"batch", "commit"}
                  \/ i <= Len(s) /\ n.pc = "rows" /\ n.i = i /\ n.cur = s[i] /\ n.row = 1 /\ n.cur \in Entry
<1> DEFINE s == m.tables[EventAt(m.pos).name]
           e == s[i]
<1>1. s \in Seq(Entry)
  BY DEF Memory
<1>2. CASE i > Len(s)
  <2>1. NextEntry(m, i) = Handled(m)
    BY <1>2 DEF NextEntry
  <2> QED
    BY <1>2, <2>1, HandledIs
<1>3. CASE ~(i > Len(s))
  <2>1. NextEntry(m, i) = [m EXCEPT !.pc = "rows", !.i = i, !.cur = e, !.row = 1]
    BY <1>3 DEF NextEntry
  <2>2. e \in Entry /\ i <= Len(s)
    BY <1>1, <1>3
  <2> HIDE DEF e, s
  <2>3. /\ NextEntry(m, i) \in Memory /\ Same(m, NextEntry(m, i)) /\ NextEntry(m, i).cont = m.cont
        /\ NextEntry(m, i).pc = "rows" /\ NextEntry(m, i).i = i
        /\ NextEntry(m, i).cur = e /\ NextEntry(m, i).row = 1
    <3>1. e \in Entry \cup {NoEntry} /\ 1 \in Nat /\ "rows" \in Pcs
      BY <2>2 DEF Pcs
    <3>2. NextEntry(m, i) \in Memory
      BY <2>1, <3>1 DEF Memory
    <3>3. Same(m, NextEntry(m, i)) /\ NextEntry(m, i).cont = m.cont
      BY <2>1 DEF Memory, Same
    <3>4. /\ NextEntry(m, i).pc = "rows" /\ NextEntry(m, i).i = i
          /\ NextEntry(m, i).cur = e /\ NextEntry(m, i).row = 1
      BY <2>1 DEF Memory
    <3> QED
      BY <3>2, <3>3, <3>4
  <2> QED
    BY <2>2, <2>3 DEF e, s
<1> QED
  BY <1>2, <1>3

LEMMA AfterRowIs ==
    ASSUME NEW m \in Memory
    PROVE  LET n == AfterRow(m)
           IN  \/ /\ m.row < RowCount(EventAt(m.pos))
                  /\ n \in Memory /\ Same(m, n) /\ n.cont = m.cont
                  /\ n.pc = "rows" /\ n.row = m.row + 1 /\ n.i = m.i /\ n.cur = m.cur
               \/ ~(m.row < RowCount(EventAt(m.pos))) /\ n = NextEntry(m, m.i + 1)
<1>1. CASE m.row < RowCount(EventAt(m.pos))
  <2> DEFINE row == m.row + 1
  <2>1. AfterRow(m) = [m EXCEPT !.pc = "rows", !.row = row] /\ row \in Nat
    BY <1>1 DEF AfterRow, Memory
  <2> HIDE DEF row
  <2>2. /\ AfterRow(m) \in Memory /\ Same(m, AfterRow(m)) /\ AfterRow(m).cont = m.cont
        /\ AfterRow(m).pc = "rows" /\ AfterRow(m).row = row
        /\ AfterRow(m).i = m.i /\ AfterRow(m).cur = m.cur
    BY <2>1 DEF Memory, Same, Pcs
  <2> QED
    BY <1>1, <2>2 DEF row
<1>2. CASE ~(m.row < RowCount(EventAt(m.pos)))
  BY <1>2 DEF AfterRow
<1> QED
  BY <1>1, <1>2

\* From the event after the position, if it is in the transaction.
LEMMA NextPosition ==
    ASSUME Typed, NEW m \in Memory, m.pos[1] <= Len(binlog), m.pos[2] < Size(m.pos[1])
    PROVE  <<m.pos[1], m.pos[2] + 1>> \in Positions(binlog)
<1>1. m.pos[1] \in Nat /\ m.pos[2] \in Nat /\ m.pos[1] \in 0 .. Len(binlog)
  BY LogIs DEF Memory, Position
<1>2. m.pos[1] # 0
  BY <1>1 DEF Size
<1>3. m.pos[1] \in 1 .. Len(binlog) /\ Size(m.pos[1]) = Len(binlog[m.pos[1]]) /\ Len(binlog[m.pos[1]]) \in Nat
  BY <1>1, <1>2, LogIs DEF Size
<1>4. m.pos[2] + 1 \in 1 .. Len(binlog[m.pos[1]])
  BY <1>1, <1>3
<1> QED
  BY <1>3, <1>4 DEF Positions

-----------------------------------------------------------------------------
(* What the steps of a reader do to its memory. *)

LEMMA MemoryOk == ASSUME Typed, NEW r \in Readers PROVE MemOk(binlog, rd[r]) /\ rd[r] \in Memory
BY DEF Typed, MemOk

LEMMA SetIs ==
    ASSUME Typed, NEW r \in Readers, NEW n, Set(r, n)
    PROVE  rd' = [q \in Readers |-> IF q = r THEN n ELSE rd[q]]
BY DEF Typed, Set

LEMMA EventName ==
    ASSUME Typed, NEW p \in Positions(binlog)
    PROVE  EventAt(p).name \in Names /\ EventAt(p) = At(binlog, p)
BY LogIs DEF Event

LEMMA InLogOf ==
    ASSUME Typed, NEW p \in Positions(binlog)
    PROVE  p \in Position /\ p[1] <= Len(binlog) /\ p[2] <= LenOf(binlog, p[1])
<1>1. PICK g \in 1 .. Len(binlog) : \E k \in 1 .. Len(binlog[g]) : p = <<g, k>>
  BY DEF Positions
<1>2. PICK k \in 1 .. Len(binlog[g]) : p = <<g, k>>
  BY <1>1
<1>3. g \in Nat /\ g # 0 /\ g <= Len(binlog) /\ k \in Nat /\ k <= Len(binlog[g])
  BY LogIs
<1> QED
  BY <1>2, <1>3 DEF LenOf, Position

\* What the rest of a row event leaves a reader at: the next row, the next
\* entry, or the next event.
OnRow(m, n) ==
    LET s == m.tables[At(binlog, m.pos).name]
        last == RowCount(At(binlog, m.pos))
    IN  \/ m.row < last /\ n.pc = "rows" /\ n.cur = m.cur /\ n.row = m.row + 1
        \/ ~(m.row < last) /\ m.i + 1 > Len(s) /\ n.pc \in {"batch", "commit"}
        \/ ~(m.row < last) /\ m.i + 1 <= Len(s) /\ n.pc = "rows" /\ n.row = 1 /\ n.cur = s[m.i + 1]

LEMMA RowsOk ==
    ASSUME NEW b, NEW n \in Memory, n.pos \in Positions(b), n.pos[1] <= Len(b), n.pos[2] <= LenOf(b, n.pos[1]),
           n.cont = "none", n.pc = "rows", n.cur \in Entry, n.i >= 1, At(b, n.pos).kind # "alter",
           n.row \in 1 .. RowCount(At(b, n.pos))
    PROVE  MemOk(b, n)
BY DEF MemOk, InRow, InEvent

LEMMA RowCounts == ASSUME NEW e PROVE RowCount(e) \in 1 .. 2
BY DEF RowCount

LEMMA AfterRowOk ==
    ASSUME Typed, NEW m \in Memory, m.pos \in Positions(binlog), m.cont = "none",
           m.cur \in Entry, m.i >= 1, At(binlog, m.pos).kind # "alter",
           m.row \in 1 .. RowCount(At(binlog, m.pos))
    PROVE  /\ MemOk(binlog, AfterRow(m)) /\ Same(m, AfterRow(m)) /\ AfterRow(m).cont = "none"
           /\ OnRow(m, AfterRow(m))
<1> DEFINE n == AfterRow(m)
           s == m.tables[At(binlog, m.pos).name]
           c == RowCount(At(binlog, m.pos))
<1>1. /\ EventAt(m.pos) = At(binlog, m.pos) /\ EventAt(m.pos).name \in Names
      /\ m.pos[1] <= Len(binlog) /\ m.pos[2] <= LenOf(binlog, m.pos[1])
  BY EventName, InLogOf
<1>2. m.i + 1 \in Nat /\ m.i + 1 >= 1 /\ m.row \in Nat /\ m.i \in Nat /\ c \in 1 .. 2
  BY RowCounts DEF Memory
<1>3. CASE m.row < c
  <2>1. /\ n \in Memory /\ Same(m, n) /\ n.cont = m.cont
        /\ n.pc = "rows" /\ n.row = m.row + 1 /\ n.i = m.i /\ n.cur = m.cur
    BY <1>1, <1>3, AfterRowIs
  <2> HIDE DEF n
  <2>2. m.row + 1 \in 1 .. c
    BY <1>2, <1>3
  <2>3. MemOk(binlog, n)
    <3> HIDE DEF c
    <3>1. n.pos = m.pos
      BY <2>1 DEF Same
    <3> QED
      BY <1>1, <2>1, <2>2, <3>1, RowsOk DEF c
  <2> QED
    BY <1>3, <2>1, <2>3 DEF OnRow, n
<1>4. CASE ~(m.row < c)
  <2>1. n = NextEntry(m, m.i + 1)
    BY <1>1, <1>4, AfterRowIs
  <2>2. /\ n \in Memory /\ Same(m, n) /\ n.cont = m.cont
        /\ \/ m.i + 1 > Len(s) /\ n.pc \in {"batch", "commit"}
           \/ /\ m.i + 1 <= Len(s) /\ n.pc = "rows" /\ n.i = m.i + 1 /\ n.cur = s[m.i + 1]
              /\ n.row = 1 /\ n.cur \in Entry
    BY <1>1, <1>2, <2>1, NextEntryIs
  <2> HIDE DEF n
  <2>3. OnRow(m, n)
    BY <1>4, <2>2 DEF OnRow
  <2>4. n.pos = m.pos
    BY <2>2 DEF Same
  <2>5. MemOk(binlog, n)
    <3>1. CASE n.pc \in {"batch", "commit"}
      BY <1>1, <2>2, <2>4, <3>1, RestOk
    <3>2. CASE n.pc = "rows"
      <4>1. n.i >= 1 /\ n.cur \in Entry /\ n.row \in 1 .. c
        BY <1>2, <2>2, <3>2
      <4> QED
        BY <1>1, <2>2, <2>4, <3>2, <4>1, RowsOk
    <3> QED
      BY <2>2, <3>1, <3>2
  <2> QED
    BY <2>2, <2>3, <2>5 DEF n
<1> QED
  BY <1>3, <1>4

Rest(m, n) ==
    /\ n.began = m.began /\ n.seqNo = m.seqNo
    /\ n.tables = m.tables /\ n.pend = m.pend /\ n.down = m.down

Taken(m, n) ==
    \/ /\ m.pos[2] = Size(m.pos[1]) /\ n.pos = <<m.pos[1] + 1, 0>>
       /\ n.pc \in {"batch", "commit"} /\ n.cont = "none"
    \/ /\ n.pos = <<m.pos[1], m.pos[2] + 1>> /\ n.pos \in Positions(binlog)
       /\ At(binlog, n.pos).kind # "alter" /\ n.cont = "none"
       /\ LET s == m.tables[At(binlog, n.pos).name]
          IN  \/ s = <<>> /\ n.pc \in {"batch", "commit"}
              \/ s # <<>> /\ n.pc = "rows" /\ n.row = 1 /\ n.cur = s[1]
    \/ /\ n.pos = <<m.pos[1], m.pos[2] + 1>> /\ n.pos \in Positions(binlog)
       /\ At(binlog, n.pos).kind = "alter" /\ n.pc = "reload" /\ n.cont = "alter"

LEMMA UpdateIs ==
    ASSUME NEW b, NEW m \in Memory, m.pos[1] <= Len(b), m.pos[2] <= LenOf(b, m.pos[1]),
           NEW c \in Conts \ {"none", "start"},
           c \in {"row", "alter", "schema"} => m.pos \in Positions(b),
           c = "row" => /\ m.cur \in Entry /\ m.i >= 1 /\ At(b, m.pos).kind # "alter"
                        /\ m.row \in 1 .. RowCount(At(b, m.pos))
    PROVE  LET n == UpdateState(m, c)
           IN  /\ MemOk(b, n) /\ Same(m, n) /\ n.pc = "reload" /\ n.cont = c
               /\ n.cur = m.cur /\ n.row = m.row
<1> DEFINE n == UpdateState(m, c)
<1>1. /\ n \in Memory /\ Same(m, n) /\ n.pc = "reload" /\ n.cont = c
      /\ n.cur = m.cur /\ n.row = m.row /\ n.i = m.i
  BY DEF UpdateState, Memory, Same, Pcs, Conts
<1> HIDE DEF n
<1>2. MemOk(b, n)
  BY <1>1 DEF MemOk, InRow, InEvent, Same, Conts
<1> QED
  BY <1>1, <1>2 DEF n

LEMMA FinishIs ==
    ASSUME NEW b, NEW m, MemOk(b, m), m.cont # "start"
    PROVE  LET n == BatchFailed(m)
           IN  /\ MemOk(b, n) /\ Same(m, n) /\ n.pc = "finish" /\ n.cont = m.cont
               /\ n = [m EXCEPT !.pc = "finish"]
<1> DEFINE n == BatchFailed(m)
<1>1. /\ n \in Memory /\ Same(m, n) /\ n.pc = "finish" /\ n.cont = m.cont /\ m \in Memory
  BY DEF BatchFailed, Memory, Same, Pcs, MemOk
<1>2. n = [m EXCEPT !.pc = "finish"]
  BY DEF BatchFailed
<1> HIDE DEF n
<1>3. MemOk(b, n)
  BY <1>1 DEF MemOk, InRow, InEvent, Same
<1> QED
  BY <1>1, <1>2, <1>3 DEF n

LEMMA TakeEventIs ==
    ASSUME Typed, NEW r \in Readers, TakeEvent(r)
    PROVE  /\ UNCHANGED <<binlog, rows, nextId, lockBy, out, issued, faults, kills>>
           /\ rd[r].pc \in {"select", "batch"}
           /\ \E n : Set(r, n) /\ MemOk(binlog, n) /\ Rest(rd[r], n) /\ Taken(rd[r], n)
<1> DEFINE m == rd[r]
           p == <<m.pos[1] + 1, 0>>
           q == <<m.pos[1], m.pos[2] + 1>>
           o == [m EXCEPT !.pos = p]
           n == [m EXCEPT !.pos = q]
<1>1. /\ MemOk(binlog, m) /\ m \in Memory /\ m.cont = "none"
      /\ m.pos[1] \in Nat /\ m.pos[2] \in Nat /\ m.pos[1] <= Len(binlog)
      /\ m.pc \in {"select", "batch"}
  BY MemoryOk DEF TakeEvent, MemOk, Memory, Position
<1>2. UNCHANGED <<binlog, rows, nextId, lockBy, out, issued, faults, kills>>
  BY DEF TakeEvent
<1>3. CASE /\ m.pos[2] = Size(m.pos[1]) /\ m.pos[1] < Len(binlog)
           /\ Set(r, Handled([m EXCEPT !.pos = <<@[1] + 1, 0>>]))
  <2>1. p \in Position /\ p[1] = m.pos[1] + 1 /\ p[2] = 0
    BY <1>1 DEF Position
  <2>2. p[1] <= Len(binlog) /\ p[2] <= LenOf(binlog, p[1])
    <3>1. p[1] \in 1 .. Len(binlog)
      BY <1>1, <1>3, <2>1, LogIs
    <3>2. LenOf(binlog, p[1]) \in Nat
      BY <3>1, LogIs DEF LenOf
    <3> QED
      BY <2>1, <3>1, <3>2
  <2>3. [m EXCEPT !.pos = <<@[1] + 1, 0>>] = o
    BY <1>1 DEF Memory
  <2> HIDE DEF p
  <2>4. o \in Memory /\ Rest(m, o) /\ o.cont = "none" /\ o.pos = p
    <3> HIDE DEF m
    <3> QED
      BY <1>1, <2>1 DEF Memory, Rest
  <2> HIDE DEF o
  <2>5. /\ Handled(o) \in Memory /\ Same(o, Handled(o)) /\ Handled(o).cont = "none"
        /\ Handled(o).pc \in {"batch", "commit"}
    BY <2>4, HandledIs
  <2>6. MemOk(binlog, Handled(o))
    BY <2>2, <2>4, <2>5, RestOk DEF Same
  <2>7. Rest(m, Handled(o)) /\ Taken(m, Handled(o))
    BY <1>3, <2>4, <2>5 DEF Rest, Same, Taken, p
  <2> QED
    BY <1>1, <1>2, <1>3, <2>3, <2>6, <2>7
<1>4. ASSUME m.pos[2] < Size(m.pos[1])
      PROVE  /\ q \in Positions(binlog) /\ q \in Position /\ n \in Memory /\ Rest(m, n) /\ n.cont = "none"
             /\ n.pos = q /\ q[1] <= Len(binlog) /\ q[2] <= LenOf(binlog, q[1])
             /\ EventAt(n.pos) = At(binlog, n.pos) /\ EventAt(n.pos).name \in Names
             /\ n = [m EXCEPT !.pos = <<@[1], @[2] + 1>>]
  <2>1. q \in Positions(binlog)
    BY <1>1, <1>4, NextPosition
  <2>2. n = [m EXCEPT !.pos = <<@[1], @[2] + 1>>]
    BY <1>1 DEF Memory
  <2> HIDE DEF q
  <2>3. q \in Position /\ q[1] <= Len(binlog) /\ q[2] <= LenOf(binlog, q[1])
    BY <2>1, InLogOf
  <2>4. n \in Memory /\ Rest(m, n) /\ n.cont = "none" /\ n.pos = q
    <3> HIDE DEF m
    <3> QED
      BY <1>1, <2>3 DEF Memory, Rest
  <2> QED
    BY <2>1, <2>2, <2>3, <2>4, EventName
<1>5. CASE /\ m.pos[2] < Size(m.pos[1])
           /\ EventAt(n.pos).kind # "alter" /\ Set(r, NextEntry(n, 1))
  <2>1. /\ q \in Positions(binlog) /\ n \in Memory /\ Rest(m, n) /\ n.cont = "none"
        /\ n.pos = q /\ q[1] <= Len(binlog) /\ q[2] <= LenOf(binlog, q[1])
        /\ EventAt(n.pos) = At(binlog, n.pos) /\ EventAt(n.pos).name \in Names
    BY <1>4, <1>5
  <2> DEFINE x == NextEntry(n, 1)
             s == n.tables[At(binlog, n.pos).name]
  <2> HIDE DEF n
  <2>2. /\ x \in Memory /\ Same(n, x) /\ x.cont = n.cont
        /\ \/ 1 > Len(s) /\ x.pc \in {"batch", "commit"}
           \/ 1 <= Len(s) /\ x.pc = "rows" /\ x.i = 1 /\ x.cur = s[1] /\ x.row = 1 /\ x.cur \in Entry
    BY <2>1, NextEntryIs
  <2>3. s \in Seq(Entry) /\ s = m.tables[At(binlog, x.pos).name] /\ x.pos = q /\ Rest(m, x)
    BY <2>1, <2>2 DEF Memory, Rest, Same
  <2>4. Len(s) \in Nat /\ (1 > Len(s) <=> s = <<>>)
    BY <2>3
  <2> HIDE DEF x, s
  <2>5. MemOk(binlog, x)
    <3>1. CASE x.pc \in {"batch", "commit"}
      BY <2>1, <2>2, <2>3, <3>1, RestOk
    <3>2. CASE x.pc = "rows"
      <4>1. x.i >= 1 /\ x.cur \in Entry /\ x.row \in 1 .. RowCount(At(binlog, x.pos))
        BY <2>2, <3>2, RowCounts
      <4> QED
        BY <1>5, <2>1, <2>2, <2>3, <3>2, <4>1, RowsOk
    <3> QED
      BY <2>2, <3>1, <3>2
  <2>6. Taken(m, x)
    <3>1. /\ x.pos = <<m.pos[1], m.pos[2] + 1>> /\ x.pos \in Positions(binlog)
          /\ At(binlog, x.pos).kind # "alter" /\ x.cont = "none"
      BY <1>5, <2>1, <2>2, <2>3
    <3>2. \/ s = <<>> /\ x.pc \in {"batch", "commit"}
          \/ s # <<>> /\ x.pc = "rows" /\ x.row = 1 /\ x.cur = s[1]
      BY <2>2, <2>4
    <3> DEFINE z == m.tables[At(binlog, x.pos).name]
    <3>3. \/ z = <<>> /\ x.pc \in {"batch", "commit"}
          \/ z # <<>> /\ x.pc = "rows" /\ x.row = 1 /\ x.cur = z[1]
      BY <2>3, <3>2
    <3> HIDE DEF m
    <3> QED
      BY <3>1, <3>3 DEF Taken
  <2> QED
    BY <1>1, <1>2, <1>5, <2>3, <2>5, <2>6 DEF x
<1>6. CASE /\ m.pos[2] < Size(m.pos[1])
           /\ EventAt(n.pos).kind = "alter" /\ Set(r, UpdateState(n, "alter"))
  <2>1. /\ q \in Positions(binlog) /\ n \in Memory /\ Rest(m, n) /\ n.cont = "none"
        /\ n.pos = q /\ q[1] <= Len(binlog) /\ q[2] <= LenOf(binlog, q[1])
        /\ EventAt(n.pos) = At(binlog, n.pos)
    BY <1>4, <1>6
  <2> DEFINE x == UpdateState(n, "alter")
  <2> HIDE DEF n, q
  <2>2. /\ MemOk(binlog, x) /\ Same(n, x) /\ x.pc = "reload" /\ x.cont = "alter"
    BY <2>1, UpdateIs DEF Conts
  <2> HIDE DEF x
  <2>3. Rest(m, x) /\ x.pos = q
    BY <2>1, <2>2 DEF Rest, Same
  <2>4. Taken(m, x)
    BY <1>6, <2>1, <2>2, <2>3 DEF Taken, q
  <2> QED
    BY <1>1, <1>2, <1>6, <2>2, <2>3, <2>4 DEF x
<1> QED
  <2>1. \/ /\ m.pos[2] = Size(m.pos[1]) /\ m.pos[1] < Len(binlog)
           /\ Set(r, Handled([m EXCEPT !.pos = <<@[1] + 1, 0>>]))
        \/ /\ m.pos[2] < Size(m.pos[1])
           /\ EventAt([m EXCEPT !.pos = <<@[1], @[2] + 1>>].pos).kind # "alter"
           /\ Set(r, NextEntry([m EXCEPT !.pos = <<@[1], @[2] + 1>>], 1))
        \/ /\ m.pos[2] < Size(m.pos[1])
           /\ EventAt([m EXCEPT !.pos = <<@[1], @[2] + 1>>].pos).kind = "alter"
           /\ Set(r, UpdateState([m EXCEPT !.pos = <<@[1], @[2] + 1>>], "alter"))
    BY DEF TakeEvent
  <2> QED
    BY <1>3, <1>4, <1>5, <1>6, <2>1

AtRow(b, m) ==
    /\ m \in Memory /\ m.pos \in Positions(b) /\ m.pos[1] <= Len(b) /\ m.pos[2] <= LenOf(b, m.pos[1])
    /\ m.cont = "none" /\ m.cur \in Entry /\ m.i >= 1 /\ At(b, m.pos).kind # "alter"
    /\ m.row \in 1 .. RowCount(At(b, m.pos))

LEMMA AtRowIs ==
    ASSUME NEW b, NEW m, MemOk(b, m), m.pc \in {"rows", "push"}
    PROVE  AtRow(b, m)
BY DEF MemOk, InRow, InEvent, AtRow

LEMMA AtRowOk ==
    ASSUME NEW b, NEW m, AtRow(b, m), m.pc \in {"rows", "push"}
    PROVE  MemOk(b, m)
BY DEF MemOk, InRow, InEvent, AtRow

\* With other numbers and messages.
Moved(m, n) ==
    n.pos = m.pos /\ n.began = m.began /\ n.tables = m.tables /\ n.down = m.down

Pushed(m, n) ==
    /\ n.seqNo = m.seqNo /\ n.cont = "none"
    /\ \/ n.pend = Append(m.pend, Message(m)) /\ OnRow(m, n)
       \/ n.pend = m.pend /\ n.down /\ OnRow(m, n)
       \/ n.pend = m.pend /\ n.pc = "finish"

LEMMA MessageIs ==
    ASSUME NEW b, NEW m, AtRow(b, m)
    PROVE  Message(m) \in Msg
BY DEF AtRow, Message, Msg, Memory, Entry

LEMMA PushRowIs ==
    ASSUME Typed, NEW r \in Readers, NEW m, AtRow(binlog, m), m.pc \in {"rows", "push"}, PushRow(r, m)
    PROVE  /\ issued' = [issued EXCEPT ![m.cur.id] = IF @ < m.seqNo THEN m.seqNo ELSE @]
           /\ \E n : Set(r, n) /\ MemOk(binlog, n) /\ Moved(m, n) /\ Pushed(m, n)
<1> DEFINE pend == Append(m.pend, Message(m))
           k == [m EXCEPT !.pend = pend]
<1>1. m \in Memory /\ pend \in Seq(Msg)
  <2>1. m \in Memory /\ Message(m) \in Msg
    BY MessageIs DEF AtRow
  <2>2. m.pend \in Seq(Msg)
    BY <2>1 DEF Memory
  <2> QED
    BY <2>1, <2>2
<1>2. issued' = [issued EXCEPT ![m.cur.id] = IF @ < m.seqNo THEN m.seqNo ELSE @]
  BY DEF PushRow
<1>3. CASE Set(r, AfterRow([m EXCEPT !.pend = Append(@, Message(m))]))
  <2>1. [m EXCEPT !.pend = Append(@, Message(m))] = k
    BY <1>1 DEF Memory
  <2> HIDE DEF pend
  <2>2. /\ k \in Memory /\ k.pos = m.pos /\ k.cont = m.cont /\ k.cur = m.cur /\ k.i = m.i /\ k.row = m.row
        /\ k.began = m.began /\ k.tables = m.tables /\ k.down = m.down /\ k.seqNo = m.seqNo /\ k.pend = pend
    BY <1>1 DEF Memory
  <2> DEFINE n == AfterRow(k)
  <2> HIDE DEF k
  <2>3. MemOk(binlog, n) /\ Same(k, n) /\ n.cont = "none" /\ OnRow(k, n)
    BY <2>2, AfterRowOk DEF AtRow
  <2> HIDE DEF n
  <2>4. OnRow(m, n)
    BY <2>2, <2>3 DEF OnRow
  <2>5. Moved(m, n) /\ Pushed(m, n)
    BY <2>2, <2>3, <2>4 DEF Moved, Pushed, Same, pend
  <2> QED
    BY <1>2, <1>3, <2>1, <2>3, <2>5 DEF n
<1>4. CASE Set(r, BatchFailed(m))
  <2> DEFINE n == BatchFailed(m)
  <2>1. MemOk(binlog, n) /\ Same(m, n) /\ n.pc = "finish" /\ n.cont = m.cont
    BY FinishIs, AtRowOk DEF AtRow
  <2> HIDE DEF n
  <2>2. Moved(m, n) /\ Pushed(m, n)
    BY <2>1 DEF Moved, Pushed, Same, AtRow
  <2> QED
    BY <1>2, <1>4, <2>1, <2>2 DEF n
<1>5. CASE m.down /\ Set(r, AfterRow(m))
  <2> DEFINE n == AfterRow(m)
  <2>1. MemOk(binlog, n) /\ Same(m, n) /\ n.cont = "none" /\ OnRow(m, n)
    BY AfterRowOk DEF AtRow
  <2> HIDE DEF n
  <2>2. Moved(m, n) /\ Pushed(m, n)
    BY <1>5, <2>1 DEF Moved, Pushed, Same
  <2> QED
    BY <1>2, <1>5, <2>1, <2>2 DEF n
<1> QED
  BY <1>3, <1>4, <1>5 DEF PushRow

Produced(m, n) ==
    \/ /\ \/ m.pc = "rows" /\ n.seqNo = m.seqNo + 1 /\ ~SaveIsDue(n.seqNo)
          \/ m.pc = "push" /\ n.seqNo = m.seqNo
       /\ issued' = [issued EXCEPT ![m.cur.id] = IF @ < n.seqNo THEN n.seqNo ELSE @]
       /\ n.cont = "none"
       /\ \/ /\ n.pend = Append(m.pend, [id |-> m.cur.id, ev |-> m.pos, row |-> m.row, seq |-> n.seqNo])
             /\ OnRow(m, n)
          \/ n.pend = m.pend /\ n.down /\ OnRow(m, n)
          \/ n.pend = m.pend /\ n.pc = "finish"
    \/ /\ m.pc = "rows" /\ n.seqNo = m.seqNo + 1 /\ SaveIsDue(n.seqNo) /\ UNCHANGED issued
       /\ n.pc = "reload" /\ n.cont = "row" /\ n.cur = m.cur /\ n.row = m.row /\ n.pend = m.pend

LEMMA ProduceRowIs ==
    ASSUME Typed, NEW r \in Readers, ProduceRow(r)
    PROVE  /\ UNCHANGED <<binlog, rows, nextId, lockBy, out, kills>>
           /\ AtRow(binlog, rd[r]) /\ rd[r].pc \in {"rows", "push"}
           /\ \E n : Set(r, n) /\ MemOk(binlog, n) /\ Moved(rd[r], n) /\ Produced(rd[r], n)
<1> DEFINE m == rd[r]
           s == m.seqNo + 1
           k == [m EXCEPT !.seqNo = s]
<1>1. UNCHANGED <<binlog, rows, nextId, lockBy, out, kills>> /\ m.pc \in {"rows", "push"} /\ MemOk(binlog, m)
  BY MemoryOk DEF ProduceRow
<1>2. AtRow(binlog, m) /\ m \in Memory
  BY <1>1, AtRowIs DEF AtRow
<1>3. /\ k \in Memory /\ k.pos = m.pos /\ k.cont = m.cont /\ k.cur = m.cur /\ k.i = m.i /\ k.row = m.row
      /\ k.began = m.began /\ k.tables = m.tables /\ k.down = m.down /\ k.seqNo = s /\ k.pend = m.pend
      /\ k.pc = m.pc /\ k = [m EXCEPT !.seqNo = @ + 1]
  <2>1. s \in Nat /\ k = [m EXCEPT !.seqNo = @ + 1]
    BY <1>2 DEF Memory
  <2> HIDE DEF s, m
  <2> QED
    BY <1>2, <2>1 DEF Memory
<1> HIDE DEF k
<1>4. AtRow(binlog, k)
  BY <1>2, <1>3 DEF AtRow
<1>5. ASSUME NEW x \in {m, k}, PushRow(r, x),
             \/ m.pc = "rows" /\ x.seqNo = m.seqNo + 1 /\ ~SaveIsDue(x.seqNo)
             \/ m.pc = "push" /\ x.seqNo = m.seqNo
      PROVE  \E n : Set(r, n) /\ MemOk(binlog, n) /\ Moved(m, n) /\ Produced(m, n)
  <2>1. AtRow(binlog, x) /\ x.pc \in {"rows", "push"}
    BY <1>1, <1>2, <1>3, <1>4
  <2>2. /\ issued' = [issued EXCEPT ![x.cur.id] = IF @ < x.seqNo THEN x.seqNo ELSE @]
        /\ \E n : Set(r, n) /\ MemOk(binlog, n) /\ Moved(x, n) /\ Pushed(x, n)
    BY <1>5, <2>1, PushRowIs
  <2>3. PICK n : Set(r, n) /\ MemOk(binlog, n) /\ Moved(x, n) /\ Pushed(x, n)
    BY <2>2
  <2>4. /\ x.pos = m.pos /\ x.cur = m.cur /\ x.i = m.i /\ x.row = m.row /\ x.began = m.began
        /\ x.tables = m.tables /\ x.down = m.down /\ x.pend = m.pend
    BY <1>3
  <2> HIDE DEF m
  <2>5. Moved(m, n) /\ (OnRow(x, n) <=> OnRow(m, n)) /\ n.seqNo = x.seqNo
    BY <2>3, <2>4 DEF Moved, OnRow, Pushed
  <2>6. Message(x) = [id |-> m.cur.id, ev |-> m.pos, row |-> m.row, seq |-> n.seqNo]
    BY <2>4, <2>5 DEF Message
  <2>7. \/ /\ n.pend = Append(m.pend, [id |-> m.cur.id, ev |-> m.pos, row |-> m.row, seq |-> n.seqNo])
           /\ OnRow(m, n)
        \/ n.pend = m.pend /\ n.down /\ OnRow(m, n)
        \/ n.pend = m.pend /\ n.pc = "finish"
    BY <2>3, <2>4, <2>5, <2>6 DEF Pushed
  <2>8. n.cont = "none" /\ issued' = [issued EXCEPT ![m.cur.id] = IF @ < n.seqNo THEN n.seqNo ELSE @]
    BY <2>2, <2>3, <2>4, <2>5 DEF Pushed
  <2>9. Produced(m, n)
    BY <1>5, <2>5, <2>7, <2>8 DEF Produced
  <2> QED
    BY <2>3, <2>5, <2>9
<1>6. CASE m.pc = "rows" /\ SaveIsDue(k.seqNo) /\ Set(r, UpdateState(k, "row")) /\ UNCHANGED issued
  <2> DEFINE n == UpdateState(k, "row")
  <2>1. MemOk(binlog, n) /\ Same(k, n) /\ n.pc = "reload" /\ n.cont = "row" /\ n.cur = k.cur /\ n.row = k.row
    BY <1>4, UpdateIs DEF AtRow, Conts
  <2> HIDE DEF n, m
  <2>2. Moved(m, n)
    BY <1>3, <2>1 DEF Moved, Same
  <2>3. Produced(m, n)
    BY <1>3, <1>6, <2>1 DEF Produced, Same
  <2> QED
    BY <1>1, <1>2, <1>6, <2>1, <2>2, <2>3 DEF n, m
<1>7. \/ m.pc = "rows" /\ ~SaveIsDue(k.seqNo) /\ PushRow(r, k)
      \/ m.pc = "push" /\ PushRow(r, m)
      \/ m.pc = "rows" /\ SaveIsDue(k.seqNo) /\ Set(r, UpdateState(k, "row")) /\ UNCHANGED issued
  BY <1>3 DEF ProduceRow
<1>8. CASE m.pc = "rows" /\ ~SaveIsDue(k.seqNo) /\ PushRow(r, k)
  <2>1. k \in {m, k} /\ k.seqNo = m.seqNo + 1
    BY <1>3
  <2>2. \E n : Set(r, n) /\ MemOk(binlog, n) /\ Moved(m, n) /\ Produced(m, n)
    BY <1>5, <1>8, <2>1
  <2> QED
    BY <1>1, <1>2, <2>2
<1>9. CASE m.pc = "push" /\ PushRow(r, m)
  BY <1>1, <1>2, <1>5, <1>9
<1> QED
  BY <1>1, <1>2, <1>6, <1>7, <1>8, <1>9

\* With another number only.
Altered(m, n) ==
    \/ /\ n.pc \in {"batch", "commit", "finish"} /\ n.cont = "none"
       /\ n.seqNo = m.seqNo \/ (n.seqNo = m.seqNo + 1 /\ ~SaveIsDue(n.seqNo))
    \/ n.pc = "reload" /\ n.cont = "schema" /\ n.seqNo = m.seqNo + 1 /\ SaveIsDue(n.seqNo)

LEMMA AlterTableIs ==
    ASSUME Typed, NEW r \in Readers, AlterTable(r)
    PROVE  /\ UNCHANGED <<binlog, rows, nextId, out, issued, kills>>
           /\ rd[r].pc \in {"mutate", "schema"}
           /\ \/ Leave(r)
              \/ /\ UNCHANGED lockBy
                 /\ \E n : /\ Set(r, n) /\ MemOk(binlog, n) /\ Moved(rd[r], n) /\ n.pend = rd[r].pend
                          /\ Altered(rd[r], n)
<1> DEFINE m == rd[r]
           len == Len(m.tables[EventAt(m.pos).name])
           s == m.seqNo + 1
           k == [m EXCEPT !.seqNo = s, !.i = len]
<1>1. UNCHANGED <<binlog, rows, nextId, out, issued, kills>> /\ m.pc \in {"mutate", "schema"}
  BY DEF AlterTable
<1>2. /\ MemOk(binlog, m) /\ m \in Memory /\ m.cont = "none" /\ m.pos \in Positions(binlog)
      /\ m.pos[1] <= Len(binlog) /\ m.pos[2] <= LenOf(binlog, m.pos[1])
  BY <1>1, MemoryOk DEF MemOk, InEvent
<1>3. len \in Nat /\ s \in Nat
  <2>1. m.tables[EventAt(m.pos).name] \in Seq(Entry)
    BY <1>2, EventName DEF Memory
  <2> QED
    BY <1>2, <2>1 DEF Memory
<1>4. /\ k \in Memory /\ k.pos = m.pos /\ k.cont = m.cont
      /\ k.began = m.began /\ k.tables = m.tables /\ k.down = m.down /\ k.seqNo = s /\ k.pend = m.pend
      /\ k = [m EXCEPT !.seqNo = @ + 1, !.i = len]
  <2>1. k = [m EXCEPT !.seqNo = @ + 1, !.i = len]
    BY <1>2 DEF Memory
  <2> HIDE DEF s, m, len
  <2> QED
    BY <1>2, <1>3, <2>1 DEF Memory
<1>5. \/ Set(r, Handled(m)) /\ UNCHANGED lockBy
      \/ ~SaveIsDue(k.seqNo) /\ Set(r, Handled(k)) /\ UNCHANGED lockBy
      \/ SaveIsDue(k.seqNo) /\ Set(r, UpdateState(k, "schema")) /\ UNCHANGED lockBy
      \/ Set(r, BatchFailed(m)) /\ UNCHANGED lockBy
      \/ Leave(r)
  BY <1>4 DEF AlterTable
<1> HIDE DEF k
<1>6. \A x \in {m, k} : /\ MemOk(binlog, Handled(x)) /\ Same(x, Handled(x))
                        /\ Handled(x).cont = "none" /\ Handled(x).pc \in {"batch", "commit"}
  <2> SUFFICES ASSUME NEW x \in {m, k}
               PROVE  /\ MemOk(binlog, Handled(x)) /\ Same(x, Handled(x))
                      /\ Handled(x).cont = "none" /\ Handled(x).pc \in {"batch", "commit"}
    OBVIOUS
  <2>1. x \in Memory /\ x.cont = "none" /\ x.pos = m.pos
    BY <1>2, <1>4
  <2>2. /\ Handled(x) \in Memory /\ Same(x, Handled(x))
        /\ Handled(x).cont = "none" /\ Handled(x).pc \in {"batch", "commit"}
    BY <2>1, HandledIs
  <2>3. Handled(x).pos = m.pos
    BY <2>1, <2>2 DEF Same
  <2> QED
    BY <1>2, <2>2, <2>3, RestOk
<1>7. CASE Set(r, Handled(m)) /\ UNCHANGED lockBy
  <2>1. Moved(m, Handled(m)) /\ Handled(m).pend = m.pend /\ Altered(m, Handled(m))
    BY <1>6 DEF Moved, Altered, Same
  <2> QED
    BY <1>1, <1>6, <1>7, <2>1
<1>8. CASE ~SaveIsDue(k.seqNo) /\ Set(r, Handled(k)) /\ UNCHANGED lockBy
  <2>1. /\ MemOk(binlog, Handled(k)) /\ Same(k, Handled(k))
        /\ Handled(k).cont = "none" /\ Handled(k).pc \in {"batch", "commit"}
    BY <1>6
  <2>2. Moved(m, Handled(k)) /\ Handled(k).pend = m.pend /\ Altered(m, Handled(k))
    BY <1>4, <1>8, <2>1 DEF Moved, Altered, Same
  <2> QED
    BY <1>1, <1>8, <2>1, <2>2
<1>9. CASE SaveIsDue(k.seqNo) /\ Set(r, UpdateState(k, "schema")) /\ UNCHANGED lockBy
  <2> DEFINE n == UpdateState(k, "schema")
  <2>1. MemOk(binlog, n) /\ Same(k, n) /\ n.pc = "reload" /\ n.cont = "schema"
    <3>1. "schema" \in Conts \ {"none", "start"} /\ "schema" # "row"
      BY DEF Conts
    <3>2. k.pos \in Positions(binlog) /\ k.pos[1] <= Len(binlog) /\ k.pos[2] <= LenOf(binlog, k.pos[1])
      BY <1>2, <1>4
    <3> HIDE DEF m
    <3>3. k \in Memory
      BY <1>4
    <3> QED
      BY <3>1, <3>2, <3>3, UpdateIs
  <2> HIDE DEF n
  <2>2. Moved(m, n) /\ n.pend = m.pend /\ Altered(m, n)
    BY <1>4, <1>9, <2>1 DEF Moved, Altered, Same
  <2> QED
    BY <1>1, <1>9, <2>1, <2>2 DEF n
<1>10. CASE Set(r, BatchFailed(m)) /\ UNCHANGED lockBy
  <2> DEFINE n == BatchFailed(m)
  <2>1. MemOk(binlog, n) /\ Same(m, n) /\ n.pc = "finish" /\ n.cont = m.cont
    BY <1>2, FinishIs
  <2> HIDE DEF n
  <2>2. Moved(m, n) /\ n.pend = m.pend /\ Altered(m, n)
    BY <1>2, <2>1 DEF Moved, Altered, Same
  <2> QED
    BY <1>1, <1>10, <2>1, <2>2 DEF n
<1> QED
  BY <1>1, <1>5, <1>7, <1>8, <1>9, <1>10

\* What fails leaves the reader, or its memory for the final save.
Failed(r) ==
    \/ rd[r].cont = "start" /\ Leave(r)
    \/ /\ UNCHANGED lockBy
       /\ \E n : /\ Set(r, n) /\ MemOk(binlog, n) /\ Same(rd[r], n)
                /\ n.pc = "finish" /\ n.cont = rd[r].cont /\ n.cont # "start"

LEMMA FailedIs ==
    ASSUME Typed, NEW r \in Readers, UpdateFailed(r)
    PROVE  Failed(r)
<1>1. MemOk(binlog, rd[r])
  BY MemoryOk
<1>2. CASE rd[r].cont = "start"
  BY <1>2 DEF UpdateFailed, Failed
<1>3. CASE rd[r].cont # "start"
  <2> DEFINE n == BatchFailed(rd[r])
  <2>1. /\ MemOk(binlog, n) /\ Same(rd[r], n) /\ n.pc = "finish" /\ n.cont = rd[r].cont
        /\ n = [rd[r] EXCEPT !.pc = "finish"]
    BY <1>1, <1>3, FinishIs
  <2> HIDE DEF n
  <2>2. Set(r, n) /\ UNCHANGED lockBy
    BY <1>3, <2>1 DEF UpdateFailed
  <2> QED
    BY <1>3, <2>1, <2>2 DEF Failed
<1> QED
  BY <1>2, <1>3

Reloads(m, n) ==
    /\ n.pos = m.pos /\ n.began = m.began /\ n.down = m.down /\ n.pend = m.pend
    /\ n.pc = "save" /\ n.cont = m.cont /\ n.cur = m.cur /\ n.row = m.row
    /\ n.tables = [x \in Names |-> Reloaded(m.tables[x], x, m.pos)]
    /\ \E s \in SeqNos(m) : n.seqNo = IF m.cont = "start" THEN FirstSeqNo(s) ELSE s

LEMMA ReloadIs ==
    ASSUME Typed, NEW r \in Readers, Reload(r)
    PROVE  /\ UNCHANGED <<binlog, rows, nextId, out, issued, kills>>
           /\ rd[r].pc = "reload"
           /\ \/ Failed(r)
              \/ \E n : Set(r, n) /\ MemOk(binlog, n) /\ Reloads(rd[r], n)
<1> DEFINE m == rd[r]
           new == [n \in Names |-> Reloaded(m.tables[n], n, m.pos)]
<1>1. UNCHANGED <<binlog, rows, nextId, out, issued, kills>> /\ m.pc = "reload"
  BY DEF Reload
<1>2. MemOk(binlog, m) /\ m \in Memory
  BY MemoryOk
<1>3. new \in [Names -> Seq(Entry)]
  <2>1. \A n \in Names : m.tables[n] \in Seq(Entry) /\ m.pos \in Position
    BY <1>2 DEF Memory
  <2> QED
    BY <2>1, ReloadedIs
<1>4. \A s \in SeqNos(m) : s \in Nat /\ FirstSeqNo(s) \in Nat
  <2>1. \A t \in Registered : rows[t].seq \in Nat
    BY DEF Typed, Row
  <2>2. m.seqNo \in Nat
    BY <1>2 DEF Memory
  <2>3. \A s \in SeqNos(m) : s \in Nat
    BY <2>1, <2>2 DEF SeqNos
  <2> QED
    BY <2>3, SeqIntervalAssumption DEF FirstSeqNo
<1>5. ASSUME NEW s \in SeqNos(m),
             Set(r, [m EXCEPT !.pc = "save", !.tables = new,
                              !.seqNo = IF m.cont = "start" THEN FirstSeqNo(s) ELSE s])
      PROVE  \E n : Set(r, n) /\ MemOk(binlog, n) /\ Reloads(m, n)
  <2> DEFINE q == IF m.cont = "start" THEN FirstSeqNo(s) ELSE s
             n == [m EXCEPT !.pc = "save", !.tables = new, !.seqNo = q]
  <2>1. q \in Nat
    BY <1>4
  <2> HIDE DEF q
  <2>2. /\ n \in Memory /\ n.pos = m.pos /\ n.began = m.began /\ n.down = m.down /\ n.pend = m.pend
        /\ n.pc = "save" /\ n.cont = m.cont /\ n.cur = m.cur /\ n.row = m.row /\ n.i = m.i
        /\ n.tables = new /\ n.seqNo = q
    <3> HIDE DEF new, m
    <3> QED
      BY <1>2, <1>3, <2>1 DEF Memory, Pcs
  <2> HIDE DEF n, new
  <2>3. Reloads(m, n)
    BY <2>2 DEF Reloads, q, new
  <2>4. MemOk(binlog, n)
    BY <1>1, <1>2, <2>2 DEF MemOk, InRow, InEvent
  <2> QED
    BY <1>5, <2>3, <2>4 DEF n, q
<1>6. ASSUME UpdateFailed(r) PROVE Failed(r)
  BY <1>6, FailedIs
<1>7. \/ UpdateFailed(r)
      \/ \E s \in SeqNos(m) : Set(r, [m EXCEPT !.pc = "save", !.tables = new,
                                       !.seqNo = IF m.cont = "start" THEN FirstSeqNo(s) ELSE s])
  BY DEF Reload
<1> QED
  BY <1>1, <1>5, <1>6, <1>7

Saves(m, n) ==
    /\ n.pos = m.pos /\ n.seqNo = m.seqNo /\ n.tables = m.tables /\ n.down = m.down /\ n.pend = m.pend
    /\ n.cont = "none" /\ n.cur = m.cur /\ n.row = m.row
    /\ n.began = IF m.cont = "start" THEN m.pos ELSE m.began
    /\ \/ m.cont \in {"start", "tick"} /\ n.pc = "select"
       \/ m.cont = "row" /\ n.pc = "push"
       \/ m.cont = "alter" /\ n.pc = "mutate"
       \/ m.cont = "schema" /\ n.pc = "schema"

LEMMA ReturnedIs ==
    ASSUME NEW b, NEW m, MemOk(b, m), m.pc = "save"
    PROVE  MemOk(b, Returned(m)) /\ Saves(m, Returned(m))
<1> DEFINE to == [start |-> "select", tick |-> "select", row |-> "push",
                  alter |-> "mutate", schema |-> "schema"]
           pc == to[m.cont]
           began == IF m.cont = "start" THEN m.pos ELSE m.began
           n == Returned(m)
<1>1. m \in Memory /\ m.cont \in {"start", "tick", "row", "alter", "schema"}
  BY DEF MemOk, Memory, Conts
<1>2. Returned(m) = [m EXCEPT !.pc = pc, !.cont = "none", !.began = began]
  BY <1>1 DEF Returned, Memory
<1>3. /\ \/ m.cont \in {"start", "tick"} /\ pc = "select"
         \/ m.cont = "row" /\ pc = "push"
         \/ m.cont = "alter" /\ pc = "mutate"
         \/ m.cont = "schema" /\ pc = "schema"
      /\ pc \in Pcs /\ began \in Position /\ "none" \in Conts
  <2>1. \/ m.cont \in {"start", "tick"} /\ pc = "select"
        \/ m.cont = "row" /\ pc = "push"
        \/ m.cont = "alter" /\ pc = "mutate"
        \/ m.cont = "schema" /\ pc = "schema"
    BY <1>1
  <2>2. pc \in Pcs /\ "none" \in Conts
    <3> HIDE DEF pc
    <3> QED
      BY <2>1 DEF Pcs, Conts
  <2>3. began \in Position
    BY <1>1 DEF Memory
  <2> QED
    BY <2>1, <2>2, <2>3
<1> HIDE DEF pc, began
<1>4. /\ n \in Memory /\ n.pos = m.pos /\ n.seqNo = m.seqNo /\ n.tables = m.tables /\ n.down = m.down
      /\ n.pend = m.pend /\ n.cont = "none" /\ n.cur = m.cur /\ n.row = m.row /\ n.i = m.i
      /\ n.began = began /\ n.pc = pc
  BY <1>1, <1>2, <1>3 DEF Memory
<1> HIDE DEF n
<1>5. Saves(m, n)
  BY <1>3, <1>4 DEF Saves, began
<1>6. MemOk(b, n)
  <2>1. n.pc \in {"select", "push", "mutate", "schema"} /\ (n.pc = "push" => m.cont = "row")
        /\ (n.pc \in {"mutate", "schema"} => m.cont \in {"alter", "schema"})
    BY <1>3, <1>4
  <2> QED
    BY <1>4, <2>1 DEF MemOk, InRow, InEvent
<1> QED
  BY <1>5, <1>6 DEF n

LEMMA SaveIs ==
    ASSUME Typed, NEW r \in Readers, Save(r)
    PROVE  /\ UNCHANGED <<binlog, nextId, out, issued, kills>>
           /\ rd[r].pc = "save"
           /\ \/ /\ rows' = Saved(rd[r]) /\ UNCHANGED lockBy
                 /\ \E n : Set(r, n) /\ MemOk(binlog, n) /\ Saves(rd[r], n)
              \/ rows' \in {rows, Saved(rd[r])} /\ Failed(r)
<1>1. UNCHANGED <<binlog, nextId, out, issued, kills>> /\ rd[r].pc = "save"
  BY DEF Save
<1>2. MemOk(binlog, Returned(rd[r])) /\ Saves(rd[r], Returned(rd[r]))
  BY <1>1, MemoryOk, ReturnedIs
<1>3. \/ rows' = Saved(rd[r]) /\ UNCHANGED lockBy /\ Set(r, Returned(rd[r]))
      \/ rows' \in {rows, Saved(rd[r])} /\ UpdateFailed(r)
  BY DEF Save
<1> QED
  BY <1>1, <1>2, <1>3, FailedIs

Committed(m, n) ==
    /\ n.pos = m.pos /\ n.seqNo = m.seqNo /\ n.tables = m.tables /\ n.down = m.down
    /\ n.pend = <<>> /\ n.cont = "none"
    /\ \/ /\ n.pc = "select" /\ n.began = m.pos
          /\ out' = Stored({x \in Range(m.pend) : x.id \in {e.id : e \in Entries(m)}})
       \/ n.pc = "finish" /\ n.began = m.began /\ out \subseteq out'

LEMMA CommitIs ==
    ASSUME Typed, NEW r \in Readers, Commit(r)
    PROVE  /\ UNCHANGED <<binlog, rows, nextId, lockBy, issued, kills>>
           /\ rd[r].pc = "commit"
           /\ \E n : Set(r, n) /\ MemOk(binlog, n) /\ Committed(rd[r], n)
<1> DEFINE m == rd[r]
           msgs == {x \in Range(m.pend) : x.id \in {e.id : e \in Entries(m)}}
           k == [m EXCEPT !.pend = <<>>]
           n == [k EXCEPT !.pc = "select", !.cnt = 0, !.began = m.pos]
           o == BatchFailed(k)
<1>1. UNCHANGED <<binlog, rows, nextId, lockBy, issued, kills>> /\ m.pc = "commit"
  BY DEF Commit
<1>2. /\ MemOk(binlog, m) /\ m \in Memory /\ m.cont = "none"
      /\ m.pos[1] <= Len(binlog) /\ m.pos[2] <= LenOf(binlog, m.pos[1])
  BY <1>1, MemoryOk DEF MemOk
<1>3. \/ out' = Stored(msgs) /\ Set(r, n)
      \/ out \subseteq out' /\ Set(r, o)
  BY DEF Commit, Stored
<1>4. /\ k \in Memory /\ k.pos = m.pos /\ k.seqNo = m.seqNo /\ k.tables = m.tables /\ k.down = m.down
      /\ k.pend = <<>> /\ k.cont = "none" /\ k.began = m.began
  <2> HIDE DEF m
  <2>1. <<>> \in Seq(Msg)
    OBVIOUS
  <2> QED
    BY <1>2, <2>1 DEF Memory
<1> HIDE DEF k, msgs
<1>5. CASE out' = Stored(msgs) /\ Set(r, n)
  <2> DEFINE p == m.pos
  <2>0. p \in Position
    BY <1>2 DEF Memory
  <2>1. /\ n \in Memory /\ n.pos = p /\ n.seqNo = m.seqNo /\ n.tables = m.tables /\ n.down = m.down
        /\ n.pend = <<>> /\ n.cont = "none" /\ n.began = p /\ n.pc = "select"
    <3> HIDE DEF m
    <3> QED
      BY <1>4, <2>0 DEF Memory, Pcs
  <2> HIDE DEF n
  <2>2. MemOk(binlog, n)
    BY <1>2, <2>1, RestOk
  <2>3. Committed(m, n)
    BY <1>5, <2>1 DEF Committed, msgs
  <2> QED
    BY <1>1, <1>5, <2>2, <2>3
<1>6. CASE out \subseteq out' /\ Set(r, o)
  <2>1. /\ o \in Memory /\ o.pos = m.pos /\ o.seqNo = m.seqNo /\ o.tables = m.tables /\ o.down = m.down
        /\ o.pend = <<>> /\ o.cont = "none" /\ o.began = m.began /\ o.pc = "finish"
    <3> HIDE DEF m
    <3> QED
      BY <1>4 DEF Memory, Pcs, BatchFailed
  <2> HIDE DEF o
  <2>2. MemOk(binlog, o)
    BY <1>2, <2>1, RestOk
  <2>3. Committed(m, o)
    BY <1>6, <2>1 DEF Committed
  <2> QED
    BY <1>1, <1>6, <2>2, <2>3
<1> QED
  BY <1>3, <1>5, <1>6

Begins(m, n) ==
    /\ n.pc = "reload" /\ n.cont = "start" /\ n.began = <<0, 0>> /\ n.seqNo = 0
    /\ n.tables = NoTables /\ n.pend = <<>>

BegunRows ==
    \/ rows' = rows
    \/ rows' = [t \in Tables |-> IF rows[t] = None THEN None ELSE [rows[t] EXCEPT !.gtid = Len(binlog)]]

LEMMA BeginIs ==
    ASSUME Typed, NEW r \in Readers, Begin(r)
    PROVE  /\ UNCHANGED <<binlog, nextId, out, issued, kills>> /\ rd[r].pc = "begin" /\ BegunRows
           /\ \/ Leave(r) /\ UNCHANGED rows
              \/ UNCHANGED lockBy /\ \E n : Set(r, n) /\ MemOk(binlog, n) /\ Begins(rd[r], n)
<1> DEFINE m == rd[r]
<1>1. UNCHANGED <<binlog, nextId, out, issued, kills>> /\ m.pc = "begin" /\ BegunRows
  BY DEF Begin, BegunRows
<1>2. /\ MemOk(binlog, m) /\ m \in Memory /\ m.cont = "none" /\ m.began = <<0, 0>> /\ m.pend = <<>>
      /\ m.seqNo = 0 /\ m.tables = NoTables
  BY <1>1, MemoryOk DEF MemOk
<1>3. ASSUME NEW g \in 0 .. Len(binlog), Set(r, StartAt(m, g))
      PROVE  \E n : Set(r, n) /\ MemOk(binlog, n) /\ Begins(m, n)
  <2> DEFINE p == <<g, Size(g)>>
             n == StartAt(m, g)
  <2>1. p \in Position /\ p[1] <= Len(binlog) /\ p[2] <= LenOf(binlog, p[1])
    BY LogIs DEF Position
  <2>2. n = [m EXCEPT !.pc = "reload", !.cont = "start", !.pos = p]
    BY DEF StartAt
  <2> HIDE DEF p
  <2>3. /\ n \in Memory /\ n.pos = p /\ Begins(m, n)
    <3> HIDE DEF m
    <3> QED
      BY <1>2, <2>1, <2>2 DEF Memory, Begins, Pcs, Conts
  <2> HIDE DEF n
  <2>4. MemOk(binlog, n)
    BY <2>1, <2>3 DEF MemOk, Begins, InRow, InEvent
  <2> QED
    BY <1>3, <2>3, <2>4 DEF n
<1>4. Len(binlog) \in 0 .. Len(binlog)
  BY LogIs
<1>5. \A t \in Registered : rows[t].gtid # NoGtid => rows[t].gtid \in 0 .. Len(binlog)
  <2>1. \A t \in Registered : rows[t].gtid \in Nat \cup {NoGtid} /\ rows[t].gtid <= Len(binlog)
    BY DEF Typed, Row
  <2> QED
    BY <2>1, LogIs
<1>6. \/ \E t \in Registered : rows[t].gtid # NoGtid /\ Set(r, StartAt(m, rows[t].gtid)) /\ UNCHANGED lockBy
      \/ Set(r, StartAt(m, Len(binlog))) /\ UNCHANGED lockBy
      \/ Leave(r) /\ UNCHANGED rows
  BY DEF Begin
<1> QED
  BY <1>1, <1>3, <1>4, <1>5, <1>6

LEMMA LeaveIs ==
    ASSUME Typed, NEW r \in Readers, Leave(r)
    PROVE  Set(r, IdleReader) /\ MemOk(binlog, IdleReader)
<1>1. IdleReader \in Memory
  BY DEF Memory, IdleReader, Pcs, Conts, Position
<1> QED
  BY <1>1, LogIs DEF Leave, MemOk, IdleReader, InRow, InEvent, LenOf, NoTables

\* The steps that change the program counter or the flag.
Small(r, n) ==
    LET m == rd[r]
    IN  /\ n.pos = m.pos /\ n.began = m.began /\ n.seqNo = m.seqNo /\ n.tables = m.tables /\ n.pend = m.pend
        /\ n.cur = m.cur /\ n.row = m.row
        /\ \/ m.pc = "idle" /\ n.pc = "begin" /\ n.cont = m.cont /\ n.down = m.down
           \/ m.pc = "select" /\ n.pc = "reload" /\ n.cont = "tick" /\ n.down = m.down
           \/ m.pc \in {"select", "batch"} /\ n.pc \in {"commit", "finish"} /\ n.cont = m.cont /\ n.down = m.down
           \/ m.pc # "idle" /\ n.pc = m.pc /\ n.cont = m.cont /\ n.down

LEMMA SmallIs ==
    ASSUME Typed, NEW r \in Readers,
           LockCluster(r) \/ Tick(r) \/ FetchFailed(r) \/ EndBatch(r) \/ Stop(r) \/ Shutdown(r)
    PROVE  /\ UNCHANGED <<binlog, rows, nextId, out, issued, kills>>
           /\ \E n : Set(r, n) /\ MemOk(binlog, n) /\ Small(r, n)
<1> DEFINE m == rd[r]
<1>1. MemOk(binlog, m) /\ m \in Memory
  BY MemoryOk
<1>2. UNCHANGED <<binlog, rows, nextId, out, issued, kills>>
  BY DEF LockCluster, Tick, FetchFailed, EndBatch, Stop, Shutdown
<1>3. CASE LockCluster(r)
  <2> DEFINE n == [m EXCEPT !.pc = "begin"]
  <2>1. Set(r, n) /\ m.pc = "idle"
    <3>1. rd' = [rd EXCEPT ![r].pc = "begin"] /\ m.pc = "idle"
      BY <1>3 DEF LockCluster
    <3> QED
      BY <3>1 DEF Set
  <2>2. n \in Memory /\ Small(r, n) /\ n.pc = "begin" /\ n.cont = m.cont /\ Same(m, n)
    BY <1>1, <2>1 DEF Memory, Small, Same, Pcs
  <2> HIDE DEF n
  <2>3. MemOk(binlog, n)
    BY <1>1, <2>1, <2>2 DEF MemOk, InRow, InEvent, Same
  <2> QED
    BY <1>2, <2>1, <2>2, <2>3
<1>4. CASE Tick(r)
  <2> DEFINE n == UpdateState(m, "tick")
  <2>1. Set(r, n) /\ m.pc = "select"
    BY <1>4 DEF Tick
  <2>2. /\ m.pos[1] <= Len(binlog) /\ m.pos[2] <= LenOf(binlog, m.pos[1])
    BY <1>1 DEF MemOk
  <2>3. /\ MemOk(binlog, n) /\ Same(m, n) /\ n.pc = "reload" /\ n.cont = "tick"
        /\ n.cur = m.cur /\ n.row = m.row
    BY <1>1, <2>2, UpdateIs DEF Conts
  <2> HIDE DEF n
  <2>4. Small(r, n)
    BY <2>1, <2>3 DEF Small, Same
  <2> QED
    BY <1>2, <2>1, <2>3, <2>4
<1>5. CASE FetchFailed(r) \/ EndBatch(r) \/ Stop(r)
  <2>1. PICK pc \in {"commit", "finish"} : Set(r, [m EXCEPT !.pc = pc]) /\ m.pc \in {"select", "batch"}
    BY <1>5 DEF FetchFailed, EndBatch, Stop, BatchFailed
  <2> DEFINE n == [m EXCEPT !.pc = pc]
  <2>2. n \in Memory /\ Small(r, n) /\ n.pc = pc /\ n.cont = m.cont /\ Same(m, n)
    BY <1>1, <2>1 DEF Memory, Small, Same, Pcs
  <2>3. Set(r, n)
    BY <2>1
  <2> HIDE DEF n
  <2>4. MemOk(binlog, n)
    BY <1>1, <2>1, <2>2 DEF MemOk, InRow, InEvent, Same
  <2> QED
    BY <1>2, <2>2, <2>3, <2>4
<1>6. CASE Shutdown(r)
  <2> DEFINE n == [m EXCEPT !.down = TRUE]
  <2>1. Set(r, n) /\ m.pc # "idle"
    BY <1>6 DEF Shutdown
  <2>2. /\ n \in Memory /\ n.pc = m.pc /\ n.cont = m.cont /\ n.pos = m.pos /\ n.began = m.began
        /\ n.seqNo = m.seqNo /\ n.tables = m.tables /\ n.pend = m.pend /\ n.cur = m.cur
        /\ n.row = m.row /\ n.i = m.i
    BY <1>1 DEF Memory
  <2>3. n.down
    BY <1>1 DEF Memory
  <2> HIDE DEF n
  <2>4. Small(r, n)
    BY <2>1, <2>2, <2>3 DEF Small
  <2>5. MemOk(binlog, n)
    BY <1>1, <2>2 DEF MemOk, InRow, InEvent
  <2> QED
    BY <1>2, <2>1, <2>4, <2>5
<1> QED
  BY <1>3, <1>4, <1>5, <1>6

-----------------------------------------------------------------------------
(* Types. *)

LEMMA SavedTyped ==
    ASSUME Typed, NEW m \in Memory, m.pos[1] <= Len(binlog), rows' = Saved(m)
    PROVE  /\ rows' = [t \in Tables |-> rows'[t]]
           /\ \A t \in Tables : rows'[t] # None =>
                 /\ t \in Registered /\ rows'[t] \in Row /\ rows'[t].id = rows[t].id
                 /\ rows'[t].gtid = m.pos[1] /\ rows'[t].seq = m.seqNo
<1>1. rows' = [t \in Tables |-> IF rows[t] = None THEN None
                                ELSE [rows[t] EXCEPT !.gtid = m.pos[1], !.seq = m.seqNo]]
  BY DEF Saved
<1>2. m.pos[1] \in Nat /\ m.seqNo \in Nat
  BY DEF Memory, Position
<1>3. ASSUME NEW t \in Tables, rows'[t] # None
      PROVE  /\ t \in Registered /\ rows'[t] \in Row /\ rows'[t].id = rows[t].id
             /\ rows'[t].gtid = m.pos[1] /\ rows'[t].seq = m.seqNo
  <2>1. t \in Registered /\ rows[t] \in Row /\ rows[t] # None
    BY <1>1, <1>3 DEF Typed, Registered
  <2>2. rows'[t] = [rows[t] EXCEPT !.gtid = m.pos[1], !.seq = m.seqNo]
    BY <1>1, <2>1
  <2> QED
    BY <1>2, <2>1, <2>2 DEF Row
<1> QED
  BY <1>1, <1>3

LEMMA BegunTyped ==
    ASSUME Typed, BegunRows, rows' # rows
    PROVE  /\ rows' = [t \in Tables |-> rows'[t]]
           /\ \A t \in Tables : rows'[t] # None =>
                 /\ t \in Registered /\ rows'[t] \in Row /\ rows'[t].id = rows[t].id
                 /\ rows'[t].gtid = Len(binlog) /\ rows'[t].seq = rows[t].seq
<1>1. rows' = [t \in Tables |-> IF rows[t] = None THEN None ELSE [rows[t] EXCEPT !.gtid = Len(binlog)]]
  BY DEF BegunRows
<1>2. Len(binlog) \in Nat
  BY LogIs
<1>3. ASSUME NEW t \in Tables, rows'[t] # None
      PROVE  /\ t \in Registered /\ rows'[t] \in Row /\ rows'[t].id = rows[t].id
             /\ rows'[t].gtid = Len(binlog) /\ rows'[t].seq = rows[t].seq
  <2>1. t \in Registered /\ rows[t] \in Row /\ rows[t] # None
    BY <1>1, <1>3 DEF Typed, Registered
  <2>2. rows'[t] = [rows[t] EXCEPT !.gtid = Len(binlog)]
    BY <1>1, <2>1
  <2> QED
    BY <1>2, <2>1, <2>2 DEF Row
<1> QED
  BY <1>1, <1>3

\* A step that changes the memory of one reader, and numbers in the rows.
LEMMA TypedStep ==
    ASSUME Typed, NEW r \in Readers, NEW n, Set(r, n), MemOk(binlog, n), UNCHANGED <<binlog, nextId>>,
           \/ rows' = rows
           \/ /\ rows' = [t \in Tables |-> rows'[t]]
              /\ \A t \in Tables : rows'[t] # None =>
                    /\ t \in Registered /\ rows'[t] \in Row /\ rows'[t].id = rows[t].id
                    /\ rows'[t].gtid <= Len(binlog),
           issued' \in [1 .. MaxId -> Nat]
    PROVE  Typed'
<1>1. rd' = [q \in Readers |-> IF q = r THEN n ELSE rd[q]]
  BY SetIs
<1>2. \A q \in Readers : MemOk(binlog', rd'[q])
  BY <1>1 DEF Typed
<1>3. rd' = [q \in Readers |-> rd'[q]]
  BY <1>1
<1>4. \A t \in Registered' : rows'[t] \in Row /\ rows'[t].gtid <= Len(binlog') /\ rows'[t].id < nextId'
  <2>1. \A t \in Registered : rows[t] \in Row /\ rows[t].gtid <= Len(binlog) /\ rows[t].id < nextId
    BY DEF Typed
  <2> QED
    BY <2>1 DEF Registered
<1>5. rows' = [t \in Tables |-> rows'[t]]
  BY DEF Typed
<1>6. binlog' \in Seq(Transactions) /\ nextId' \in Nat \ {0}
  BY DEF Typed
<1> QED
  BY <1>2, <1>3, <1>4, <1>5, <1>6 DEF Typed

\* A longer binlog.
LEMMA MemLonger ==
    ASSUME Typed, NEW tx \in Transactions, NEW m, MemOk(binlog, m)
    PROVE  MemOk(Append(binlog, tx), m)
<1> DEFINE b == Append(binlog, tx)
<1>1. binlog \in Seq(Transactions) /\ Len(binlog) \in Nat
  BY LogIs DEF Typed
<1>2. Len(b) = Len(binlog) + 1 /\ \A g \in 1 .. Len(binlog) : b[g] = binlog[g]
  BY <1>1
<1> HIDE DEF b
<1>3. Positions(binlog) \subseteq Positions(b) /\ \A p \in Positions(binlog) : At(b, p) = At(binlog, p)
  BY <1>1, <1>2 DEF Positions, At
<1>4. m.pos[1] \in Nat /\ m.pos[1] <= Len(binlog)
  BY DEF MemOk, Memory, Position
<1>5. LenOf(b, m.pos[1]) = LenOf(binlog, m.pos[1]) /\ m.pos[1] <= Len(b)
  BY <1>1, <1>2, <1>4 DEF LenOf
<1>6. InRow(m) => InEvent(m)
  BY DEF InRow, InEvent
<1>7. MemOk(b, m)
  BY <1>3, <1>5, <1>6 DEF MemOk
<1> QED
  BY <1>7 DEF b

LEMMA TypedLeave ==
    ASSUME Typed, NEW r \in Readers, Leave(r), UNCHANGED <<binlog, nextId, issued>>,
           \/ rows' = rows
           \/ /\ rows' = [t \in Tables |-> rows'[t]]
              /\ \A t \in Tables : rows'[t] # None =>
                    /\ t \in Registered /\ rows'[t] \in Row /\ rows'[t].id = rows[t].id
                    /\ rows'[t].gtid <= Len(binlog)
    PROVE  Typed'
<1>1. Set(r, IdleReader) /\ MemOk(binlog, IdleReader)
  BY LeaveIs
<1>2. issued' \in [1 .. MaxId -> Nat]
  BY DEF Typed
<1> QED
  BY <1>1, <1>2, TypedStep

LEMMA TypedFailed ==
    ASSUME Typed, NEW r \in Readers, Failed(r), UNCHANGED <<binlog, nextId, issued>>,
           \/ rows' = rows
           \/ /\ rows' = [t \in Tables |-> rows'[t]]
              /\ \A t \in Tables : rows'[t] # None =>
                    /\ t \in Registered /\ rows'[t] \in Row /\ rows'[t].id = rows[t].id
                    /\ rows'[t].gtid <= Len(binlog)
    PROVE  Typed'
<1>1. issued' \in [1 .. MaxId -> Nat]
  BY DEF Typed
<1>2. CASE Leave(r)
  BY <1>2, TypedLeave
<1>3. CASE \E n : Set(r, n) /\ MemOk(binlog, n)
  BY <1>1, <1>3, TypedStep
<1> QED
  BY <1>2, <1>3 DEF Failed

LEMMA TypedReader ==
    ASSUME Typed, NEW r \in Readers,
           ReaderStep(r) \/ FetchFailed(r) \/ Shutdown(r) \/ Crash(r)
    PROVE  Typed'
<1>1. issued \in [1 .. MaxId -> Nat] /\ MemOk(binlog, rd[r]) /\ rd[r] \in Memory
  BY MemoryOk DEF Typed
<1>2. rd[r].pos[1] <= Len(binlog) /\ rd[r].pos[1] \in Nat /\ rd[r].seqNo \in Nat
  BY <1>1 DEF MemOk, Memory, Position
<1>3. rows' = Saved(rd[r]) =>
        /\ rows' = [t \in Tables |-> rows'[t]]
        /\ \A t \in Tables : rows'[t] # None =>
              /\ t \in Registered /\ rows'[t] \in Row /\ rows'[t].id = rows[t].id
              /\ rows'[t].gtid <= Len(binlog)
  BY <1>1, <1>2, SavedTyped
<1>4. CASE LockCluster(r) \/ Tick(r) \/ FetchFailed(r) \/ EndBatch(r) \/ Stop(r) \/ Shutdown(r)
  BY <1>1, <1>4, SmallIs, TypedStep
<1>5. CASE Begin(r)
  <2>1. BegunRows /\ UNCHANGED <<binlog, nextId, issued>>
    BY <1>5, BeginIs
  <2>2. \/ rows' = rows
        \/ /\ rows' = [t \in Tables |-> rows'[t]]
           /\ \A t \in Tables : rows'[t] # None =>
                 /\ t \in Registered /\ rows'[t] \in Row /\ rows'[t].id = rows[t].id
                 /\ rows'[t].gtid <= Len(binlog)
    BY <2>1, BegunTyped, LogIs
  <2>3. CASE Leave(r)
    BY <2>1, <2>2, <2>3, TypedLeave
  <2>4. CASE \E n : Set(r, n) /\ MemOk(binlog, n)
    BY <1>1, <2>1, <2>2, <2>4, TypedStep
  <2> QED
    BY <1>5, <2>3, <2>4, BeginIs
<1>6. CASE Reload(r)
  <2>1. UNCHANGED <<binlog, rows, nextId, issued>>
    BY <1>6, ReloadIs
  <2>2. CASE Failed(r)
    BY <2>1, <2>2, TypedFailed
  <2>3. CASE \E n : Set(r, n) /\ MemOk(binlog, n)
    BY <1>1, <2>1, <2>3, TypedStep
  <2> QED
    BY <1>6, <2>2, <2>3, ReloadIs
<1>7. CASE Save(r)
  <2>1. UNCHANGED <<binlog, nextId, issued>>
    BY <1>7, SaveIs
  <2>2. CASE rows' \in {rows, Saved(rd[r])} /\ Failed(r)
    BY <1>3, <2>1, <2>2, TypedFailed
  <2>3. CASE rows' = Saved(rd[r]) /\ \E n : Set(r, n) /\ MemOk(binlog, n)
    BY <1>1, <1>3, <2>1, <2>3, TypedStep
  <2> QED
    BY <1>7, <2>2, <2>3, SaveIs
<1>8. CASE TakeEvent(r)
  <2>1. UNCHANGED <<binlog, rows, nextId, issued>> /\ \E n : Set(r, n) /\ MemOk(binlog, n)
    BY <1>8, TakeEventIs
  <2> QED
    BY <1>1, <2>1, TypedStep
<1>9. CASE ProduceRow(r)
  <2>1. UNCHANGED <<binlog, rows, nextId>> /\ AtRow(binlog, rd[r])
    BY <1>9, ProduceRowIs
  <2>2. PICK n : Set(r, n) /\ MemOk(binlog, n) /\ Produced(rd[r], n)
    BY <1>9, ProduceRowIs
  <2>3. n.seqNo \in Nat /\ rd[r].cur.id \in 1 .. MaxId
    BY <2>1, <2>2 DEF AtRow, MemOk, Memory, Entry
  <2>4. issued' \in [1 .. MaxId -> Nat]
    BY <1>1, <2>2, <2>3 DEF Produced
  <2> QED
    BY <2>1, <2>2, <2>4, TypedStep
<1>10. CASE AlterTable(r)
  <2>1. UNCHANGED <<binlog, rows, nextId, issued>>
    BY <1>10, AlterTableIs
  <2>2. CASE Leave(r)
    BY <2>1, <2>2, TypedLeave
  <2>3. CASE \E n : Set(r, n) /\ MemOk(binlog, n)
    BY <1>1, <2>1, <2>3, TypedStep
  <2> QED
    BY <1>10, <2>2, <2>3, AlterTableIs
<1>11. CASE Commit(r)
  <2>1. UNCHANGED <<binlog, rows, nextId, issued>> /\ \E n : Set(r, n) /\ MemOk(binlog, n)
    BY <1>11, CommitIs
  <2> QED
    BY <1>1, <2>1, TypedStep
<1>12. CASE Finish(r) \/ Crash(r)
  <2>1. UNCHANGED <<binlog, nextId, issued>> /\ rows' \in {rows, Saved(rd[r])} /\ Leave(r)
    BY <1>12 DEF Finish, Crash
  <2> QED
    BY <1>3, <2>1, TypedLeave
<1> QED
  BY <1>4, <1>5, <1>6, <1>7, <1>8, <1>9, <1>10, <1>11, <1>12 DEF ReaderStep

LEMMA TypedNext == Typed /\ [Next]_vars => Typed'
<1> SUFFICES ASSUME Typed, [Next]_vars PROVE Typed'
  OBVIOUS
<1>1. CASE UNCHANGED <<binlog, rows, nextId, rd, issued>>
  BY <1>1 DEF Typed, Registered
<1>2. CASE CommitTx
  <2>1. PICK tx \in Transactions : binlog' = Append(binlog, tx)
    BY <1>2 DEF CommitTx
  <2>2. UNCHANGED <<rows, nextId, rd, issued>>
    BY <1>2 DEF CommitTx
  <2>3. binlog' \in Seq(Transactions) /\ Len(binlog') >= Len(binlog) /\ Len(binlog) \in Nat /\ Len(binlog') \in Nat
    BY <2>1 DEF Typed
  <2>4. \A r \in Readers : MemOk(binlog', rd'[r])
    BY <2>1, <2>2, MemLonger, MemoryOk
  <2>5. \A t \in Registered : rows[t].gtid \in Int /\ rows[t].gtid <= Len(binlog')
    <3>1. \A t \in Registered : rows[t].gtid \in Int
      <4>1. \A t \in Registered : rows[t].gtid \in Nat \cup {NoGtid}
        BY DEF Typed, Row
      <4> QED
        BY <4>1 DEF NoGtid
    <3>2. \A t \in Registered : rows[t].gtid <= Len(binlog)
      BY DEF Typed
    <3> QED
      BY <2>3, <3>1, <3>2
  <2> QED
    BY <2>2, <2>3, <2>4, <2>5 DEF Typed, Registered
<1>3. ASSUME NEW t \in Tables, Register(t)
      PROVE  Typed'
  <2> DEFINE new == [id |-> nextId, gtid |-> NoGtid, seq |-> 0]
  <2>1. /\ rows' = [u \in Tables |-> IF u = t THEN new ELSE rows[u]]
        /\ nextId' = nextId + 1 /\ nextId <= MaxId /\ UNCHANGED <<binlog, rd, issued>>
    BY <1>3 DEF Register, Typed
  <2>2. new \in Row /\ new.gtid <= Len(binlog) /\ new.id < nextId' /\ nextId' \in Nat \ {0}
    <3>1. nextId \in 1 .. MaxId /\ nextId' \in Nat \ {0} /\ nextId < nextId' /\ Len(binlog) \in Nat
      BY <2>1, BoundsAssumption, LogIs DEF Typed
    <3> QED
      BY <3>1 DEF Row, NoGtid
  <2> HIDE DEF new
  <2>3. \A u \in Registered : rows[u] \in Row /\ rows[u].gtid <= Len(binlog) /\ rows[u].id < nextId'
    <3>1. \A u \in Registered : rows[u] \in Row /\ rows[u].gtid <= Len(binlog) /\ rows[u].id < nextId
      BY DEF Typed
    <3>2. \A u \in Registered : rows[u].id \in Nat
      BY <3>1 DEF Row
    <3>3. nextId \in Nat
      BY DEF Typed
    <3> QED
      BY <2>1, <3>1, <3>2, <3>3
  <2>4. \A u \in Registered' : rows'[u] \in Row /\ rows'[u].gtid <= Len(binlog') /\ rows'[u].id < nextId'
    BY <2>1, <2>2, <2>3 DEF Registered
  <2>5. rows' = [u \in Tables |-> rows'[u]]
    BY <2>1
  <2> QED
    BY <2>1, <2>2, <2>4, <2>5 DEF Typed
<1>4. ASSUME NEW t \in Tables, Deregister(t)
      PROVE  Typed'
  <2>1. /\ rows' = [u \in Tables |-> IF u = t THEN None ELSE rows[u]]
        /\ UNCHANGED <<binlog, nextId, rd, issued>>
    BY <1>4 DEF Deregister, Typed
  <2> QED
    BY <2>1 DEF Typed, Registered
<1>5. CASE LoseLock
  BY <1>1, <1>5 DEF LoseLock
<1> QED
  BY <1>1, <1>2, <1>3, <1>4, <1>5, TypedReader DEF Next, vars

LEMMA InitTyped == Init => Typed
<1> SUFFICES ASSUME Init PROVE Typed
  OBVIOUS
<1>1. IdleReader \in Memory
  BY DEF Memory, IdleReader, Pcs, Conts, Position
<1>2. MemOk(binlog, IdleReader)
  <2>1. binlog = <<>>
    BY DEF Init
  <2>2. Len(binlog) = 0
    BY <2>1
  <2> QED
    BY <1>1, <2>2 DEF MemOk, IdleReader, InRow, InEvent, LenOf, NoTables
<1>3. Registered = {} /\ rows = [t \in Tables |-> rows[t]] /\ nextId \in Nat \ {0}
  BY DEF Init, Registered
<1>4. rd = [r \in Readers |-> IdleReader] /\ issued \in [1 .. MaxId -> Nat] /\ binlog \in Seq(Transactions)
  BY DEF Init
<1> QED
  BY <1>2, <1>3, <1>4 DEF Typed

-----------------------------------------------------------------------------
(* Nothing is dropped. *)

\* One version of each table.
OneVersion == \A t, u \in Tables : NameOf[t] = NameOf[u] => t = u

LEMMA RangeOfEmpty == Range(<<>>) = {}
BY DEF Range

LEMMA PositionsAre ==
    ASSUME NEW b, NEW p \in Positions(b), Len(b) \in Nat, \A g \in 1 .. Len(b) : Len(b[g]) \in Nat
    PROVE  /\ p = <<p[1], p[2]>> /\ p[1] \in Nat /\ p[2] \in Nat /\ p[1] >= 1 /\ p[2] >= 1
           /\ p[1] <= Len(b) /\ p[2] <= Len(b[p[1]])
<1>1. PICK g \in 1 .. Len(b) : \E k \in 1 .. Len(b[g]) : p = <<g, k>>
  BY DEF Positions
<1>2. PICK k \in 1 .. Len(b[g]) : p = <<g, k>>
  BY <1>1
<1> QED
  BY <1>2

LEMMA EvsGrow ==
    ASSUME Typed, NEW n, NEW from \in Position, NEW to \in Position, NEW to2 \in Position, ~Before(to2, to)
    PROVE  Evs(binlog, n, from, to) \subseteq Evs(binlog, n, from, to2)
<1>1. \A p \in Positions(binlog) : p \in Position
  BY LogIs
<1>2. ASSUME NEW p \in Position, ~Before(to, p)
      PROVE  ~Before(to2, p)
  BY <1>2 DEF Before, Position
<1> QED
  BY <1>1, <1>2 DEF Evs

LEMMA EvsNone ==
    ASSUME Typed, NEW n, NEW from \in Position, NEW to \in Position, ~Before(from, to)
    PROVE  Evs(binlog, n, from, to) = {}
<1>1. \A p \in Positions(binlog) : p \in Position
  BY LogIs
<1>2. ASSUME NEW p \in Position, Before(from, p)
      PROVE  Before(to, p)
  BY <1>2 DEF Before, Position
<1> QED
  BY <1>1, <1>2 DEF Evs

LEMMA GotGrows ==
    ASSUME NEW o, NEW o2, o \subseteq o2, NEW m, NEW n, Range(m.pend) \subseteq Range(n.pend)
    PROVE  Got(o, m) \subseteq Got(o2, n)
BY DEF Got

LEMMA DropKeeps ==
    ASSUME NEW b, NEW o, NEW o2, o \subseteq o2, NEW m, NEW n, DropOk(b, o, m),
           n.pos = m.pos, n.began = m.began, n.tables = m.tables,
           n.cont = "start" => m.cont = "start",
           n.pc = "select" \/ n.cont = "tick" => m.pc = "select" \/ m.cont = "tick",
           ~n.down => ~m.down,
           \/ n.down \/ n.pc = "finish"
           \/ /\ n.pend = m.pend /\ m.pc # "finish"
              /\ InRow(m) => InRow(n) /\ n.cur = m.cur /\ n.row = m.row
    PROVE  DropOk(b, o2, n)
<1>1. ASSUME ~n.down, NEW x \in Names, NEW e \in Range(n.tables[x])
      PROVE  Handed(b, o2, e, x, n.began)
  BY <1>1 DEF DropOk, Handed
<1>2. ASSUME ~n.down, n.pc # "finish", NEW x \in Names, NEW e \in Range(n.tables[x])
      PROVE  HandedSoFar(b, Got(o2, n), n, e, x)
  <2>1. HandedSoFar(b, Got(o, m), m, e, x)
    BY <1>2 DEF DropOk
  <2>2. Got(o, m) \subseteq Got(o2, n)
    BY <1>2, GotGrows
  <2> QED
    BY <1>2, <2>1, <2>2 DEF HandedSoFar
<1> QED
  BY <1>1, <1>2 DEF DropOk

LEMMA DropEmpty ==
    ASSUME NEW b, NEW o, NEW m \in Memory, m.tables = NoTables, m.began = <<0, 0>>,
           m.pc # "select", m.cont # "tick"
    PROVE  DropOk(b, o, m)
<1>1. \A n \in Names : m.tables[n] = <<>> /\ Range(m.tables[n]) = {} /\ Len(m.tables[n]) <= 1
  BY RangeOfEmpty DEF NoTables
<1>2. ~Before(m.pos, m.began)
  BY DEF Before, Memory, Position
<1> QED
  BY <1>1, <1>2 DEF DropOk

LEMMA DropLonger ==
    ASSUME Typed, NEW tx \in Transactions, NEW o, NEW m, MemOk(binlog, m), DropOk(binlog, o, m)
    PROVE  DropOk(Append(binlog, tx), o, m)
<1> DEFINE b == Append(binlog, tx)
<1>1. binlog \in Seq(Transactions) /\ Len(binlog) \in Nat
  BY LogIs DEF Typed
<1>2. Len(b) = Len(binlog) + 1 /\ \A g \in 1 .. Len(binlog) : b[g] = binlog[g]
  BY <1>1
<1>3. \A g \in 1 .. Len(b) : Len(b[g]) \in Nat
  <2>1. b \in Seq(Transactions)
    BY <1>1
  <2> QED
    BY <2>1, TransactionsAssumption
<1> HIDE DEF b
<1>4. /\ m.pos \in Position /\ m.pos[1] \in Nat /\ m.pos[1] <= Len(binlog) /\ m.pos[2] \in Nat
      /\ m.began \in Position /\ m.began[1] \in Nat /\ m.began[2] \in Nat /\ m.began[1] <= m.pos[1]
  <2>1. m.pos \in Position /\ m.pos[1] <= Len(binlog) /\ m.began \in Position
    BY DEF MemOk, Memory
  <2>2. m.pos[1] \in Nat /\ m.pos[2] \in Nat /\ m.began[1] \in Nat /\ m.began[2] \in Nat
    BY <2>1 DEF Position
  <2>3. ~Before(m.pos, m.began)
    BY DEF DropOk
  <2> QED
    BY <2>1, <2>2, <2>3 DEF Before
<1>5. ASSUME NEW x, NEW from, NEW to, to[1] \in Nat, to[1] <= Len(binlog), NEW p \in Evs(b, x, from, to)
      PROVE  p \in Evs(binlog, x, from, to) /\ At(b, p) = At(binlog, p)
  <2>1. p \in Positions(b) /\ Before(from, p) /\ ~Before(to, p) /\ At(b, p).name = x /\ At(b, p).kind # "alter"
    BY DEF Evs
  <2>2. /\ p = <<p[1], p[2]>> /\ p[1] \in Nat /\ p[2] \in Nat /\ p[1] >= 1 /\ p[2] >= 1
        /\ p[1] <= Len(b) /\ p[2] <= Len(b[p[1]])
    BY <1>1, <1>2, <1>3, <2>1, PositionsAre
  <2>3. p[1] <= Len(binlog)
    BY <1>1, <1>5, <2>1, <2>2 DEF Before
  <2>4. p[1] \in 1 .. Len(binlog) /\ p[2] \in 1 .. Len(binlog[p[1]]) /\ b[p[1]] = binlog[p[1]]
    <3>1. p[1] \in 1 .. Len(binlog) /\ b[p[1]] = binlog[p[1]]
      BY <1>1, <1>2, <2>2, <2>3
    <3>2. Len(binlog[p[1]]) \in Nat
      BY <3>1, LogIs
    <3> QED
      BY <2>2, <3>1, <3>2
  <2>5. p \in Positions(binlog) /\ At(b, p) = At(binlog, p)
    BY <2>2, <2>4 DEF Positions, At
  <2> QED
    BY <2>1, <2>5 DEF Evs
<1>6. ASSUME ~m.down, NEW x \in Names, NEW e \in Range(m.tables[x])
      PROVE  Handed(b, o, e, x, m.began)
  <2>1. m.began[1] <= Len(binlog)
    BY <1>1, <1>4
  <2>2. Handed(binlog, o, e, x, m.began)
    BY <1>6 DEF DropOk
  <2> QED
    BY <1>4, <1>5, <2>1, <2>2 DEF Handed
<1>7. ASSUME ~m.down, m.pc # "finish", NEW x \in Names, NEW e \in Range(m.tables[x])
      PROVE  HandedSoFar(b, Got(o, m), m, e, x)
  <2>1. HandedSoFar(binlog, Got(o, m), m, e, x)
    BY <1>7 DEF DropOk
  <2> QED
    BY <1>4, <1>5, <2>1 DEF HandedSoFar
<1>8. DropOk(b, o, m)
  BY <1>6, <1>7 DEF DropOk
<1> QED
  BY <1>8 DEF b

LEMMA DropReload ==
    ASSUME Typed, OneVersion, NEW m, MemOk(binlog, m), NEW n, MemOk(binlog, n), NEW o,
           DropOk(binlog, o, m), m.pc = "reload", Reloads(m, n)
    PROVE  DropOk(binlog, o, n)
<1>1. /\ m \in Memory /\ m.pos \in Position /\ m.began \in Position
      /\ \A x \in Names : m.tables[x] \in Seq(Entry)
  BY DEF MemOk, Memory
<1>2. /\ n.pos = m.pos /\ n.began = m.began /\ n.down = m.down /\ n.pend = m.pend
      /\ n.pc = "save" /\ n.cont = m.cont /\ n.cur = m.cur /\ n.row = m.row
      /\ \A x \in Names : n.tables[x] = Reloaded(m.tables[x], x, m.pos)
  BY DEF Reloads
<1>3. ASSUME NEW x \in Names
      PROVE  /\ Len(n.tables[x]) <= 1
             /\ \A e \in Range(n.tables[x]) : e \in Range(m.tables[x]) \/ (NameOf[e.tab] = x /\ e.since = m.pos)
  <2>1. Len(m.tables[x]) <= 1 /\ \A e \in Range(m.tables[x]) : NameOf[e.tab] = x
    BY DEF DropOk
  <2>2. n.tables[x] = Reloaded(m.tables[x], x, m.pos) /\ m.tables[x] \in Seq(Entry) /\ m.pos \in Position
    BY <1>1, <1>2
  <2>3. \A t, u \in Tables : NameOf[t] = NameOf[u] => t = u
    BY DEF OneVersion
  <2>4. /\ \A e \in Range(Reloaded(m.tables[x], x, m.pos)) :
              \/ e \in Range(m.tables[x])
              \/ \E t \in Registered : NameOf[t] = x /\ e = Made(t, m.pos)
        /\ Len(Reloaded(m.tables[x], x, m.pos)) <= 1
    <3> DEFINE s == m.tables[x]
               p == m.pos
    <3>1. s \in Seq(Entry) /\ p \in Position
      BY <2>2
    <3>2. Len(s) <= 1 /\ \A e \in Range(s) : NameOf[e.tab] = x
      BY <2>1
    <3> HIDE DEF s, p
    <3> QED
      BY <3>1, <3>2, <2>3, ReloadedIs DEF s, p
  <2> QED
    BY <2>2, <2>4 DEF Made
<1>4. ~Before(m.pos, m.began) /\ ~Before(m.pos, m.pos)
  BY <1>1 DEF DropOk, Before, Position
<1>5. \A x \in Names : Evs(binlog, x, m.pos, m.began) = {} /\ Evs(binlog, x, m.pos, m.pos) = {}
  BY <1>1, <1>4, EvsNone
<1>6. ASSUME ~n.down, NEW x \in Names, NEW e \in Range(n.tables[x])
      PROVE  Handed(binlog, o, e, x, n.began) /\ HandedSoFar(binlog, Got(o, n), n, e, x)
  <2>1. CASE e \in Range(m.tables[x])
    <3>1. Handed(binlog, o, e, x, m.began) /\ HandedSoFar(binlog, Got(o, m), m, e, x)
      BY <1>2, <1>6, <2>1 DEF DropOk
    <3>2. Got(o, n) = Got(o, m) /\ (InRow(m) => InRow(n))
      BY <1>2 DEF Got, InRow
    <3> QED
      BY <1>2, <3>1, <3>2 DEF Handed, HandedSoFar
  <2>2. CASE e.since = m.pos
    BY <1>2, <1>5, <2>2 DEF Handed, HandedSoFar
  <2> QED
    BY <1>3, <2>1, <2>2
<1>7. n.cont = "start" => \A x \in Names : \A e \in Range(n.tables[x]) : e.since = n.pos
  BY <1>2, <1>3 DEF DropOk
<1>8. \A x \in Names : Len(n.tables[x]) <= 1 /\ \A e \in Range(n.tables[x]) : NameOf[e.tab] = x
  BY <1>3 DEF DropOk
<1>9. ~Before(n.pos, n.began) /\ (n.pc = "select" \/ n.cont = "tick" => n.began = n.pos)
  BY <1>2 DEF DropOk
<1> QED
  BY <1>6, <1>7, <1>8, <1>9 DEF DropOk

LEMMA DropSave ==
    ASSUME Typed, NEW m, MemOk(binlog, m), NEW n, NEW o, DropOk(binlog, o, m), m.pc = "save", Saves(m, n)
    PROVE  DropOk(binlog, o, n)
<1>1. m.pos \in Position /\ ~Before(m.pos, m.pos)
  BY DEF MemOk, Memory, Before, Position
<1>2. /\ n.pos = m.pos /\ n.down = m.down /\ n.pend = m.pend /\ n.tables = m.tables
      /\ n.cont = "none" /\ n.cur = m.cur /\ n.row = m.row
      /\ n.began = IF m.cont = "start" THEN m.pos ELSE m.began
      /\ n.pc # "finish" /\ (n.pc = "select" => m.cont \in {"start", "tick"})
      /\ (m.cont = "row" => n.pc = "push")
  BY DEF Saves
<1>3. ASSUME ~n.down, NEW x \in Names, NEW e \in Range(n.tables[x])
      PROVE  Handed(binlog, o, e, x, n.began) /\ HandedSoFar(binlog, Got(o, n), n, e, x)
  <2>1. Handed(binlog, o, e, x, m.began) /\ HandedSoFar(binlog, Got(o, m), m, e, x)
    BY <1>2, <1>3 DEF DropOk
  <2>2. Got(o, n) = Got(o, m) /\ (InRow(m) => InRow(n))
    BY <1>2 DEF Got, InRow
  <2>3. HandedSoFar(binlog, Got(o, n), n, e, x)
    BY <1>2, <2>1, <2>2 DEF HandedSoFar
  <2>4. CASE m.cont = "start"
    <3>1. e.since = m.pos /\ n.began = m.pos
      BY <1>2, <1>3, <2>4 DEF DropOk
    <3>2. Evs(binlog, x, m.pos, m.pos) = {}
      BY <1>1, EvsNone
    <3> QED
      BY <2>3, <3>1, <3>2 DEF Handed
  <2>5. CASE m.cont # "start"
    BY <1>2, <2>1, <2>3, <2>5
  <2> QED
    BY <2>4, <2>5
<1>4. ~Before(n.pos, n.began) /\ (n.pc = "select" \/ n.cont = "tick" => n.began = n.pos)
  BY <1>1, <1>2 DEF DropOk
<1>5. n.cont = "start" => \A x \in Names : \A e \in Range(n.tables[x]) : e.since = n.pos
  BY <1>2
<1> QED
  BY <1>2, <1>3, <1>4, <1>5 DEF DropOk

\* The events up to the next position.
LEMMA EvsNext ==
    ASSUME Typed, NEW x, NEW from, NEW to \in Position, NEW p \in Evs(binlog, x, from, <<to[1], to[2] + 1>>)
    PROVE  p = <<to[1], to[2] + 1>> \/ p \in Evs(binlog, x, from, to)
<1>1. p \in Positions(binlog) /\ p \in Position /\ ~Before(<<to[1], to[2] + 1>>, p)
  BY LogIs DEF Evs
<1>2. p = <<p[1], p[2]>> /\ p[1] \in Nat /\ p[2] \in Nat /\ to[1] \in Nat /\ to[2] \in Nat
  BY <1>1 DEF Position
<1>3. p = <<to[1], to[2] + 1>> \/ ~Before(to, p)
  BY <1>1, <1>2 DEF Before
<1> QED
  BY <1>3 DEF Evs

LEMMA EvsOver ==
    ASSUME Typed, NEW x, NEW from, NEW to \in Position, to[1] <= Len(binlog), to[2] = LenOf(binlog, to[1]),
           NEW p \in Evs(binlog, x, from, <<to[1] + 1, 0>>)
    PROVE  p \in Evs(binlog, x, from, to)
<1>1. p \in Positions(binlog) /\ ~Before(<<to[1] + 1, 0>>, p)
  BY DEF Evs
<1>2. /\ p = <<p[1], p[2]>> /\ p[1] \in Nat /\ p[2] \in Nat /\ p[1] >= 1 /\ p[2] >= 1
      /\ p[2] <= Len(binlog[p[1]]) /\ to[1] \in Nat /\ to[2] \in Nat
  BY <1>1, PositionsAre, LogIs DEF Position
<1>3. p[1] < to[1] + 1
  BY <1>1, <1>2 DEF Before
<1>4. p[1] = to[1] => p[2] <= to[2]
  BY <1>2 DEF LenOf
<1>5. p[1] = to[1] => Len(binlog[p[1]]) \in Nat
  BY <1>1, <1>2, LogIs
<1>6. ~Before(to, p)
  BY <1>2, <1>3, <1>4, <1>5 DEF Before
<1> QED
  BY <1>6 DEF Evs

LEMMA DropTake ==
    ASSUME Typed, NEW m, MemOk(binlog, m), NEW n, NEW o, DropOk(binlog, o, m),
           m.pc \in {"select", "batch"}, Rest(m, n), Taken(m, n)
    PROVE  DropOk(binlog, o, n)
<1>1. /\ m \in Memory /\ m.pos \in Position /\ m.began \in Position /\ m.cont = "none" /\ ~InRow(m)
      /\ m.pos[1] \in Nat /\ m.pos[2] \in Nat /\ m.began[1] \in Nat /\ m.began[2] \in Nat
      /\ m.pos[1] <= Len(binlog) /\ \A x \in Names : m.tables[x] \in Seq(Entry)
  <2>1. m \in Memory /\ m.cont = "none" /\ m.pos[1] <= Len(binlog)
    BY DEF MemOk
  <2>2. m.pos \in Position /\ m.began \in Position /\ \A x \in Names : m.tables[x] \in Seq(Entry)
    BY <2>1 DEF Memory
  <2> QED
    BY <2>1, <2>2 DEF Position, InRow
<1>2. n.began = m.began /\ n.tables = m.tables /\ n.pend = m.pend /\ n.down = m.down /\ Got(o, n) = Got(o, m)
  BY DEF Rest, Got
<1>3. n.cont \notin {"start", "tick"} /\ n.pc \notin {"select", "finish"}
  BY DEF Taken
<1>4. ~Before(n.pos, n.began)
  <2>1. ~Before(m.pos, m.began)
    BY DEF DropOk
  <2>2. n.pos = <<m.pos[1] + 1, 0>> \/ n.pos = <<m.pos[1], m.pos[2] + 1>>
    BY DEF Taken
  <2> QED
    BY <1>1, <1>2, <2>1, <2>2 DEF Before
<1>5. ASSUME ~n.down, NEW x \in Names, NEW e \in Range(n.tables[x])
      PROVE  Handed(binlog, o, e, x, n.began) /\ HandedSoFar(binlog, Got(o, n), n, e, x)
  <2>1. Handed(binlog, o, e, x, m.began)
    BY <1>2, <1>5 DEF DropOk
  <2>2. HandedSoFar(binlog, Got(o, m), m, e, x)
    BY <1>2, <1>5 DEF DropOk
  <2>3. \A p \in Evs(binlog, x, e.since, m.pos) : \A j \in 1 .. RowCount(At(binlog, p)) :
           Item(e.id, p, j) \in Got(o, n)
    BY <1>1, <1>2, <2>2 DEF HandedSoFar
  <2>4. CASE m.pos[2] = Size(m.pos[1]) /\ n.pos = <<m.pos[1] + 1, 0>>
    <3>1. m.pos[2] = LenOf(binlog, m.pos[1])
      <4>1. m.pos[1] \in 0 .. Len(binlog)
        BY <1>1, LogIs
      <4> QED
        BY <2>4, <4>1, LogIs
    <3>2. \A p \in Evs(binlog, x, e.since, n.pos) : p \in Evs(binlog, x, e.since, m.pos)
      BY <1>1, <2>4, <3>1, EvsOver
    <3> QED
      BY <1>2, <2>1, <2>3, <3>2 DEF HandedSoFar
  <2>5. CASE n.pos = <<m.pos[1], m.pos[2] + 1>>
    <3>1. \A p \in Evs(binlog, x, e.since, n.pos) : p = n.pos \/ p \in Evs(binlog, x, e.since, m.pos)
      BY <1>1, <2>5, EvsNext
    <3>2. ASSUME n.pos \in Evs(binlog, x, e.since, n.pos), NEW j \in 1 .. RowCount(At(binlog, n.pos))
          PROVE  InRow(n) /\ e = n.cur /\ j >= n.row
      <4> DEFINE s == m.tables[x]
      <4>1. At(binlog, n.pos).name = x /\ At(binlog, n.pos).kind # "alter"
        BY <3>2 DEF Evs
      <4>2. \/ s = <<>>
            \/ n.pc = "rows" /\ n.row = 1 /\ n.cur = s[1]
        BY <1>1, <2>5, <4>1 DEF Taken
      <4>3. s # <<>>
        BY <1>2, <1>5, RangeOfEmpty
      <4>4. s \in Seq(Entry) /\ Len(s) <= 1 /\ e \in Range(s)
        BY <1>1, <1>2, <1>5 DEF DropOk
      <4>5. e = s[1]
        <5> HIDE DEF s
        <5>1. PICK k \in 1 .. Len(s) : e = s[k]
          BY <4>4 DEF Range
        <5>2. k = 1
          BY <4>4, <5>1
        <5> QED
          BY <5>1, <5>2
      <4> QED
        BY <4>2, <4>3, <4>5 DEF InRow
    <3> QED
      BY <1>2, <2>1, <2>3, <3>1, <3>2 DEF HandedSoFar
  <2> QED
    BY <2>4, <2>5 DEF Taken
<1>6. \A x \in Names : Len(n.tables[x]) <= 1 /\ \A e \in Range(n.tables[x]) : NameOf[e.tab] = x
  BY <1>2 DEF DropOk
<1> QED
  BY <1>3, <1>4, <1>5, <1>6 DEF DropOk

LEMMA RangeOfAppend ==
    ASSUME NEW S, NEW s \in Seq(S), NEW x \in S
    PROVE  Range(s) \subseteq Range(Append(s, x)) /\ x \in Range(Append(s, x))
<1> DEFINE a == Append(s, x)
<1>1. /\ Len(s) \in Nat /\ DOMAIN s = 1 .. Len(s) /\ DOMAIN a = 1 .. Len(s) + 1
      /\ \A k \in 1 .. Len(s) : a[k] = s[k]
  OBVIOUS
<1>2. a[Len(s) + 1] = x
  OBVIOUS
<1> HIDE DEF a
<1>3. Len(s) + 1 \in DOMAIN a /\ DOMAIN s \subseteq DOMAIN a
  BY <1>1
<1>4. x \in Range(a)
  BY <1>2, <1>3 DEF Range
<1>5. Range(s) \subseteq Range(a)
  BY <1>1, <1>3 DEF Range
<1> QED
  BY <1>4, <1>5 DEF a

LEMMA DropProduce ==
    ASSUME Typed, NEW m, AtRow(binlog, m), m.pc \in {"rows", "push"}, NEW n, MemOk(binlog, n), NEW o,
           DropOk(binlog, o, m), Moved(m, n), Produced(m, n)
    PROVE  DropOk(binlog, o, n)
<1>1. n.pos = m.pos /\ n.began = m.began /\ n.tables = m.tables /\ n.down = m.down
  BY DEF Moved
<1>2. n.cont \in {"none", "row"} /\ n.pc # "select" /\ InRow(m) /\ m.pc # "finish"
  <2>1. OnRow(m, n) => n.pc # "select"
    BY DEF OnRow
  <2> QED
    BY <2>1 DEF Produced, InRow
<1>3. CASE n.down \/ n.pc = "finish"
  BY <1>1, <1>2, <1>3, DropKeeps
<1>4. CASE n.pc = "reload" /\ n.cont = "row" /\ n.cur = m.cur /\ n.row = m.row /\ n.pend = m.pend
  <2>1. InRow(n)
    BY <1>4 DEF InRow
  <2> QED
    BY <1>1, <1>2, <1>4, <2>1, DropKeeps
<1> DEFINE msg == [id |-> m.cur.id, ev |-> m.pos, row |-> m.row, seq |-> n.seqNo]
<1>5. CASE n.pend = Append(m.pend, msg) /\ OnRow(m, n) /\ ~(n.down \/ n.pc = "finish")
  <2>1. m \in Memory /\ m.pend \in Seq(Msg) /\ m.cur \in Entry /\ m.row \in Nat /\ n.seqNo \in Nat /\ m.pos \in Position
    BY DEF AtRow, Memory, MemOk
  <2>2. msg \in Msg
    BY <2>1 DEF Msg, Entry
  <2> HIDE DEF msg
  <2>3. Range(m.pend) \subseteq Range(n.pend) /\ msg \in Range(n.pend)
    BY <1>5, <2>1, <2>2, RangeOfAppend
  <2>4. Got(o, m) \subseteq Got(o, n) /\ Item(m.cur.id, m.pos, m.row) \in Got(o, n)
    <3>1. Got(o, m) \subseteq Got(o, n)
      BY <2>3, GotGrows
    <3>2. msg.id = m.cur.id /\ msg.ev = m.pos /\ msg.row = m.row
      BY DEF msg
    <3> QED
      BY <2>3, <3>1, <3>2 DEF Got
  <2>5. ASSUME NEW x \in Names, NEW e \in Range(n.tables[x])
        PROVE  Handed(binlog, o, e, x, n.began) /\ HandedSoFar(binlog, Got(o, n), n, e, x)
    <3>1. Handed(binlog, o, e, x, m.began) /\ HandedSoFar(binlog, Got(o, m), m, e, x)
      BY <1>1, <1>2, <1>5, <2>5 DEF DropOk
    <3>2. ASSUME NEW p \in Evs(binlog, x, e.since, m.pos), NEW j \in 1 .. RowCount(At(binlog, p)),
                 Item(e.id, p, j) \notin Got(o, n)
          PROVE  InRow(n) /\ e = n.cur /\ p = n.pos /\ j >= n.row
      <4>1. e = m.cur /\ p = m.pos /\ j >= m.row
        BY <2>4, <3>1, <3>2 DEF HandedSoFar
      <4>2. j # m.row
        BY <2>4, <3>2, <4>1
      <4>3. j \in Nat /\ m.row \in Nat /\ j > m.row /\ j <= RowCount(At(binlog, m.pos))
             /\ RowCount(At(binlog, m.pos)) \in Nat
        BY <2>1, <4>1, <4>2, RowCounts
      <4>4. m.row < RowCount(At(binlog, m.pos)) /\ j >= m.row + 1
        BY <4>3
      <4>5. n.pc = "rows" /\ n.cur = m.cur /\ n.row = m.row + 1
        BY <1>5, <4>4 DEF OnRow
      <4> QED
        BY <1>1, <4>1, <4>4, <4>5 DEF InRow
    <3> QED
      BY <1>1, <3>1, <3>2 DEF HandedSoFar
  <2>6. ~Before(n.pos, n.began) /\ \A x \in Names : /\ Len(n.tables[x]) <= 1
                                                   /\ \A e \in Range(n.tables[x]) : NameOf[e.tab] = x
    BY <1>1 DEF DropOk
  <2> QED
    BY <1>2, <2>5, <2>6 DEF DropOk
<1> QED
  BY <1>3, <1>4, <1>5 DEF Produced

LEMMA DropCommit ==
    ASSUME Typed, NEW m, MemOk(binlog, m), m.pc = "commit", NEW n, DropOk(binlog, out, m), Committed(m, n)
    PROVE  DropOk(binlog, out', n)
<1>1. m \in Memory /\ m.pos \in Position /\ ~Before(m.pos, m.pos) /\ m.cont = "none" /\ ~InRow(m)
  BY DEF MemOk, Memory, Before, Position, InRow
<1>2. n.pos = m.pos /\ n.tables = m.tables /\ n.down = m.down /\ n.pend = <<>> /\ n.cont = "none"
  BY DEF Committed
<1>3. CASE n.pc = "finish" /\ n.began = m.began /\ out \subseteq out'
  BY <1>2, <1>3, DropKeeps
<1> DEFINE msgs == {x \in Range(m.pend) : x.id \in {e.id : e \in Entries(m)}}
<1>4. CASE n.pc = "select" /\ n.began = m.pos /\ out' = Stored(msgs)
  <2>1. ASSUME ~n.down, NEW x \in Names, NEW e \in Range(n.tables[x])
        PROVE  Handed(binlog, out', e, x, m.pos)
    <3>1. HandedSoFar(binlog, Got(out, m), m, e, x)
      BY <1>2, <2>1 DEF DropOk
    <3>2. e.id \in {d.id : d \in Entries(m)}
      BY <1>2, <2>1 DEF Entries
    <3>3. ASSUME NEW p, NEW j, Item(e.id, p, j) \in Got(out, m)
          PROVE  Item(e.id, p, j) \in out'
      <4>1. CASE Item(e.id, p, j) \in out
        BY <1>4, <4>1 DEF Stored
      <4>2. CASE Item(e.id, p, j) \notin out
        <5>1. PICK y \in Range(m.pend) : Item(e.id, p, j) = Item(y.id, y.ev, y.row)
          BY <3>3, <4>2 DEF Got
        <5>2. y.id = e.id
          BY <5>1 DEF Item
        <5>3. y \in msgs
          BY <3>2, <5>2
        <5> HIDE DEF msgs
        <5> QED
          BY <1>4, <5>1, <5>3 DEF Stored, Item
      <4> QED
        BY <4>1, <4>2
    <3> QED
      BY <1>1, <3>1, <3>3 DEF Handed, HandedSoFar
  <2>2. out' \subseteq Got(out', n)
    BY DEF Got
  <2>3. ASSUME ~n.down, NEW x \in Names, NEW e \in Range(n.tables[x])
        PROVE  HandedSoFar(binlog, Got(out', n), n, e, x)
    BY <1>2, <2>1, <2>2, <2>3 DEF Handed, HandedSoFar
  <2>4. ~Before(n.pos, n.began) /\ \A x \in Names : /\ Len(n.tables[x]) <= 1
                                                   /\ \A e \in Range(n.tables[x]) : NameOf[e.tab] = x
    BY <1>1, <1>2, <1>4 DEF DropOk
  <2> QED
    BY <1>2, <1>4, <2>1, <2>3, <2>4 DEF DropOk
<1> QED
  BY <1>3, <1>4 DEF Committed

\* A reader whose memory is n, which has what DropOk says, among readers that stay.
LEMMA DropSet ==
    ASSUME Typed, Drop, NEW r \in Readers, NEW n, Set(r, n), UNCHANGED binlog, out \subseteq out',
           DropOk(binlog, out', n)
    PROVE  Drop'
<1>1. rd' = [q \in Readers |-> IF q = r THEN n ELSE rd[q]]
  BY SetIs
<1>2. ASSUME NEW q \in Readers
      PROVE  DropOk(binlog', out', rd'[q])
  <2>1. CASE q = r
    BY <1>1, <2>1
  <2>2. CASE q # r
    <3> DEFINE m == rd[q]
    <3>1. DropOk(binlog, out, m)
      BY DEF Drop
    <3>2. rd'[q] = m
      BY <1>1, <2>2
    <3> HIDE DEF m
    <3>3. DropOk(binlog, out', m)
      <4>1. CASE m.pc = "finish"
        BY <3>1, <4>1, DropKeeps
      <4>2. CASE m.pc # "finish"
        BY <3>1, <4>2, DropKeeps
      <4> QED
        BY <4>1, <4>2
    <3> QED
      BY <3>2, <3>3
  <2> QED
    BY <2>1, <2>2
<1> QED
  BY <1>2 DEF Drop

LEMMA DropLeave ==
    ASSUME Typed, Drop, NEW r \in Readers, Leave(r), UNCHANGED <<binlog, out>>
    PROVE  Drop'
<1>1. Set(r, IdleReader) /\ MemOk(binlog, IdleReader)
  BY LeaveIs
<1>2. /\ IdleReader \in Memory /\ IdleReader.tables = NoTables /\ IdleReader.began = <<0, 0>>
      /\ IdleReader.pc = "idle" /\ IdleReader.cont = "none"
  BY <1>1 DEF MemOk, IdleReader, NoTables
<1>3. DropOk(binlog, out', IdleReader)
  BY <1>2, DropEmpty
<1> QED
  BY <1>1, <1>3, DropSet

LEMMA DropFailed ==
    ASSUME Typed, Drop, NEW r \in Readers, Failed(r), UNCHANGED <<binlog, out>>
    PROVE  Drop'
<1>1. CASE Leave(r)
  BY <1>1, DropLeave
<1>2. ASSUME NEW n, Set(r, n), Same(rd[r], n), n.pc = "finish", n.cont = rd[r].cont
      PROVE  Drop'
  <2>1. DropOk(binlog, out, rd[r])
    BY DEF Drop
  <2>2. DropOk(binlog, out', n)
    BY <1>2, <2>1, DropKeeps DEF Same
  <2> QED
    BY <1>2, <2>2, DropSet
<1> QED
  BY <1>1, <1>2 DEF Failed

LEMMA DropSmall ==
    ASSUME Typed, Drop, NEW r \in Readers, NEW n, Set(r, n), MemOk(binlog, n), Small(r, n),
           UNCHANGED <<binlog, out>>
    PROVE  Drop'
<1> DEFINE m == rd[r]
<1>1. DropOk(binlog, out, m) /\ MemOk(binlog, m) /\ m \in Memory
  BY MemoryOk DEF Drop
<1>2. /\ n.pos = m.pos /\ n.began = m.began /\ n.tables = m.tables /\ n.pend = m.pend
      /\ n.cur = m.cur /\ n.row = m.row
  BY DEF Small
<1>3. \/ m.pc = "idle" /\ n.pc = "begin" /\ n.cont = m.cont /\ n.down = m.down
      \/ m.pc = "select" /\ n.pc = "reload" /\ n.cont = "tick" /\ n.down = m.down
      \/ m.pc \in {"select", "batch"} /\ n.pc \in {"commit", "finish"} /\ n.cont = m.cont /\ n.down = m.down
      \/ m.pc # "idle" /\ n.pc = m.pc /\ n.cont = m.cont /\ n.down
  BY DEF Small
<1>4. m.pc \in {"idle", "select", "batch"} => m.cont = "none" /\ ~InRow(m)
  BY <1>1 DEF MemOk, Memory, Conts, InRow
<1> HIDE DEF m
<1>5. DropOk(binlog, out', n)
  <2>1. CASE m.pc = "idle" /\ n.pc = "begin" /\ n.cont = m.cont /\ n.down = m.down
    BY <1>1, <1>2, <1>4, <2>1, DropKeeps
  <2>2. CASE m.pc = "select" /\ n.pc = "reload" /\ n.cont = "tick" /\ n.down = m.down
    BY <1>1, <1>2, <1>4, <2>2, DropKeeps
  <2>3. CASE m.pc \in {"select", "batch"} /\ n.pc \in {"commit", "finish"} /\ n.cont = m.cont /\ n.down = m.down
    BY <1>1, <1>2, <1>4, <2>3, DropKeeps
  <2>4. CASE m.pc # "idle" /\ n.pc = m.pc /\ n.cont = m.cont /\ n.down
    BY <1>1, <1>2, <2>4, DropKeeps
  <2> QED
    BY <1>3, <2>1, <2>2, <2>3, <2>4
<1> QED
  BY <1>5, DropSet

\* What a reader does keeps it.
LEMMA DropReader ==
    ASSUME Typed, OneVersion, Drop, NEW r \in Readers,
           ReaderStep(r) \/ FetchFailed(r) \/ Shutdown(r) \/ Crash(r)
    PROVE  Drop'
<1>1. MemOk(binlog, rd[r]) /\ rd[r] \in Memory /\ DropOk(binlog, out, rd[r])
  BY MemoryOk DEF Drop
<1>2. CASE LockCluster(r) \/ Tick(r) \/ FetchFailed(r) \/ EndBatch(r) \/ Stop(r) \/ Shutdown(r)
  BY <1>2, SmallIs, DropSmall
<1>3. CASE Begin(r)
  <2>1. UNCHANGED <<binlog, out>>
    BY <1>3, BeginIs
  <2>2. CASE Leave(r)
    BY <2>1, <2>2, DropLeave
  <2>3. ASSUME NEW n, Set(r, n), MemOk(binlog, n), Begins(rd[r], n)
        PROVE  Drop'
    <3>1. DropOk(binlog, out', n)
      BY <2>3, DropEmpty DEF Begins, MemOk
    <3> QED
      BY <2>1, <2>3, <3>1, DropSet
  <2> QED
    BY <1>3, <2>2, <2>3, BeginIs
<1>4. CASE Reload(r)
  <2>1. UNCHANGED <<binlog, out>> /\ rd[r].pc = "reload"
    BY <1>4, ReloadIs
  <2>2. CASE Failed(r)
    BY <2>1, <2>2, DropFailed
  <2>3. ASSUME NEW n, Set(r, n), MemOk(binlog, n), Reloads(rd[r], n)
        PROVE  Drop'
    <3>1. DropOk(binlog, out', n)
      BY <1>1, <2>1, <2>3, DropReload
    <3> QED
      BY <2>1, <2>3, <3>1, DropSet
  <2> QED
    BY <1>4, <2>2, <2>3, ReloadIs
<1>5. CASE Save(r)
  <2>1. UNCHANGED <<binlog, out>> /\ rd[r].pc = "save"
    BY <1>5, SaveIs
  <2>2. CASE Failed(r)
    BY <2>1, <2>2, DropFailed
  <2>3. ASSUME NEW n, Set(r, n), Saves(rd[r], n)
        PROVE  Drop'
    <3>1. DropOk(binlog, out', n)
      BY <1>1, <2>1, <2>3, DropSave
    <3> QED
      BY <2>1, <2>3, <3>1, DropSet
  <2> QED
    BY <1>5, <2>2, <2>3, SaveIs
<1>6. CASE TakeEvent(r)
  <2>1. UNCHANGED <<binlog, out>> /\ rd[r].pc \in {"select", "batch"}
    BY <1>6, TakeEventIs
  <2>2. PICK n : Set(r, n) /\ Rest(rd[r], n) /\ Taken(rd[r], n)
    BY <1>6, TakeEventIs
  <2>3. DropOk(binlog, out', n)
    BY <1>1, <2>1, <2>2, DropTake
  <2> QED
    BY <2>1, <2>2, <2>3, DropSet
<1>7. CASE ProduceRow(r)
  <2>1. UNCHANGED <<binlog, out>> /\ AtRow(binlog, rd[r]) /\ rd[r].pc \in {"rows", "push"}
    BY <1>7, ProduceRowIs
  <2>2. PICK n : Set(r, n) /\ MemOk(binlog, n) /\ Moved(rd[r], n) /\ Produced(rd[r], n)
    BY <1>7, ProduceRowIs
  <2>3. DropOk(binlog, out', n)
    BY <1>1, <2>1, <2>2, DropProduce
  <2> QED
    BY <2>1, <2>2, <2>3, DropSet
<1>8. CASE AlterTable(r)
  <2>1. UNCHANGED <<binlog, out>> /\ rd[r].pc \in {"mutate", "schema"}
    BY <1>8, AlterTableIs
  <2>2. CASE Leave(r)
    BY <2>1, <2>2, DropLeave
  <2>3. ASSUME NEW n, Set(r, n), MemOk(binlog, n), Moved(rd[r], n), n.pend = rd[r].pend, Altered(rd[r], n)
        PROVE  Drop'
    <3>1. n.cont \in {"none", "schema"} /\ n.pc \in {"batch", "commit", "finish", "reload"}
      BY <2>3 DEF Altered
    <3>2. ~InRow(rd[r])
      BY <2>1 DEF InRow
    <3>3. DropOk(binlog, out', n)
      BY <1>1, <2>1, <2>3, <3>1, <3>2, DropKeeps DEF Moved
    <3> QED
      BY <2>1, <2>3, <3>3, DropSet
  <2> QED
    BY <1>8, <2>2, <2>3, AlterTableIs
<1>9. CASE Commit(r)
  <2>1. UNCHANGED binlog /\ rd[r].pc = "commit"
    BY <1>9, CommitIs
  <2>2. PICK n : Set(r, n) /\ MemOk(binlog, n) /\ Committed(rd[r], n)
    BY <1>9, CommitIs
  <2>3. DropOk(binlog, out', n)
    BY <1>1, <2>1, <2>2, DropCommit
  <2>4. out \subseteq out'
    BY <2>2 DEF Committed, Stored
  <2> QED
    BY <2>1, <2>2, <2>3, <2>4, DropSet
<1>10. CASE Finish(r) \/ Crash(r)
  <2>1. UNCHANGED <<binlog, out>> /\ Leave(r)
    BY <1>10 DEF Finish, Crash
  <2> QED
    BY <2>1, DropLeave
<1> QED
  BY <1>2, <1>3, <1>4, <1>5, <1>6, <1>7, <1>8, <1>9, <1>10 DEF ReaderStep

LEMMA DropNext == OneVersion /\ Typed /\ Drop /\ [Next]_vars => Drop'
<1> SUFFICES ASSUME OneVersion, Typed, Drop, [Next]_vars PROVE Drop'
  OBVIOUS
<1>1. CASE UNCHANGED <<binlog, rd, out>>
  BY <1>1 DEF Drop
<1>2. CASE CommitTx
  <2>1. PICK tx \in Transactions : binlog' = Append(binlog, tx)
    BY <1>2 DEF CommitTx
  <2>2. UNCHANGED <<rd, out>>
    BY <1>2 DEF CommitTx
  <2>3. ASSUME NEW r \in Readers
        PROVE  DropOk(binlog', out', rd'[r])
    <3>1. MemOk(binlog, rd[r]) /\ DropOk(binlog, out, rd[r])
      BY MemoryOk DEF Drop
    <3>2. DropOk(Append(binlog, tx), out, rd[r])
      BY <3>1, DropLonger
    <3> QED
      BY <2>1, <2>2, <3>2
  <2> QED
    BY <2>3 DEF Drop
<1>3. ASSUME NEW t \in Tables, Register(t) \/ Deregister(t)
      PROVE  Drop'
  BY <1>1, <1>3 DEF Register, Deregister
<1>4. CASE LoseLock
  BY <1>1, <1>4 DEF LoseLock
<1> QED
  BY <1>1, <1>2, <1>3, <1>4, DropReader DEF Next, vars

LEMMA InitDrop == Init => Drop
<1> SUFFICES ASSUME Init PROVE Drop
  OBVIOUS
<1>1. Typed
  BY InitTyped
<1>2. ASSUME NEW r \in Readers
      PROVE  DropOk(binlog, out, rd[r])
  <2>1. rd[r] = IdleReader /\ rd[r] \in Memory
    BY <1>1, MemoryOk DEF Init
  <2>2. /\ IdleReader.tables = NoTables /\ IdleReader.began = <<0, 0>>
        /\ IdleReader.pc = "idle" /\ IdleReader.cont = "none"
    BY DEF IdleReader, NoTables
  <2> QED
    BY <2>1, <2>2, DropEmpty
<1> QED
  BY <1>2 DEF Drop

\* The events that the properties speak of.
LEMMA RowsOfIs ==
    ASSUME Typed, NEW n \in Names, NEW from, NEW to, NEW id, NEW S,
           \A p \in Evs(binlog, n, from, to) : \A j \in 1 .. RowCount(At(binlog, p)) : Item(id, p, j) \in S
    PROVE  RowsOf(id, RowEvents(n, from, to)) \subseteq S
<1>1. RowEvents(n, from, to) \subseteq Evs(binlog, n, from, to)
  <2>1. ASSUME NEW p \in RowEvents(n, from, to)
        PROVE  p \in Evs(binlog, n, from, to)
    <3>1. PICK g \in 1 .. Len(binlog) : \E k \in 1 .. Size(g) : p = <<g, k>>
      BY <2>1 DEF RowEvents
    <3>2. PICK k \in 1 .. Size(g) : p = <<g, k>>
      BY <3>1
    <3>3. Len(binlog) \in Nat
      BY LogIs
    <3>4. g # 0
      BY <3>1, <3>3
    <3>5. Size(g) = Len(binlog[g])
      BY <3>4 DEF Size
    <3>6. p \in Positions(binlog)
      BY <3>2, <3>5 DEF Positions
    <3> QED
      BY <2>1, <3>6 DEF RowEvents, Evs, At, EventAt
  <2> QED
    BY <2>1
<1>2. ASSUME NEW x \in RowsOf(id, RowEvents(n, from, to))
      PROVE  x \in S
  <2>1. PICK p \in RowEvents(n, from, to) : \E k \in 1 .. RowCount(EventAt(p)) : x = [id |-> id, ev |-> p, row |-> k]
    BY <1>2 DEF RowsOf
  <2>2. PICK k \in 1 .. RowCount(EventAt(p)) : x = [id |-> id, ev |-> p, row |-> k]
    BY <2>1
  <2>3. EventAt(p) = At(binlog, p)
    BY DEF EventAt, At
  <2> QED
    BY <1>1, <2>1, <2>2, <2>3 DEF Item
<1> QED
  BY <1>2

LEMMA StoredIs == ASSUME NEW m PROVE Stored(Range(m.pend)) = Got(out, m)
BY DEF Stored, Got, Item

LEMMA DropMeans == Typed /\ Drop => NothingDropped
<1> SUFFICES ASSUME Typed, Drop, NEW r \in Readers, rd[r].pc \in {"select", "batch", "commit"}, ~rd[r].down,
                    NEW n \in Names, NEW e \in Range(rd[r].tables[n])
             PROVE  /\ RowsOf(e.id, RowEvents(n, e.since, rd[r].began)) \subseteq out
                    /\ RowsOf(e.id, RowEvents(n, e.since, rd[r].pos)) \subseteq Stored(Range(rd[r].pend))
  BY DEF NothingDropped
<1> DEFINE m == rd[r]
<1>1. Handed(binlog, out, e, n, m.began) /\ HandedSoFar(binlog, Got(out, m), m, e, n) /\ ~InRow(m)
  BY DEF Drop, DropOk, InRow
<1>2. \A p \in Evs(binlog, n, e.since, m.began) : \A j \in 1 .. RowCount(At(binlog, p)) : Item(e.id, p, j) \in out
  BY <1>1 DEF Handed
<1>3. \A p \in Evs(binlog, n, e.since, m.pos) : \A j \in 1 .. RowCount(At(binlog, p)) : Item(e.id, p, j) \in Got(out, m)
  BY <1>1 DEF HandedSoFar
<1> HIDE DEF m
<1>4. RowsOf(e.id, RowEvents(n, e.since, m.began)) \subseteq out
  BY <1>2, RowsOfIs
<1>5. RowsOf(e.id, RowEvents(n, e.since, m.pos)) \subseteq Got(out, m)
  BY <1>3, RowsOfIs
<1> QED
  BY <1>4, <1>5, StoredIs DEF m

LEMMA SaveLosesNothing ==
    ASSUME Typed, Drop
    PROVE  \A r \in Readers :
              rd[r].pc \in {"save", "finish"} /\ rows' # rows /\ ~rd[r].down =>
                 \A n \in Names : \A e \in Range(rd[r].tables[n]) :
                    LET to == IF rd[r].cont = "tick" THEN rd[r].pos ELSE rd[r].began
                    IN  RowsOf(e.id, RowEvents(n, e.since, to)) \subseteq out
<1> SUFFICES ASSUME NEW r \in Readers, ~rd[r].down, NEW n \in Names, NEW e \in Range(rd[r].tables[n])
             PROVE  LET to == IF rd[r].cont = "tick" THEN rd[r].pos ELSE rd[r].began
                    IN  RowsOf(e.id, RowEvents(n, e.since, to)) \subseteq out
  OBVIOUS
<1> DEFINE to == IF rd[r].cont = "tick" THEN rd[r].pos ELSE rd[r].began
<1>1. Handed(binlog, out, e, n, rd[r].began) /\ to = rd[r].began
  BY DEF Drop, DropOk
<1>2. \A p \in Evs(binlog, n, e.since, to) : \A j \in 1 .. RowCount(At(binlog, p)) : Item(e.id, p, j) \in out
  BY <1>1 DEF Handed
<1> HIDE DEF to
<1>3. RowsOf(e.id, RowEvents(n, e.since, to)) \subseteq out
  BY <1>2, RowsOfIs
<1> QED
  BY <1>3 DEF to

\* What the readers' memory and the state table may hold: a reader is at a position
\* of the binlog, in the middle of an event only at one, and in the middle of the
\* rows of one only at a row of it, with an entry of its tables at hand (mysql.go,
\* handleRowsEvent and updateState, which it calls and returns from).
THEOREM TypedAlways == Spec => []Typed
BY InitTyped, TypedNext, PTL DEF Spec

\* With one version of each table nothing is passed over: what is behind the batch
\* is in the pipe and what is read of the batch is pushed, through every reload of
\* the tables, save, alter and error, whoever holds the lock (mysql.go,
\* handleRowsEvent and commitBatch).  With two versions an alter may put another
\* entry at the index the reader is at, and the statement fails.
THEOREM NothingIsDropped == ASSUME OneVersion PROVE Spec => []NothingDropped
<1>1. Typed /\ Drop /\ [Next]_vars => (Typed /\ Drop)'
  BY TypedNext, DropNext
<1>2. Init => Typed /\ Drop
  BY InitTyped, InitDrop
<1> QED
  BY <1>1, <1>2, DropMeans, PTL DEF Spec

\* With one version of each table, and while the process is not shutting down,
\* no save of the GTID set, the final one included, passes over an event of a
\* batch before the one in progress, and one between batches passes over none
\* (mysql.go:339, 744).
THEOREM NothingLostBySaving == ASSUME OneVersion PROVE Spec => LossPerSave
<1>1. Typed /\ Drop /\ [Next]_vars => (Typed /\ Drop)'
  BY TypedNext, DropNext
<1>2. Init => Typed /\ Drop
  BY InitTyped, InitDrop
<1>3. Typed /\ Drop /\ [Next]_vars =>
        [\A r \in Readers :
            rd[r].pc \in {"save", "finish"} /\ rows' # rows /\ ~rd[r].down =>
               \A n \in Names : \A e \in Range(rd[r].tables[n]) :
                  LET to == IF rd[r].cont = "tick" THEN rd[r].pos ELSE rd[r].began
                  IN  RowsOf(e.id, RowEvents(n, e.since, to)) \subseteq out]_vars
  BY SaveLosesNothing
<1> QED
  BY <1>1, <1>2, <1>3, PTL DEF Spec, LossPerSave

-----------------------------------------------------------------------------
(* Sequence numbers. *)

LEMMA DivMod == ASSUME NEW s \in Nat PROVE /\ s \div SeqInterval \in Int /\ s % SeqInterval \in 0 .. SeqInterval - 1
                                           /\ s = SeqInterval * (s \div SeqInterval) + (s % SeqInterval)
BY SeqIntervalAssumption
LEMMA NoFactor == ASSUME NEW a \in Int, NEW b \in Nat \ {0}, b * a >= 0, b * a < b PROVE b * a = 0
<1>1. CASE a >= 1
  <2>1. b * a >= b
    BY <1>1
  <2> QED
    BY <2>1
<1>2. CASE a <= -1
  <2>1. b * a < 0
    BY <1>2
  <2> QED
    BY <2>1
<1>3. CASE a = 0
  BY <1>3
<1> QED
  BY <1>1, <1>2, <1>3
LEMMA Multiples == ASSUME NEW s \in Nat PROVE \E k \in s + 1 .. s + SeqInterval : k % SeqInterval = 0
<1> DEFINE q == s \div SeqInterval
           k == SeqInterval * (q + 1)
           d == k \div SeqInterval
<1>1. q \in Int /\ s % SeqInterval \in 0 .. SeqInterval - 1 /\ s = SeqInterval * q + (s % SeqInterval)
  BY DivMod
<1>2. k = SeqInterval * q + SeqInterval
  BY <1>1, SeqIntervalAssumption
<1>3. k \in s + 1 .. s + SeqInterval /\ k \in Nat
  <2>1. SeqInterval * q \in Int /\ SeqInterval \in Nat \ {0}
    BY <1>1, SeqIntervalAssumption
  <2> HIDE DEF q, k
  <2> QED
    BY <1>1, <1>2, <2>1
<1>4. d \in Int /\ k % SeqInterval \in 0 .. SeqInterval - 1 /\ k = SeqInterval * d + (k % SeqInterval)
  BY <1>3, DivMod
<1>5. k % SeqInterval = SeqInterval * (q + 1 - d)
  <2>1. SeqInterval * (q + 1 - d) = SeqInterval * (q + 1) - SeqInterval * d
    BY <1>1, <1>4, SeqIntervalAssumption
  <2>2. SeqInterval * (q + 1) \in Int /\ SeqInterval * d \in Int
    BY <1>1, <1>4, SeqIntervalAssumption
  <2> HIDE DEF q, d
  <2> QED
    BY <1>4, <2>1, <2>2
<1>6. q + 1 - d \in Int
  BY <1>1, <1>4
<1>7. k % SeqInterval = 0
  <2> HIDE DEF q, d, k
  <2> QED
    BY <1>4, <1>5, <1>6, SeqIntervalAssumption, NoFactor
<1> QED
  BY <1>3, <1>7

\* Types that the arithmetic needs.
LEMMA SeqTypes ==
    ASSUME Typed, NEW m, MemOk(binlog, m)
    PROVE  /\ m.seqNo \in Nat /\ Limit(m) \in Int /\ LastTaken(m) \in Int
           /\ Limit(m) <= m.seqNo /\ LastTaken(m) <= m.seqNo /\ m.seqNo <= LastTaken(m) + 1
           /\ \A x \in Names : \A e \in Range(m.tables[x]) : e \in Entry /\ e.id \in 1 .. MaxId
           /\ InRow(m) => m.cur \in Entry /\ m.cur.id \in 1 .. MaxId
<1>1. m \in Memory /\ m.seqNo \in Nat
  BY DEF MemOk, Memory
<1>2. ASSUME NEW x \in Names, NEW e \in Range(m.tables[x])
      PROVE  e \in Entry /\ e.id \in 1 .. MaxId
  <2> DEFINE s == m.tables[x]
  <2>1. s \in Seq(Entry) /\ e \in Range(s)
    BY <1>1, <1>2 DEF Memory
  <2> HIDE DEF s
  <2>2. e \in Entry
    BY <2>1 DEF Range
  <2> QED
    BY <2>2 DEF Entry
<1>3. InRow(m) => m.cur \in Entry /\ m.cur.id \in 1 .. MaxId
  BY DEF MemOk, Entry
<1>4. /\ Limit(m) \in {m.seqNo, m.seqNo - 1} /\ LastTaken(m) \in {m.seqNo, m.seqNo - 1}
  BY DEF Limit, LastTaken
<1> QED
  BY <1>1, <1>2, <1>3, <1>4

LEMMA RowTypes ==
    ASSUME Typed, NEW t \in Registered
    PROVE  /\ rows[t].id \in 1 .. MaxId /\ rows[t].id < nextId /\ rows[t].seq \in Nat
           /\ issued[rows[t].id] \in Nat /\ nextId \in Nat
<1>1. rows[t] \in Row /\ rows[t].id < nextId /\ issued \in [1 .. MaxId -> Nat] /\ nextId \in Nat
  BY DEF Typed
<1> QED
  BY <1>1 DEF Row

\* A reader goes on: what it may change, and what the sequence numbers it takes
\* and issues are.
LEMMA SeqKeeps ==
    ASSUME Typed, NEW m, MemOk(binlog, m), NEW n, MemOk(binlog, n), SeqOk(m),
           UNCHANGED <<rows, nextId>>, issued' \in [1 .. MaxId -> Nat],
           \A id \in 1 .. MaxId : issued'[id] <= issued[id] \/ issued'[id] <= Limit(n),
           m.cont # "start", n.cont # "start", n.tables = m.tables,
           m.seqNo <= n.seqNo, Limit(m) <= Limit(n),
           \A k \in LastTaken(m) + 1 .. LastTaken(n) : k % SeqInterval # 0,
           m.pc \in {"save", "finish"} => n.pc = "finish",
           InRow(n) => \/ InRow(m) /\ n.cur = m.cur
                       \/ m.pc # "save" /\ \E x \in Names : n.cur \in Range(m.tables[x])
    PROVE  SeqOk(n)'
<1>1. /\ m.seqNo \in Nat /\ Limit(m) \in Int /\ LastTaken(m) \in Int
      /\ n.seqNo \in Nat /\ Limit(n) \in Int /\ LastTaken(n) \in Int
  BY SeqTypes
<1>2. \A id \in 1 .. MaxId : issued[id] <= Limit(m) => issued'[id] <= Limit(n)
  <2>1. \A id \in 1 .. MaxId : issued[id] \in Nat /\ issued'[id] \in Nat
    BY DEF Typed
  <2> QED
    BY <1>1, <2>1
<1>3. \A x \in Names : \A e \in Range(n.tables[x]) : e.id < nextId /\ issued'[e.id] <= Limit(n)
  <2>1. ASSUME NEW x \in Names, NEW e \in Range(m.tables[x])
        PROVE  e.id < nextId /\ issued'[e.id] <= Limit(n)
    <3>1. e.id \in 1 .. MaxId
      BY SeqTypes
    <3>2. e.id < nextId /\ issued[e.id] <= Limit(m)
      BY DEF SeqOk
    <3> QED
      BY <1>2, <3>1, <3>2
  <2> QED
    BY <2>1
<1>4. InRow(n) => /\ n.cur.id < nextId /\ issued'[n.cur.id] <= Limit(n)
                  /\ \A t \in Registered : rows[t].id = n.cur.id => rows[t].seq # 0
  <2>1. CASE InRow(m) /\ n.cur = m.cur
    <3>1. m.cur.id \in 1 .. MaxId
      BY <2>1, SeqTypes
    <3>2. /\ m.cur.id < nextId /\ issued[m.cur.id] <= Limit(m)
          /\ \A t \in Registered : rows[t].id = m.cur.id => rows[t].seq # 0
      BY <2>1 DEF SeqOk
    <3> QED
      BY <1>2, <2>1, <3>1, <3>2
  <2>2. CASE InRow(n) /\ m.pc # "save" /\ \E x \in Names : n.cur \in Range(m.tables[x])
    <3>1. PICK x \in Names : n.cur \in Range(m.tables[x])
      BY <2>2
    <3>2. m.pc \notin {"save", "finish"}
      BY <2>2 DEF InRow
    <3>3. \A t \in Registered : rows[t].id = n.cur.id => rows[t].seq # 0
      BY <3>1, <3>2 DEF SeqOk
    <3> QED
      BY <1>3, <3>1, <3>3
  <2> QED
    BY <2>1, <2>2
<1>5. n.seqNo >= 1 /\ \A t \in Registered : issued'[rows[t].id] <= Limit(n)
  <2>1. m.seqNo >= 1 /\ \A t \in Registered : issued[rows[t].id] <= Limit(m)
    BY DEF SeqOk
  <2>2. \A t \in Registered : rows[t].id \in 1 .. MaxId
    BY RowTypes
  <2>3. n.seqNo >= 1
    BY <1>1, <2>1
  <2>4. \A t \in Registered : issued'[rows[t].id] <= Limit(n)
    BY <1>2, <2>1, <2>2
  <2> QED
    BY <2>3, <2>4
<1>6. ASSUME NEW t \in Registered, rows[t].seq # 0
      PROVE  rows[t].seq <= n.seqNo /\ \A k \in rows[t].seq + 1 .. LastTaken(n) : k % SeqInterval # 0
  <2>1. rows[t].seq <= m.seqNo /\ \A k \in rows[t].seq + 1 .. LastTaken(m) : k % SeqInterval # 0
    BY <1>6 DEF SeqOk
  <2>2. rows[t].seq \in Nat
    BY RowTypes
  <2>3. ASSUME NEW k \in rows[t].seq + 1 .. LastTaken(n)
        PROVE  k % SeqInterval # 0
    <3>1. k \in rows[t].seq + 1 .. LastTaken(m) \/ k \in LastTaken(m) + 1 .. LastTaken(n)
      BY <1>1, <2>2
    <3> QED
      BY <2>1, <3>1
  <2> QED
    BY <1>1, <2>1, <2>2, <2>3
<1>7. n.pc \notin {"save", "finish"} =>
         \A t \in Registered : \A x \in Names : \A e \in Range(n.tables[x]) : rows[t].id = e.id => rows[t].seq # 0
  BY DEF SeqOk
<1>8. Registered' = Registered
  BY DEF Registered
<1> QED
  BY <1>3, <1>4, <1>5, <1>6, <1>7, <1>8 DEF SeqOk

\* A reload adds what is registered.
LEMMA SeqReload ==
    ASSUME Typed, SeqSaved, NEW m, MemOk(binlog, m), NEW n, MemOk(binlog, n), SeqOk(m),
           UNCHANGED <<rows, nextId, issued>>, m.pc = "reload", Reloads(m, n)
    PROVE  SeqOk(n)'
<1>1. /\ m.seqNo \in Nat /\ Limit(m) \in Int /\ n.seqNo \in Nat /\ Limit(n) \in Int
      /\ Limit(n) <= n.seqNo
  BY SeqTypes
<1>2. n.pc = "save" /\ n.cont = m.cont /\ n.cur = m.cur
  BY DEF Reloads
<1>3. PICK s \in SeqNos(m) : n.seqNo = IF m.cont = "start" THEN FirstSeqNo(s) ELSE s
  BY DEF Reloads
<1>4. m.cont # "start" => n.seqNo = m.seqNo /\ Limit(n) = Limit(m) /\ LastTaken(n) = LastTaken(m)
  <2> SUFFICES ASSUME m.cont # "start" PROVE n.seqNo = m.seqNo /\ Limit(n) = Limit(m) /\ LastTaken(n) = LastTaken(m)
    OBVIOUS
  <2>1. m.seqNo # 0
    BY <1>1 DEF SeqOk
  <2>2. n.seqNo = m.seqNo
    BY <1>3, <2>1 DEF SeqNos
  <2> QED
    BY <1>2, <2>2 DEF Limit, LastTaken
<1>5. n.seqNo >= 1 /\ \A t \in Registered : issued[rows[t].id] <= Limit(n)
  <2>1. CASE m.cont # "start"
    BY <1>4, <2>1 DEF SeqOk
  <2>2. CASE m.cont = "start"
    <3> DEFINE saved == {rows[t].seq : t \in Registered} \ {0}
    <3>1. m.seqNo = 0
      BY <2>2 DEF MemOk
    <3>2. s \in IF saved = {} THEN {0} ELSE saved
      BY <3>1 DEF SeqNos
    <3>3. n.seqNo = s + SeqInterval /\ Limit(n) = n.seqNo
      BY <1>2, <1>3, <2>2 DEF FirstSeqNo, Limit
    <3>4. SeqInterval \in Nat /\ SeqInterval >= 1 /\ s \in Nat
      <4>1. \A t \in Registered : rows[t].seq \in Nat
        BY RowTypes
      <4> QED
        BY <3>2, <4>1, SeqIntervalAssumption
    <3>5. ASSUME NEW t \in Registered
          PROVE  issued[rows[t].id] <= n.seqNo
      <4>1. rows[t].seq \in Nat /\ issued[rows[t].id] \in Nat
        BY RowTypes
      <4>2. CASE rows[t].seq = 0
        <5>1. issued[rows[t].id] = 0
          BY <4>2 DEF SeqSaved
        <5> QED
          BY <1>1, <5>1
      <4>3. CASE rows[t].seq # 0
        <5>1. rows[t].seq \in saved /\ s \in saved
          BY <3>2, <4>3
        <5>2. PICK u \in Registered : s = rows[u].seq /\ s # 0
          BY <5>1
        <5>3. rows[t].seq = s
          BY <4>3, <5>2 DEF SeqSaved
        <5>4. issued[rows[t].id] <= rows[t].seq + SeqInterval
          BY <4>3 DEF SeqSaved
        <5> QED
          BY <3>3, <5>3, <5>4
      <4> QED
        BY <4>2, <4>3
    <3> QED
      BY <3>3, <3>4, <3>5
  <2> QED
    BY <2>1, <2>2
<1>6. ASSUME NEW x \in Names, NEW e \in Range(n.tables[x])
      PROVE  e.id < nextId /\ issued[e.id] <= Limit(n)
  <2>1. m.tables[x] \in Seq(Entry) /\ m.pos \in Position
    BY DEF MemOk, Memory
  <2>2. n.tables[x] = Reloaded(m.tables[x], x, m.pos)
    BY DEF Reloads
  <2>3. e \in Range(m.tables[x]) \/ \E t \in Registered : e = Made(t, m.pos)
    BY <1>6, <2>1, <2>2, ReloadedIs
  <2>4. CASE e \in Range(m.tables[x])
    <3>1. CASE m.cont = "start"
      <4>1. m.tables[x] = <<>>
        BY <3>1 DEF MemOk, NoTables
      <4> QED
        BY <2>4, <4>1, RangeOfEmpty
    <3>2. CASE m.cont # "start"
      BY <1>4, <2>4, <3>2 DEF SeqOk
    <3> QED
      BY <3>1, <3>2
  <2>5. ASSUME NEW t \in Registered, e = Made(t, m.pos)
        PROVE  e.id < nextId /\ issued[e.id] <= Limit(n)
    <3>1. e.id = rows[t].id
      BY <2>5 DEF Made
    <3> QED
      BY <1>5, <3>1, RowTypes
  <2> QED
    BY <2>3, <2>4, <2>5
<1>7. InRow(n) => /\ n.cur.id < nextId /\ issued[n.cur.id] <= Limit(n)
                  /\ \A t \in Registered : rows[t].id = n.cur.id => rows[t].seq # 0
  <2> SUFFICES ASSUME InRow(n) PROVE /\ n.cur.id < nextId /\ issued[n.cur.id] <= Limit(n)
                                     /\ \A t \in Registered : rows[t].id = n.cur.id => rows[t].seq # 0
    OBVIOUS
  <2>1. n.cont = "row"
    BY <1>2 DEF InRow
  <2>2. InRow(m) /\ m.cont # "start"
    BY <1>2, <2>1 DEF InRow
  <2> QED
    BY <1>2, <1>4, <2>2 DEF SeqOk
<1>8. m.cont # "start" => \A t \in Registered : rows[t].seq # 0 =>
         rows[t].seq <= n.seqNo /\ \A k \in rows[t].seq + 1 .. LastTaken(n) : k % SeqInterval # 0
  BY <1>4 DEF SeqOk
<1>9. Registered' = Registered
  BY DEF Registered
<1> QED
  BY <1>2, <1>5, <1>6, <1>7, <1>8, <1>9 DEF SeqOk

\* The rows saved by the reader with memory m.
LEMMA SeqSavedBy ==
    ASSUME Typed, SeqSaved, NEW m, MemOk(binlog, m), SeqOk(m), m.pc = "save" \/ m.cont # "start",
           rows' = Saved(m), UNCHANGED <<nextId, issued>>
    PROVE  /\ SeqSaved'
           /\ \A t \in Registered' : t \in Registered /\ rows'[t].id = rows[t].id /\ rows'[t].seq = m.seqNo
<1>1. m \in Memory /\ m.pos[1] <= Len(binlog)
  BY DEF MemOk
<1>2. \A t \in Registered' : t \in Registered /\ rows'[t].id = rows[t].id /\ rows'[t].seq = m.seqNo
  BY <1>1, SavedTyped DEF Registered
<1>3. m.seqNo \in Nat /\ Limit(m) \in Int /\ Limit(m) <= m.seqNo
  BY SeqTypes
<1>4. m.seqNo >= 1 /\ \A t \in Registered : issued[rows[t].id] <= Limit(m)
  BY DEF SeqOk
<1>5. ASSUME NEW t \in Registered
      PROVE  issued[rows[t].id] <= m.seqNo + SeqInterval
  <2>1. issued[rows[t].id] \in Nat /\ issued[rows[t].id] <= Limit(m) /\ SeqInterval \in Nat
    BY <1>4, RowTypes, SeqIntervalAssumption
  <2> QED
    BY <1>3, <2>1
<1>6. \A t \in Registered' : IF rows'[t].seq = 0 THEN issued'[rows'[t].id] = 0
                            ELSE issued'[rows'[t].id] <= rows'[t].seq + SeqInterval
  BY <1>2, <1>3, <1>4, <1>5
<1>7. \A t, u \in Registered' : 0 \in {rows'[t].seq, rows'[u].seq} \/ rows'[t].seq = rows'[u].seq
  BY <1>2
<1>8. \A id \in 1 .. MaxId : id >= nextId' => issued'[id] = 0
  BY DEF SeqSaved
<1> QED
  BY <1>2, <1>6, <1>7, <1>8 DEF SeqSaved

\* The reader goes on, or fails, after having saved.
LEMMA SeqSaves ==
    ASSUME Typed, SeqSaved, NEW m, MemOk(binlog, m), NEW n, MemOk(binlog, n), SeqOk(m), m.pc = "save",
           rows' = Saved(m), UNCHANGED <<nextId, issued>>,
           n.tables = m.tables, n.seqNo = m.seqNo, n.cont # "start", Limit(m) <= Limit(n),
           InRow(n) => InRow(m) /\ n.cur = m.cur
    PROVE  SeqOk(n)'
<1>1. \A t \in Registered' : t \in Registered /\ rows'[t].id = rows[t].id /\ rows'[t].seq = m.seqNo
  BY SeqSavedBy
<1>2. /\ m.seqNo \in Nat /\ Limit(m) \in Int /\ Limit(n) \in Int /\ LastTaken(n) \in Int
      /\ LastTaken(n) <= n.seqNo
  BY SeqTypes
<1>3. m.seqNo >= 1 /\ \A t \in Registered : issued[rows[t].id] <= Limit(m)
  BY DEF SeqOk
<1>4. \A id \in 1 .. MaxId : issued[id] \in Nat
  BY DEF Typed
<1>5. ASSUME NEW x \in Names, NEW e \in Range(n.tables[x])
      PROVE  e.id < nextId /\ issued[e.id] <= Limit(n)
  <2>1. e.id \in 1 .. MaxId
    BY <1>5, SeqTypes
  <2>2. e.id < nextId /\ issued[e.id] <= Limit(m)
    BY <1>5 DEF SeqOk
  <2> QED
    BY <1>2, <1>4, <2>1, <2>2
<1>6. InRow(n) => n.cur.id < nextId /\ issued[n.cur.id] <= Limit(n)
  <2> SUFFICES ASSUME InRow(n) PROVE n.cur.id < nextId /\ issued[n.cur.id] <= Limit(n)
    OBVIOUS
  <2>1. m.cur.id < nextId /\ issued[m.cur.id] <= Limit(m) /\ n.cur = m.cur
    BY DEF SeqOk
  <2>2. m.cur.id \in 1 .. MaxId
    BY <2>1, SeqTypes
  <2> QED
    BY <1>2, <1>4, <2>1, <2>2
<1>7. n.seqNo >= 1 /\ \A t \in Registered' : issued[rows'[t].id] <= Limit(n)
  <2>1. ASSUME NEW t \in Registered
        PROVE  issued[rows[t].id] <= Limit(n)
    <3>1. issued[rows[t].id] \in Nat /\ issued[rows[t].id] <= Limit(m)
      BY <1>3, RowTypes
    <3> QED
      BY <1>2, <3>1
  <2> QED
    BY <1>1, <1>3, <2>1
<1>8. ASSUME NEW t \in Registered'
      PROVE  /\ rows'[t].seq <= n.seqNo /\ rows'[t].seq # 0
             /\ \A k \in rows'[t].seq + 1 .. LastTaken(n) : k % SeqInterval # 0
  <2>1. rows'[t].seq = m.seqNo
    BY <1>1
  <2>2. m.seqNo + 1 .. LastTaken(n) = {}
    BY <1>2
  <2> QED
    BY <1>2, <1>3, <2>1, <2>2
<1> QED
  BY <1>5, <1>6, <1>7, <1>8 DEF SeqOk

\* The reader r acts: the others are idle, or nothing they depend on changes.
LEMMA SeqSet ==
    ASSUME Typed, Inv, MaxKills = 0, SeqInv, NEW r \in Readers, NEW n, Set(r, n),
           rd[r].pc # "idle" \/ UNCHANGED <<rows, nextId, issued>>,
           SeqSaved', n.pc \notin {"idle", "begin"} => SeqOk(n)'
    PROVE  SeqInv'
<1>1. rd' = [q \in Readers |-> IF q = r THEN n ELSE rd[q]]
  BY SetIs
<1>2. ASSUME NEW q \in Readers, rd'[q].pc \notin {"idle", "begin"}
      PROVE  SeqOk(rd[q])'
  <2>1. CASE q = r
    <3>1. rd'[q] = n
      BY <1>1, <2>1
    <3>2. n.pc \notin {"idle", "begin"}
      BY <1>2, <3>1
    <3>3. SeqOk(n)'
      BY <3>2
    <3> QED
      BY <3>1, <3>3 DEF SeqOk, Limit, LastTaken, InRow
  <2>2. CASE q # r
    <3>1. rd'[q] = rd[q] /\ rd[q].pc \notin {"idle", "begin"}
      BY <1>1, <1>2, <2>2
    <3>2. SeqOk(rd[q])
      BY <3>1 DEF SeqInv, Running
    <3>3. rd[r].pc = "idle"
      <4> SUFFICES ASSUME rd[r].pc # "idle" PROVE FALSE
        OBVIOUS
      <4>1. lockBy = r /\ lockBy = q
        BY <3>1 DEF Inv, LockInv
      <4> QED
        BY <2>2, <4>1
    <3>4. UNCHANGED <<rows, nextId, issued>>
      BY <3>3
    <3> QED
      BY <3>1, <3>2, <3>4 DEF SeqOk, Registered, Limit, LastTaken, InRow
  <2> QED
    BY <2>1, <2>2
<1> QED
  BY <1>2 DEF SeqInv, Running

LEMMA SeqLeave ==
    ASSUME Typed, Inv, MaxKills = 0, SeqInv, NEW r \in Readers, Leave(r),
           rd[r].pc # "idle" \/ UNCHANGED <<rows, nextId, issued>>, SeqSaved'
    PROVE  SeqInv'
<1>1. Set(r, IdleReader)
  BY LeaveIs
<1>2. IdleReader.pc = "idle"
  BY DEF IdleReader
<1> QED
  BY <1>1, <1>2, SeqSet

\* updateState fails, before or after its save.
LEMMA SeqFailed ==
    ASSUME Typed, Inv, MaxKills = 0, SeqInv, NEW r \in Readers, Failed(r),
           UNCHANGED <<binlog, nextId, issued>>, rd[r].pc \in {"reload", "save"},
           rows' = rows \/ (rd[r].pc = "save" /\ rows' = Saved(rd[r]))
    PROVE  SeqInv'
<1> DEFINE m == rd[r]
<1>1. MemOk(binlog, m) /\ SeqOk(m) /\ SeqSaved /\ m.pc # "idle"
  BY MemoryOk DEF SeqInv, Running
<1>2. SeqSaved'
  <2>1. CASE rows' = rows
    BY <1>1, <2>1 DEF SeqSaved, Registered
  <2>2. CASE m.pc = "save" /\ rows' = Saved(m)
    BY <1>1, <2>2, SeqSavedBy
  <2> QED
    BY <2>1, <2>2
<1>3. CASE Leave(r)
  BY <1>1, <1>2, <1>3, SeqLeave
<1>4. ASSUME NEW n, Set(r, n), MemOk(binlog, n), Same(m, n), n.pc = "finish", n.cont = m.cont, n.cont # "start"
      PROVE  SeqInv'
  <2>1. n.tables = m.tables /\ n.seqNo = m.seqNo /\ ~InRow(n) /\ LastTaken(n) = LastTaken(m) /\ Limit(n) = n.seqNo
    BY <1>4 DEF Same, InRow, LastTaken, Limit
  <2>2. /\ m.seqNo \in Nat /\ Limit(m) <= Limit(n) /\ LastTaken(m) \in Int
    BY <1>1, <2>1, SeqTypes
  <2>3. SeqOk(n)'
    <3>1. CASE rows' = rows
      <4>1. issued' \in [1 .. MaxId -> Nat] /\ \A id \in 1 .. MaxId : issued'[id] <= issued[id]
        BY DEF Typed
      <4>2. \A k \in LastTaken(m) + 1 .. LastTaken(n) : k % SeqInterval # 0
        BY <2>1, <2>2
      <4>3. m.seqNo <= n.seqNo
        BY <2>1, <2>2
      <4> HIDE DEF m
      <4> QED
        BY <1>1, <1>4, <2>1, <2>2, <3>1, <4>1, <4>2, <4>3, SeqKeeps
    <3>2. CASE m.pc = "save" /\ rows' = Saved(m)
      <4> HIDE DEF m
      <4> QED
        BY <1>1, <1>4, <2>1, <2>2, <3>2, SeqSaves
    <3> QED
      BY <3>1, <3>2
  <2> QED
    BY <1>1, <1>2, <1>4, <2>3, SeqSet
<1> QED
  BY <1>3, <1>4 DEF Failed

\* Steps that take and issue no sequence number.
LEMMA SeqOrdinary ==
    ASSUME Typed, Inv, MaxKills = 0, SeqInv, NEW r \in Readers, NEW n, Set(r, n), MemOk(binlog, n),
           UNCHANGED <<rows, nextId, issued>>, Running(r), rd[r].cont = "none",
           n.tables = rd[r].tables, n.seqNo = rd[r].seqNo, n.cont \in {"none", "tick", "alter"},
           rd[r].pc # "push", n.pc # "push",
           rd[r].pc \in {"save", "finish"} => n.pc = "finish",
           InRow(n) => \/ InRow(rd[r]) /\ n.cur = rd[r].cur
                       \/ rd[r].pc # "save" /\ \E x \in Names : n.cur \in Range(rd[r].tables[x])
    PROVE  SeqInv'
<1> DEFINE m == rd[r]
<1>1. MemOk(binlog, m) /\ SeqOk(m) /\ SeqSaved /\ m.pc # "idle"
  BY MemoryOk DEF SeqInv, Running
<1>2. SeqSaved'
  BY <1>1 DEF SeqSaved, Registered
<1>3. Limit(m) = m.seqNo /\ Limit(n) = m.seqNo /\ LastTaken(m) = m.seqNo /\ LastTaken(n) = m.seqNo
  BY DEF Limit, LastTaken
<1>4. m.seqNo \in Nat
  BY <1>1, SeqTypes
<1>5. /\ issued' \in [1 .. MaxId -> Nat] /\ \A id \in 1 .. MaxId : issued'[id] <= issued[id]
  BY DEF Typed
<1>6. /\ m.seqNo <= n.seqNo /\ Limit(m) <= Limit(n)
      /\ \A k \in LastTaken(m) + 1 .. LastTaken(n) : k % SeqInterval # 0
  BY <1>3, <1>4
<1>7. m.cont # "start" /\ n.cont # "start" /\ n.tables = m.tables
  OBVIOUS
<1>8. /\ m.pc \in {"save", "finish"} => n.pc = "finish"
      /\ InRow(n) => \/ InRow(m) /\ n.cur = m.cur
                     \/ m.pc # "save" /\ \E x \in Names : n.cur \in Range(m.tables[x])
  OBVIOUS
<1>9. SeqOk(n)'
  <2> HIDE DEF m
  <2> QED
    BY <1>1, <1>5, <1>6, <1>7, <1>8, SeqKeeps
<1> QED
  BY <1>1, <1>2, <1>9, SeqSet

LEMMA SeqSmall ==
    ASSUME Typed, Inv, MaxKills = 0, SeqInv, NEW r \in Readers, NEW n, Set(r, n), MemOk(binlog, n),
           Small(r, n), UNCHANGED <<binlog, rows, nextId, issued>>
    PROVE  SeqInv'
<1> DEFINE m == rd[r]
<1>1. MemOk(binlog, m) /\ m \in Memory /\ SeqSaved
  BY MemoryOk DEF SeqInv
<1>2. SeqSaved'
  BY <1>1 DEF SeqSaved, Registered
<1>3. n.tables = m.tables /\ n.seqNo = m.seqNo /\ n.cur = m.cur
  BY DEF Small
<1>4. CASE m.pc = "idle" /\ n.pc = "begin"
  BY <1>2, <1>4, SeqSet
<1>5. CASE m.pc = "select" /\ n.pc = "reload" /\ n.cont = "tick"
  <2>1. m.cont = "none" /\ ~InRow(n) /\ Running(r)
    BY <1>1, <1>5 DEF MemOk, Memory, Conts, InRow, Running
  <2> QED
    BY <1>3, <1>5, <2>1, SeqOrdinary
<1>6. CASE m.pc \in {"select", "batch"} /\ n.pc \in {"commit", "finish"} /\ n.cont = m.cont
  <2>1. m.cont = "none" /\ ~InRow(n) /\ Running(r)
    BY <1>1, <1>6 DEF MemOk, Memory, Conts, InRow, Running
  <2> QED
    BY <1>3, <1>6, <2>1, SeqOrdinary
<1>7. CASE m.pc # "idle" /\ n.pc = m.pc /\ n.cont = m.cont
  <2>1. n.pc \notin {"idle", "begin"} => SeqOk(n)'
    <3> SUFFICES ASSUME n.pc \notin {"idle", "begin"} PROVE SeqOk(n)'
      OBVIOUS
    <3>1. SeqOk(m)
      BY <1>7 DEF SeqInv, Running
    <3>2. Limit(n) = Limit(m) /\ LastTaken(n) = LastTaken(m) /\ InRow(n) = InRow(m)
      BY <1>3, <1>7 DEF Limit, LastTaken, InRow
    <3>3. SeqOk(n)
      BY <1>3, <1>7, <3>1, <3>2 DEF SeqOk
    <3> QED
      BY <3>3 DEF SeqOk, Registered
  <2> QED
    BY <1>2, <2>1, SeqSet
<1> QED
  BY <1>4, <1>5, <1>6, <1>7 DEF Small

LEMMA SeqBegin == ASSUME Typed, Inv, MaxKills = 0, SeqInv, NEW r \in Readers, Begin(r) PROVE SeqInv'
<1>1. UNCHANGED <<binlog, nextId, issued>> /\ rd[r].pc = "begin" /\ BegunRows
  BY BeginIs
<1>2. \A t \in Tables : rows'[t] # None =>
         t \in Registered /\ rows'[t].id = rows[t].id /\ rows'[t].seq = rows[t].seq
  <2>1. \A t \in Registered : rows[t] \in Row
    BY DEF Typed
  <2>2. ASSUME NEW t \in Tables, rows'[t] # None,
               rows' = [u \in Tables |-> IF rows[u] = None THEN None ELSE [rows[u] EXCEPT !.gtid = Len(binlog)]]
        PROVE  t \in Registered /\ rows'[t].id = rows[t].id /\ rows'[t].seq = rows[t].seq
    <3>1. t \in Registered /\ rows'[t] = [rows[t] EXCEPT !.gtid = Len(binlog)]
      BY <2>2 DEF Registered
    <3> QED
      BY <2>1, <3>1 DEF Row
  <2> QED
    BY <1>1, <2>2 DEF BegunRows, Registered
<1>3. SeqSaved'
  <2>1. Registered' \subseteq Registered /\ \A t \in Registered' : rows'[t].id = rows[t].id /\ rows'[t].seq = rows[t].seq
    BY <1>2 DEF Registered
  <2>2. SeqSaved
    BY DEF SeqInv
  <2> QED
    BY <1>1, <2>1, <2>2 DEF SeqSaved
<1>4. CASE Leave(r)
  BY <1>1, <1>3, <1>4, SeqLeave
<1>5. ASSUME NEW n, Set(r, n), Begins(rd[r], n)
      PROVE  SeqInv'
  <2>1. n.pc = "reload" /\ n.cont = "start" /\ \A x \in Names : Range(n.tables[x]) = {}
    BY <1>5, RangeOfEmpty DEF Begins, NoTables
  <2>2. SeqOk(n)'
    BY <2>1 DEF SeqOk, InRow
  <2> QED
    BY <1>1, <1>3, <1>5, <2>2, SeqSet
<1> QED
  BY <1>4, <1>5, BeginIs

LEMMA SeqReloads == ASSUME Typed, Inv, MaxKills = 0, SeqInv, NEW r \in Readers, Reload(r) PROVE SeqInv'
<1>1. UNCHANGED <<binlog, rows, nextId, issued>> /\ rd[r].pc = "reload"
  BY ReloadIs
<1>2. MemOk(binlog, rd[r]) /\ SeqOk(rd[r]) /\ SeqSaved
  BY <1>1, MemoryOk DEF SeqInv, Running
<1>3. CASE Failed(r)
  BY <1>1, <1>3, SeqFailed
<1>4. ASSUME NEW n, Set(r, n), MemOk(binlog, n), Reloads(rd[r], n)
      PROVE  SeqInv'
  <2>1. SeqOk(n)'
    BY <1>1, <1>2, <1>4, SeqReload
  <2>2. SeqSaved'
    BY <1>1, <1>2 DEF SeqSaved, Registered
  <2> QED
    BY <1>1, <1>4, <2>1, <2>2, SeqSet
<1> QED
  BY <1>3, <1>4, ReloadIs

LEMMA SeqSaveStep == ASSUME Typed, Inv, MaxKills = 0, SeqInv, NEW r \in Readers, Save(r) PROVE SeqInv'
<1> DEFINE m == rd[r]
<1>1. UNCHANGED <<binlog, nextId, issued>> /\ m.pc = "save"
  BY SaveIs
<1>2. MemOk(binlog, m) /\ SeqOk(m) /\ SeqSaved
  BY <1>1, MemoryOk DEF SeqInv, Running
<1>3. CASE rows' \in {rows, Saved(m)} /\ Failed(r)
  BY <1>1, <1>3, SeqFailed
<1>4. ASSUME rows' = Saved(m), NEW n, Set(r, n), MemOk(binlog, n), Saves(m, n)
      PROVE  SeqInv'
  <2>1. /\ n.tables = m.tables /\ n.seqNo = m.seqNo /\ n.cont = "none" /\ n.cur = m.cur
        /\ \/ m.cont \in {"start", "tick"} /\ n.pc = "select"
           \/ m.cont = "row" /\ n.pc = "push"
           \/ m.cont = "alter" /\ n.pc = "mutate"
           \/ m.cont = "schema" /\ n.pc = "schema"
    BY <1>4 DEF Saves
  <2>2. InRow(n) => InRow(m) /\ n.cur = m.cur
    BY <1>1, <2>1 DEF InRow
  <2>3. Limit(n) = Limit(m)
    BY <1>1, <2>1 DEF Limit
  <2>4. Limit(m) <= Limit(n)
    <3>1. Limit(m) \in Int
      BY <1>2, SeqTypes
    <3> QED
      BY <2>3, <3>1
  <2>5. SeqOk(n)'
    <3> HIDE DEF m
    <3> QED
      BY <1>1, <1>2, <1>4, <2>1, <2>2, <2>4, SeqSaves
  <2>6. SeqSaved'
    BY <1>1, <1>2, <1>4, SeqSavedBy
  <2> QED
    BY <1>1, <1>4, <2>5, <2>6, SeqSet
<1> QED
  BY <1>3, <1>4, SaveIs

LEMMA SeqTake == ASSUME Typed, Inv, MaxKills = 0, SeqInv, NEW r \in Readers, TakeEvent(r) PROVE SeqInv'
<1>1. UNCHANGED <<binlog, rows, nextId, issued>> /\ rd[r].pc \in {"select", "batch"}
  BY TakeEventIs
<1>2. PICK n : Set(r, n) /\ MemOk(binlog, n) /\ Rest(rd[r], n) /\ Taken(rd[r], n)
  BY TakeEventIs
<1>3. MemOk(binlog, rd[r]) /\ rd[r] \in Memory /\ rd[r].cont = "none" /\ Running(r)
  BY <1>1, MemoryOk DEF MemOk, Memory, Conts, Running
<1>4. n.tables = rd[r].tables /\ n.seqNo = rd[r].seqNo /\ n.cont \in {"none", "alter"}
  BY <1>2 DEF Rest, Taken
<1>5. n.pc \in {"batch", "commit", "rows", "reload"}
  BY <1>2 DEF Taken
<1>6. InRow(n) => \E x \in Names : n.cur \in Range(rd[r].tables[x])
  <2> SUFFICES ASSUME InRow(n) PROVE \E x \in Names : n.cur \in Range(rd[r].tables[x])
    OBVIOUS
  <2>1. n.pc = "rows"
    BY <1>4, <1>5 DEF InRow
  <2> DEFINE x == At(binlog, n.pos).name
  <2>2. n.pos \in Positions(binlog) /\ rd[r].tables[x] # <<>> /\ n.cur = rd[r].tables[x][1]
    BY <1>2, <2>1 DEF Taken
  <2>3. x \in Names
    BY <2>2, EventName
  <2>4. rd[r].tables[x] \in Seq(Entry)
    BY <1>3, <2>3 DEF Memory
  <2>5. n.cur \in Range(rd[r].tables[x])
    <3> HIDE DEF x
    <3> QED
      BY <2>2, <2>4 DEF Range
  <2> QED
    BY <2>3, <2>5
<1> QED
  BY <1>1, <1>2, <1>3, <1>4, <1>5, <1>6, SeqOrdinary

\* The row that a reader is at gets a greater number than its table had.
LEMMA SeqIssued ==
    ASSUME Typed, NEW m, AtRow(binlog, m), m.pc \in {"rows", "push"}, SeqOk(m),
           NEW n, MemOk(binlog, n), Produced(m, n), n.pend # m.pend
    PROVE  /\ n.pend = Append(m.pend, [id |-> m.cur.id, ev |-> m.pos, row |-> m.row, seq |-> n.seqNo])
           /\ n.seqNo > issued[m.cur.id]
<1>1. MemOk(binlog, m) /\ InRow(m)
  BY AtRowOk DEF InRow
<1>2. m.seqNo \in Nat /\ n.seqNo \in Nat /\ m.cur.id \in 1 .. MaxId
  BY <1>1, SeqTypes
<1>3. issued[m.cur.id] \in Nat /\ issued[m.cur.id] <= Limit(m)
  BY <1>1, <1>2 DEF Typed, SeqOk
<1>4. \/ m.pc = "rows" /\ n.seqNo = m.seqNo + 1
      \/ m.pc = "push" /\ n.seqNo = m.seqNo
  BY DEF Produced
<1>5. m.pc = "rows" => Limit(m) = m.seqNo
  BY DEF Limit
<1>6. m.pc = "push" => Limit(m) = m.seqNo - 1
  BY DEF Limit
<1>7. n.seqNo > issued[m.cur.id]
  BY <1>2, <1>3, <1>4, <1>5, <1>6
<1> QED
  BY <1>7 DEF Produced

LEMMA SeqProduce == ASSUME Typed, Inv, MaxKills = 0, SeqInv, NEW r \in Readers, ProduceRow(r) PROVE SeqInv'
<1> DEFINE m == rd[r]
<1>1. UNCHANGED <<binlog, rows, nextId>> /\ AtRow(binlog, m) /\ m.pc \in {"rows", "push"}
  BY ProduceRowIs
<1>2. PICK n : Set(r, n) /\ MemOk(binlog, n) /\ Moved(m, n) /\ Produced(m, n)
  BY ProduceRowIs
<1>3. MemOk(binlog, m) /\ InRow(m) /\ m.cont = "none" /\ SeqOk(m) /\ SeqSaved
  BY <1>1, AtRowOk DEF InRow, AtRow, SeqInv, Running
<1>4. /\ m.seqNo \in Nat /\ n.seqNo \in Nat /\ m.cur.id \in 1 .. MaxId
      /\ Limit(m) \in Int /\ Limit(n) \in Int
  BY <1>2, <1>3, SeqTypes
<1>5. issued \in [1 .. MaxId -> Nat]
  BY DEF Typed
<1>6. LastTaken(m) = m.seqNo /\ (m.pc = "rows" => Limit(m) = m.seqNo) /\ (m.pc = "push" => Limit(m) = m.seqNo - 1)
  BY <1>3 DEF LastTaken, Limit
<1>7. CASE /\ m.pc = "rows" /\ n.seqNo = m.seqNo + 1 /\ SaveIsDue(n.seqNo) /\ UNCHANGED issued
           /\ n.pc = "reload" /\ n.cont = "row" /\ n.cur = m.cur
  <2>1. n.tables = m.tables /\ n.cont # "start" /\ m.cont # "start"
    BY <1>2, <1>3, <1>7 DEF Moved
  <2>2. Limit(n) = m.seqNo /\ LastTaken(n) = m.seqNo
    BY <1>4, <1>7 DEF Limit, LastTaken
  <2>3. /\ m.seqNo <= n.seqNo /\ Limit(m) <= Limit(n)
        /\ \A k \in LastTaken(m) + 1 .. LastTaken(n) : k % SeqInterval # 0
    BY <1>4, <1>6, <1>7, <2>2
  <2>4. issued' \in [1 .. MaxId -> Nat] /\ \A id \in 1 .. MaxId : issued'[id] <= issued[id]
    BY <1>5, <1>7
  <2>5. /\ m.pc \in {"save", "finish"} => n.pc = "finish"
        /\ InRow(n) => InRow(m) /\ n.cur = m.cur
    BY <1>1, <1>3, <1>7
  <2>6. SeqOk(n)'
    <3> HIDE DEF m
    <3> QED
      BY <1>1, <1>2, <1>3, <2>1, <2>3, <2>4, <2>5, SeqKeeps
  <2>7. SeqSaved'
    BY <1>1, <1>3, <1>7 DEF SeqSaved, Registered
  <2> QED
    BY <1>1, <1>2, <2>6, <2>7, SeqSet
<1>8. CASE /\ \/ m.pc = "rows" /\ n.seqNo = m.seqNo + 1 /\ ~SaveIsDue(n.seqNo)
              \/ m.pc = "push" /\ n.seqNo = m.seqNo
           /\ issued' = [issued EXCEPT ![m.cur.id] = IF @ < n.seqNo THEN n.seqNo ELSE @]
           /\ n.cont = "none"
           /\ OnRow(m, n) \/ n.pc = "finish"
  <2>1. n.tables = m.tables /\ n.cont # "start" /\ m.cont # "start"
    BY <1>2, <1>3, <1>8 DEF Moved
  <2>2. n.pc \in {"rows", "batch", "commit", "finish"} /\ LastTaken(n) = n.seqNo /\ Limit(n) = n.seqNo
    BY <1>8 DEF OnRow, LastTaken, Limit
  <2>3. /\ m.seqNo <= n.seqNo /\ Limit(m) <= Limit(n)
        /\ \A k \in LastTaken(m) + 1 .. LastTaken(n) : k % SeqInterval # 0
    <3>1. CASE m.pc = "rows" /\ n.seqNo = m.seqNo + 1 /\ ~SaveIsDue(n.seqNo)
      <4>1. n.seqNo % SeqInterval # 0
        BY <3>1 DEF SaveIsDue
      <4>2. \A k \in LastTaken(m) + 1 .. LastTaken(n) : k = n.seqNo
        BY <1>4, <1>6, <2>2, <3>1
      <4>3. m.seqNo <= n.seqNo /\ Limit(m) <= Limit(n)
        BY <1>4, <1>6, <2>2, <3>1
      <4> QED
        BY <4>1, <4>2, <4>3
    <3>2. CASE m.pc = "push" /\ n.seqNo = m.seqNo
      BY <1>4, <1>6, <2>2, <3>2
    <3> QED
      BY <1>8, <3>1, <3>2
  <2>4. issued' \in [1 .. MaxId -> Nat] /\ \A id \in 1 .. MaxId : issued'[id] <= issued[id] \/ issued'[id] <= Limit(n)
    <3>1. \A id \in 1 .. MaxId : issued[id] \in Nat
      BY <1>5
    <3>2. \A id \in 1 .. MaxId : issued'[id] = issued[id] \/ issued'[id] = n.seqNo
      BY <1>5, <1>8
    <3>3. issued' \in [1 .. MaxId -> Nat]
      BY <1>4, <1>5, <1>8
    <3>4. ASSUME NEW id \in 1 .. MaxId
          PROVE  issued'[id] <= issued[id] \/ issued'[id] <= Limit(n)
      <4>1. CASE issued'[id] = issued[id]
        BY <3>1, <4>1
      <4>2. CASE issued'[id] = n.seqNo
        BY <1>4, <2>2, <4>2
      <4> QED
        BY <3>2, <4>1, <4>2
    <3> QED
      BY <3>3, <3>4
  <2>5. InRow(n) => \/ InRow(m) /\ n.cur = m.cur
                    \/ m.pc # "save" /\ \E x \in Names : n.cur \in Range(m.tables[x])
    <3> SUFFICES ASSUME InRow(n), n.cur # m.cur
                 PROVE  m.pc # "save" /\ \E x \in Names : n.cur \in Range(m.tables[x])
      BY <1>3
    <3> DEFINE x == At(binlog, m.pos).name
               s == m.tables[x]
    <3>1. n.pc = "rows"
      BY <2>2 DEF InRow
    <3>2. m.i + 1 <= Len(s) /\ n.cur = s[m.i + 1]
      BY <1>8, <3>1 DEF OnRow
    <3>3. x \in Names /\ s \in Seq(Entry) /\ m.i \in Nat
      <4>1. x \in Names
        BY <1>1, EventName DEF AtRow
      <4> HIDE DEF x
      <4> QED
        BY <1>1, <4>1 DEF AtRow, Memory
    <3>4. n.cur \in Range(s)
      <4> HIDE DEF s
      <4> QED
        BY <3>2, <3>3 DEF Range
    <3> QED
      BY <1>1, <3>3, <3>4
  <2>6. SeqOk(n)'
    <3>1. m.pc \in {"save", "finish"} => n.pc = "finish"
      BY <1>1
    <3> HIDE DEF m
    <3> QED
      BY <1>1, <1>2, <1>3, <2>1, <2>3, <2>4, <2>5, <3>1, SeqKeeps
  <2>7. ASSUME NEW t \in Registered, rows[t].id = m.cur.id
        PROVE  rows[t].seq # 0 /\ n.seqNo <= rows[t].seq + SeqInterval
    <3>1. rows[t].seq # 0
      BY <1>3, <2>7 DEF SeqOk
    <3>2. rows[t].seq \in Nat
      BY RowTypes
    <3>3. rows[t].seq <= m.seqNo /\ \A k \in rows[t].seq + 1 .. m.seqNo : k % SeqInterval # 0
      BY <1>3, <1>6, <3>1 DEF SeqOk
    <3>4. PICK k \in rows[t].seq + 1 .. rows[t].seq + SeqInterval : k % SeqInterval = 0
      BY <3>2, Multiples
    <3>5. k > m.seqNo /\ SeqInterval \in Nat
      BY <1>4, <3>2, <3>3, <3>4, SeqIntervalAssumption
    <3>6. n.seqNo <= m.seqNo + 1
      BY <1>4, <1>8
    <3> QED
      BY <1>4, <3>1, <3>2, <3>4, <3>5, <3>6
  <2>8. SeqSaved'
    <3>1. \A id \in 1 .. MaxId : id >= nextId => issued'[id] = 0
      <4>1. \A id \in 1 .. MaxId : id >= nextId => issued[id] = 0
        BY <1>3 DEF SeqSaved
      <4>2. m.cur.id < nextId /\ nextId \in Nat
        BY <1>3 DEF SeqOk, Typed
      <4>3. \A id \in 1 .. MaxId : id >= nextId => id # m.cur.id
        BY <1>4, <4>2
      <4> QED
        BY <1>5, <1>8, <4>1, <4>3
    <3>2. ASSUME NEW t \in Registered
          PROVE  IF rows[t].seq = 0 THEN issued'[rows[t].id] = 0
                 ELSE issued'[rows[t].id] <= rows[t].seq + SeqInterval
      <4>1. /\ rows[t].id \in 1 .. MaxId
            /\ IF rows[t].seq = 0 THEN issued[rows[t].id] = 0
               ELSE issued[rows[t].id] <= rows[t].seq + SeqInterval
        BY <1>3, RowTypes DEF SeqSaved
      <4>2. CASE rows[t].id # m.cur.id
        BY <1>5, <1>8, <4>1, <4>2
      <4>3. CASE rows[t].id = m.cur.id
        <5>1. issued'[rows[t].id] \in {issued[rows[t].id], n.seqNo}
          BY <1>5, <1>8, <4>1, <4>3
        <5> QED
          BY <2>7, <4>1, <4>3, <5>1
      <4> QED
        BY <4>2, <4>3
    <3>3. Registered' = Registered
      BY <1>1 DEF Registered
    <3> QED
      BY <1>1, <1>3, <3>1, <3>2, <3>3 DEF SeqSaved
  <2> QED
    BY <1>1, <1>2, <2>6, <2>8, SeqSet
<1> QED
  BY <1>2, <1>7, <1>8 DEF Produced

LEMMA SeqAlter == ASSUME Typed, Inv, MaxKills = 0, SeqInv, NEW r \in Readers, AlterTable(r) PROVE SeqInv'
<1> DEFINE m == rd[r]
<1>1. UNCHANGED <<binlog, rows, nextId, issued>> /\ m.pc \in {"mutate", "schema"}
  BY AlterTableIs
<1>2. MemOk(binlog, m) /\ m \in Memory /\ m.cont = "none" /\ SeqOk(m) /\ SeqSaved
  BY <1>1, MemoryOk DEF MemOk, Memory, Conts, SeqInv, Running
<1>3. SeqSaved'
  BY <1>1, <1>2 DEF SeqSaved, Registered
<1>4. CASE Leave(r)
  BY <1>1, <1>3, <1>4, SeqLeave
<1>5. ASSUME NEW n, Set(r, n), MemOk(binlog, n), Moved(m, n), Altered(m, n)
      PROVE  SeqInv'
  <2>1. m.seqNo \in Nat /\ n.seqNo \in Nat /\ LastTaken(m) = m.seqNo /\ Limit(m) = m.seqNo
    BY <1>1, <1>2, <1>5, SeqTypes DEF LastTaken, Limit
  <2>2. /\ n.tables = m.tables /\ n.cont \in {"none", "schema"} /\ n.pc \in {"batch", "commit", "finish", "reload"}
        /\ n.cont = "schema" <=> n.pc = "reload"
    BY <1>5 DEF Moved, Altered
  <2>3. Limit(n) = n.seqNo /\ ~InRow(n)
    BY <2>2 DEF Limit, InRow
  <2>4. /\ m.seqNo <= n.seqNo /\ LastTaken(n) \in Int
        /\ \A k \in LastTaken(m) + 1 .. LastTaken(n) : k % SeqInterval # 0
    <3>1. CASE n.cont = "none" /\ n.seqNo = m.seqNo
      <4>1. LastTaken(n) = m.seqNo
        BY <3>1 DEF LastTaken
      <4> QED
        BY <2>1, <3>1, <4>1
    <3>2. CASE n.cont = "none" /\ n.seqNo = m.seqNo + 1 /\ ~SaveIsDue(n.seqNo)
      <4>1. LastTaken(n) = n.seqNo /\ n.seqNo % SeqInterval # 0
        BY <3>2 DEF LastTaken, SaveIsDue
      <4>2. \A k \in LastTaken(m) + 1 .. LastTaken(n) : k = n.seqNo
        BY <2>1, <3>2, <4>1
      <4> QED
        BY <2>1, <3>2, <4>1, <4>2
    <3>3. CASE n.cont = "schema" /\ n.seqNo = m.seqNo + 1
      <4>1. LastTaken(n) = n.seqNo - 1
        BY <3>3 DEF LastTaken
      <4> QED
        BY <2>1, <3>3, <4>1
    <3> QED
      BY <1>5, <3>1, <3>2, <3>3 DEF Altered
  <2>5. issued' \in [1 .. MaxId -> Nat] /\ \A id \in 1 .. MaxId : issued'[id] <= issued[id]
    BY <1>1 DEF Typed
  <2>6. SeqOk(n)'
    <3>1. m.pc \notin {"save", "finish"} /\ m.cont # "start" /\ n.cont # "start" /\ Limit(m) <= Limit(n)
      BY <1>1, <1>2, <2>1, <2>2, <2>3, <2>4
    <3> HIDE DEF m
    <3> QED
      BY <1>1, <1>2, <1>5, <2>2, <2>3, <2>4, <2>5, <3>1, SeqKeeps
  <2> QED
    BY <1>1, <1>3, <1>5, <2>6, SeqSet
<1> QED
  BY <1>4, <1>5, AlterTableIs

LEMMA SeqReader ==
    ASSUME Typed, Inv, MaxKills = 0, SeqInv, NEW r \in Readers,
           ReaderStep(r) \/ FetchFailed(r) \/ Shutdown(r) \/ Crash(r)
    PROVE  SeqInv'
<1>1. CASE LockCluster(r) \/ Tick(r) \/ FetchFailed(r) \/ EndBatch(r) \/ Stop(r) \/ Shutdown(r)
  BY <1>1, SmallIs, SeqSmall
<1>2. CASE Commit(r)
  <2>1. UNCHANGED <<binlog, rows, nextId, issued>> /\ rd[r].pc = "commit"
    BY <1>2, CommitIs
  <2>2. PICK n : Set(r, n) /\ MemOk(binlog, n) /\ Committed(rd[r], n)
    BY <1>2, CommitIs
  <2>3. rd[r].cont = "none" /\ Running(r)
    BY <2>1, MemoryOk DEF MemOk, Memory, Conts, Running
  <2>4. /\ n.tables = rd[r].tables /\ n.seqNo = rd[r].seqNo /\ n.cont = "none"
        /\ n.pc \in {"select", "finish"} /\ ~InRow(n)
    BY <2>2 DEF Committed, InRow
  <2> QED
    BY <2>1, <2>2, <2>3, <2>4, SeqOrdinary
<1>3. CASE Finish(r) \/ Crash(r)
  <2>1. /\ UNCHANGED <<binlog, nextId, issued>> /\ Leave(r) /\ rd[r].pc # "idle"
        /\ rows' = rows \/ (rd[r].pc = "finish" /\ rows' = Saved(rd[r]))
    BY <1>3 DEF Finish, Crash
  <2>2. SeqSaved'
    <3>1. CASE rows' = rows
      BY <2>1, <3>1 DEF SeqInv, SeqSaved, Registered
    <3>2. CASE rd[r].pc = "finish" /\ rows' = Saved(rd[r])
      <4>1. MemOk(binlog, rd[r]) /\ SeqOk(rd[r]) /\ SeqSaved /\ rd[r].cont # "start"
        BY <3>2, MemoryOk DEF SeqInv, Running, MemOk
      <4> QED
        BY <2>1, <3>2, <4>1, SeqSavedBy
    <3> QED
      BY <2>1, <3>1, <3>2
  <2> QED
    BY <2>1, <2>2, SeqLeave
<1> QED
  BY <1>1, <1>2, <1>3, SeqBegin, SeqReloads, SeqSaveStep, SeqTake, SeqProduce, SeqAlter DEF ReaderStep

\* A registration: nothing was issued to it.
LEMMA SeqRegister == ASSUME Typed, SeqInv, NEW t \in Tables, Register(t) PROVE SeqInv'
<1> DEFINE new == [id |-> nextId, gtid |-> NoGtid, seq |-> 0]
<1>1. /\ rows' = [u \in Tables |-> IF u = t THEN new ELSE rows[u]]
      /\ nextId' = nextId + 1 /\ nextId <= MaxId /\ UNCHANGED <<binlog, rd, issued>>
  BY DEF Register, Typed
<1>2. nextId \in 1 .. MaxId /\ issued[nextId] = 0
  <2>1. nextId \in 1 .. MaxId
    BY <1>1, BoundsAssumption DEF Typed
  <2> QED
    BY <2>1 DEF SeqInv, SeqSaved
<1>3. \A u \in Registered' :
         \/ u \in Registered /\ rows'[u] = rows[u]
         \/ rows'[u].id = nextId /\ rows'[u].seq = 0
  <2>1. new.id = nextId /\ new.seq = 0
    OBVIOUS
  <2> HIDE DEF new
  <2>2. ASSUME NEW u \in Registered'
        PROVE  \/ u \in Registered /\ rows'[u] = rows[u]
               \/ rows'[u].id = nextId /\ rows'[u].seq = 0
    <3>1. CASE u = t
      BY <1>1, <2>1, <3>1 DEF Registered
    <3>2. CASE u # t
      BY <1>1, <2>2, <3>2 DEF Registered
    <3> QED
      BY <3>1, <3>2
  <2> QED
    BY <2>2
<1>4. SeqSaved'
  <2>1. \A id \in 1 .. MaxId : id >= nextId' => issued'[id] = 0
    <3>1. \A id \in 1 .. MaxId : id >= nextId => issued[id] = 0
      BY DEF SeqInv, SeqSaved
    <3> QED
      BY <1>1, <1>2, <3>1
  <2>2. \A u, v \in Registered' : 0 \in {rows'[u].seq, rows'[v].seq} \/ rows'[u].seq = rows'[v].seq
    BY <1>3 DEF SeqInv, SeqSaved
  <2>3. \A u \in Registered' : IF rows'[u].seq = 0 THEN issued'[rows'[u].id] = 0
                              ELSE issued'[rows'[u].id] <= rows'[u].seq + SeqInterval
    BY <1>1, <1>2, <1>3 DEF SeqInv, SeqSaved
  <2> QED
    BY <2>1, <2>2, <2>3 DEF SeqSaved
<1>5. ASSUME NEW r \in Readers, Running(r)
      PROVE  SeqOk(rd[r])'
  <2> DEFINE m == rd[r]
  <2>1. MemOk(binlog, m) /\ SeqOk(m)
    BY <1>5, MemoryOk DEF SeqInv
  <2>2. m.seqNo \in Nat /\ Limit(m) \in Int /\ LastTaken(m) \in Int /\ Limit(m) \in {m.seqNo, m.seqNo - 1}
    BY <2>1, SeqTypes DEF Limit
  <2>3. \A x \in Names : \A e \in Range(m.tables[x]) : e.id < nextId' /\ e.id # nextId /\ issued[e.id] <= Limit(m)
    <3>1. ASSUME NEW x \in Names, NEW e \in Range(m.tables[x])
          PROVE  e.id < nextId' /\ e.id # nextId /\ issued[e.id] <= Limit(m)
      <4>1. e.id \in 1 .. MaxId
        BY <2>1, SeqTypes
      <4>2. e.id < nextId /\ issued[e.id] <= Limit(m)
        BY <2>1 DEF SeqOk
      <4> QED
        BY <1>1, <1>2, <4>1, <4>2
    <3> QED
      BY <3>1
  <2>4. InRow(m) => m.cur.id < nextId' /\ m.cur.id # nextId /\ issued[m.cur.id] <= Limit(m)
    <3>1. InRow(m) => m.cur.id \in 1 .. MaxId /\ m.cur.id < nextId /\ issued[m.cur.id] <= Limit(m)
      BY <2>1, SeqTypes DEF SeqOk
    <3> QED
      BY <1>1, <1>2, <3>1
  <2>5. m.pc = "save" \/ m.cont # "start" =>
           m.seqNo >= 1 /\ \A u \in Registered' : issued[rows'[u].id] <= Limit(m)
    <3>1. m.pc = "save" \/ m.cont # "start" =>
             m.seqNo >= 1 /\ \A u \in Registered : issued[rows[u].id] <= Limit(m)
      BY <2>1 DEF SeqOk
    <3>2. m.seqNo >= 1 => issued[nextId] <= Limit(m)
      BY <1>2, <2>2
    <3> QED
      BY <1>3, <3>1, <3>2
  <2>6. m.cont # "start" => \A u \in Registered' : rows'[u].seq # 0 =>
           rows'[u].seq <= m.seqNo /\ \A k \in rows'[u].seq + 1 .. LastTaken(m) : k % SeqInterval # 0
    BY <1>3, <2>1 DEF SeqOk
  <2>7. m.pc \notin {"save", "finish"} => \A u \in Registered' : \A x \in Names :
           \A e \in Range(m.tables[x]) : rows'[u].id = e.id => rows'[u].seq # 0
    BY <1>3, <2>1, <2>3 DEF SeqOk
  <2>8. InRow(m) => \A u \in Registered' : rows'[u].id = m.cur.id => rows'[u].seq # 0
    BY <1>3, <2>1, <2>4 DEF SeqOk
  <2>9. rd'[r] = m
    BY <1>1
  <2> HIDE DEF m
  <2> QED
    BY <1>1, <2>3, <2>4, <2>5, <2>6, <2>7, <2>8, <2>9 DEF SeqOk, Limit, LastTaken, InRow
<1>6. \A r \in Readers : Running(r)' => Running(r)
  BY <1>1 DEF Running
<1> QED
  BY <1>4, <1>5, <1>6 DEF SeqInv

LEMMA SeqNext == MaxKills = 0 /\ Typed /\ Inv /\ SeqInv /\ [Next]_vars => SeqInv'
<1> SUFFICES ASSUME MaxKills = 0, Typed, Inv, SeqInv, [Next]_vars PROVE SeqInv'
  OBVIOUS
<1>1. CASE UNCHANGED <<rows, nextId, rd, issued>>
  BY <1>1 DEF SeqInv, SeqSaved, SeqOk, Running, Registered, Limit, LastTaken, InRow
<1>2. ASSUME NEW t \in Tables, Deregister(t)
      PROVE  SeqInv'
  <2>1. rows' = [u \in Tables |-> IF u = t THEN None ELSE rows[u]] /\ UNCHANGED <<nextId, rd, issued>>
    BY <1>2 DEF Deregister, Typed
  <2>2. \A u \in Registered' : u \in Registered /\ rows'[u] = rows[u]
    BY <2>1 DEF Registered
  <2>3. SeqSaved'
    BY <2>1, <2>2 DEF SeqInv, SeqSaved
  <2>4. ASSUME NEW r \in Readers, Running(r)
        PROVE  SeqOk(rd[r])'
    <3> DEFINE m == rd[r]
    <3>1. SeqOk(m) /\ rd'[r] = m
      BY <2>1, <2>4 DEF SeqInv
    <3>2. /\ \A x \in Names : \A e \in Range(m.tables[x]) : e.id < nextId /\ issued[e.id] <= Limit(m)
          /\ InRow(m) => m.cur.id < nextId /\ issued[m.cur.id] <= Limit(m)
      BY <3>1 DEF SeqOk
    <3>3. /\ m.pc = "save" \/ m.cont # "start" =>
                m.seqNo >= 1 /\ \A u \in Registered' : issued[rows'[u].id] <= Limit(m)
          /\ m.cont # "start" => \A u \in Registered' : rows'[u].seq # 0 =>
                rows'[u].seq <= m.seqNo /\ \A k \in rows'[u].seq + 1 .. LastTaken(m) : k % SeqInterval # 0
      BY <2>2, <3>1 DEF SeqOk
    <3>4. /\ m.pc \notin {"save", "finish"} => \A u \in Registered' : \A x \in Names :
                \A e \in Range(m.tables[x]) : rows'[u].id = e.id => rows'[u].seq # 0
          /\ InRow(m) => \A u \in Registered' : rows'[u].id = m.cur.id => rows'[u].seq # 0
      BY <2>2, <3>1 DEF SeqOk
    <3> HIDE DEF m
    <3> QED
      BY <2>1, <3>1, <3>2, <3>3, <3>4 DEF SeqOk, Limit, LastTaken, InRow
  <2>5. \A r \in Readers : Running(r)' => Running(r)
    BY <2>1 DEF Running
  <2> QED
    BY <2>3, <2>4, <2>5 DEF SeqInv
<1>3. CASE CommitTx \/ LoseLock
  BY <1>1, <1>3 DEF CommitTx, LoseLock
<1> QED
  BY <1>1, <1>2, <1>3, SeqRegister, SeqReader DEF Next, vars

LEMMA InitSeq == Init => SeqInv
<1> SUFFICES ASSUME Init PROVE SeqInv
  OBVIOUS
<1>1. Registered = {} /\ \A id \in 1 .. MaxId : issued[id] = 0
  BY DEF Init, Registered
<1>2. \A r \in Readers : ~Running(r)
  BY DEF Init, Running, IdleReader
<1> QED
  BY <1>1, <1>2 DEF SeqInv, SeqSaved

\* What a step pushes has a greater number than any its table was given.
SeqStep ==
    \A r \in Readers :
       Len(rd'[r].pend) > Len(rd[r].pend) =>
           Last(rd'[r].pend).seq > issued[Last(rd'[r].pend).id]

LEMMA OnePushes ==
    ASSUME Typed, NEW r \in Readers, NEW n, Set(r, n),
           \/ n.pend = rd[r].pend \/ n.pend = <<>>
           \/ \E x : n.pend = Append(rd[r].pend, x) /\ x.seq > issued[x.id]
    PROVE  SeqStep
<1>1. rd' = [q \in Readers |-> IF q = r THEN n ELSE rd[q]]
  BY SetIs
<1>2. \A q \in Readers : rd[q].pend \in Seq(Msg)
  BY MemoryOk DEF Memory
<1>3. ASSUME NEW q \in Readers, Len(rd'[q].pend) > Len(rd[q].pend)
      PROVE  Last(rd'[q].pend).seq > issued[Last(rd'[q].pend).id]
  <2> DEFINE s == rd[q].pend
  <2>1. s \in Seq(Msg) /\ Len(s) \in Nat /\ ~(Len(s) > Len(s))
    BY <1>2
  <2>2. q = r
    BY <1>1, <1>3, <2>1
  <2>3. rd'[q].pend = n.pend
    BY <1>1, <2>2
  <2>4. n.pend # s
    BY <1>3, <2>1, <2>3
  <2>5. n.pend # <<>>
    BY <1>3, <2>1, <2>3
  <2>6. PICK x : n.pend = Append(s, x) /\ x.seq > issued[x.id]
    BY <2>2, <2>4, <2>5
  <2>7. Last(Append(s, x)) = x
    <3> HIDE DEF s
    <3> QED
      BY <2>1 DEF Last
  <2> QED
    BY <2>3, <2>6, <2>7
<1> QED
  BY <1>3 DEF SeqStep

LEMMA NonePushes ==
    ASSUME Typed, UNCHANGED rd
    PROVE  SeqStep
<1>1. \A q \in Readers : rd[q].pend \in Seq(Msg)
  BY MemoryOk DEF Memory
<1>2. \A q \in Readers : ~(Len(rd[q].pend) > Len(rd[q].pend))
  BY <1>1
<1> QED
  BY <1>2 DEF SeqStep

LEMMA LeavePushes == ASSUME Typed, NEW r \in Readers, Leave(r) PROVE SeqStep
<1>1. Set(r, IdleReader) /\ IdleReader.pend = <<>>
  BY LeaveIs DEF IdleReader
<1> QED
  BY <1>1, OnePushes

LEMMA FailedPushes == ASSUME Typed, NEW r \in Readers, Failed(r) PROVE SeqStep
<1>1. ASSUME NEW n, Set(r, n), Same(rd[r], n)
      PROVE  SeqStep
  BY <1>1, OnePushes DEF Same
<1> QED
  BY <1>1, LeavePushes DEF Failed

LEMMA SeqStepOk == MaxKills = 0 /\ Typed /\ Inv /\ SeqInv /\ [Next]_vars => SeqStep
<1> SUFFICES ASSUME MaxKills = 0, Typed, SeqInv, [Next]_vars PROVE SeqStep
  OBVIOUS
<1>1. CASE UNCHANGED rd
  BY <1>1, NonePushes
<1>2. ASSUME NEW r \in Readers, ReaderStep(r) \/ FetchFailed(r) \/ Shutdown(r) \/ Crash(r)
      PROVE  SeqStep
  <2>1. CASE LockCluster(r) \/ Tick(r) \/ FetchFailed(r) \/ EndBatch(r) \/ Stop(r) \/ Shutdown(r)
    <3>1. PICK n : Set(r, n) /\ Small(r, n)
      BY <2>1, SmallIs
    <3> QED
      BY <3>1, OnePushes DEF Small
  <2>2. CASE Begin(r)
    <3>1. ASSUME NEW n, Set(r, n), Begins(rd[r], n)
          PROVE  SeqStep
      BY <3>1, OnePushes DEF Begins
    <3> QED
      BY <2>2, <3>1, BeginIs, LeavePushes
  <2>3. CASE Reload(r)
    <3>1. ASSUME NEW n, Set(r, n), Reloads(rd[r], n)
          PROVE  SeqStep
      BY <3>1, OnePushes DEF Reloads
    <3> QED
      BY <2>3, <3>1, ReloadIs, FailedPushes
  <2>4. CASE Save(r)
    <3>1. ASSUME NEW n, Set(r, n), Saves(rd[r], n)
          PROVE  SeqStep
      BY <3>1, OnePushes DEF Saves
    <3> QED
      BY <2>4, <3>1, SaveIs, FailedPushes
  <2>5. CASE TakeEvent(r)
    <3>1. PICK n : Set(r, n) /\ Rest(rd[r], n)
      BY <2>5, TakeEventIs
    <3> QED
      BY <3>1, OnePushes DEF Rest
  <2>6. CASE ProduceRow(r)
    <3>1. AtRow(binlog, rd[r]) /\ rd[r].pc \in {"rows", "push"}
      BY <2>6, ProduceRowIs
    <3>2. PICK n : Set(r, n) /\ MemOk(binlog, n) /\ Produced(rd[r], n)
      BY <2>6, ProduceRowIs
    <3>3. SeqOk(rd[r])
      BY <3>1 DEF SeqInv, Running
    <3>4. CASE n.pend = rd[r].pend
      BY <3>2, <3>4, OnePushes
    <3>5. CASE n.pend # rd[r].pend
      <4> DEFINE x == [id |-> rd[r].cur.id, ev |-> rd[r].pos, row |-> rd[r].row, seq |-> n.seqNo]
      <4>1. n.pend = Append(rd[r].pend, x) /\ n.seqNo > issued[rd[r].cur.id]
        BY <3>1, <3>2, <3>3, <3>5, SeqIssued
      <4>2. x.seq > issued[x.id]
        BY <4>1
      <4> HIDE DEF x
      <4> QED
        BY <3>2, <4>1, <4>2, OnePushes
    <3> QED
      BY <3>4, <3>5
  <2>7. CASE AlterTable(r)
    <3>1. ASSUME NEW n, Set(r, n), n.pend = rd[r].pend
          PROVE  SeqStep
      BY <3>1, OnePushes
    <3> QED
      BY <2>7, <3>1, AlterTableIs, LeavePushes
  <2>8. CASE Commit(r)
    <3>1. PICK n : Set(r, n) /\ Committed(rd[r], n)
      BY <2>8, CommitIs
    <3> QED
      BY <3>1, OnePushes DEF Committed
  <2>9. CASE Finish(r) \/ Crash(r)
    BY <2>9, LeavePushes DEF Finish, Crash
  <2> QED
    BY <1>2, <2>1, <2>2, <2>3, <2>4, <2>5, <2>6, <2>7, <2>8, <2>9 DEF ReaderStep
<1>3. ASSUME NEW t \in Tables, Register(t) \/ Deregister(t)
      PROVE  SeqStep
  BY <1>1, <1>3 DEF Register, Deregister
<1>4. CASE CommitTx \/ LoseLock
  BY <1>1, <1>4 DEF CommitTx, LoseLock
<1> QED
  BY <1>1, <1>2, <1>3, <1>4 DEF Next, vars

\* While no session of the lock is lost, a message has a greater sequence number
\* than every one given before to its registration, by this reader or another one
\* before it (mysql.go, getSeqNo, nextSeqNo and readEvents).
THEOREM SeqNosAdvance == ASSUME MaxKills = 0 PROVE Spec => SeqNoAdvances
<1> DEFINE All == Typed /\ Inv /\ SeqInv
<1>1. Init => All
  BY InitTyped, InitInv, InitSeq
<1>2. All /\ [Next]_vars => All'
  BY TypedNext, NextOk, SeqNext DEF StepOk
<1>3. All /\ [Next]_vars => [SeqStep]_vars
  BY SeqStepOk
<1>4. Spec => [][SeqStep]_vars
  BY <1>1, <1>2, <1>3, PTL DEF Spec
<1> QED
  BY <1>4 DEF SeqNoAdvances, SeqStep

-----------------------------------------------------------------------------
(* The cluster's lock.  A reader is awake while its worker believes it has *)
(* the lock; its steps keep it awake, or give the lock up.                 *)

HasLock == IF lockBy = None THEN {} ELSE {<<lockBy, "cluster">>}
Awake == {r \in Readers : rd[r].pc # "idle"}

LEMMA LockStays == ASSUME UNCHANGED <<HasLock, Awake>> PROVE UNCHANGED ClusterLock!vars
BY DEF ClusterLock!vars, HasLock, Awake

LEMMA StaysAwake ==
    ASSUME Inv, NEW r \in Readers, rd[r].pc # "idle", NEW n, n.pc # "idle", Set(r, n)
    PROVE  UNCHANGED Awake
<1>1. rd' = [q \in Readers |-> IF q = r THEN n ELSE rd[q]]
  BY DEF Set, Inv, TypeInv
<1> QED
  BY <1>1 DEF Awake

LEMMA Quietly ==
    ASSUME Inv, NEW r \in Readers, rd[r].pc # "idle", NEW n, n.pc # "idle", Set(r, n), UNCHANGED lockBy
    PROVE  UNCHANGED ClusterLock!vars
BY StaysAwake, LockStays DEF HasLock

LEMMA GivesUp ==
    ASSUME Inv, NEW r \in Readers, Leave(r)
    PROVE  ClusterLock!Next
<1>1. rd' = [q \in Readers |-> IF q = r THEN IdleReader ELSE rd[q]]
  BY DEF Leave, Set, Inv, TypeInv
<1>2. Awake' = Awake \ {r}
  BY <1>1 DEF Awake, IdleReader
<1>3. HasLock' = {h \in HasLock : h[1] # r}
  BY NoneAssumption DEF HasLock, Leave
<1> QED
  BY <1>2, <1>3 DEF ClusterLock!Next, ClusterLock!GiveUp, ClusterLock!Without, HasLock, Awake

LEMMA Takes ==
    ASSUME lockBy = None, NEW r \in Readers, lockBy' = r, Awake' = Awake \cup {r}
    PROVE  ClusterLock!Next
<1>1. HasLock = {} /\ HasLock' = {<<r, "cluster">>}
  BY NoneAssumption DEF HasLock
<1> QED
  BY <1>1 DEF ClusterLock!Next, ClusterLock!Take, ClusterLock!HasNone, ClusterLock!Free, HasLock, Awake

LEMMA AwakeOps ==
    ASSUME NEW m, IsReader(m)
    PROVE  /\ \A caller : UpdateState(m, caller).pc # "idle"
           /\ BatchFailed(m).pc # "idle" /\ Handled(m).pc # "idle" /\ AfterRow(m).pc # "idle"
           /\ \A i : NextEntry(m, i).pc # "idle"
<1>1. \A x, caller : [m EXCEPT !.pc = x, !.cont = caller].pc = x /\ [m EXCEPT !.pc = x].pc = x
  BY DEF IsReader
<1>2. Handled(m).pc # "idle"
  <2> DEFINE pc == IF m.cnt + 1 >= BatchSize * NumTables(m) THEN "commit" ELSE "batch"
             cnt == m.cnt + 1
  <2>1. Handled(m) = [m EXCEPT !.cnt = cnt, !.i = 0, !.cur = NoEntry, !.row = 0, !.pc = pc] /\ pc # "idle"
    BY DEF Handled
  <2> HIDE DEF pc, cnt
  <2> QED
    BY <2>1 DEF IsReader
<1>3. ASSUME NEW i PROVE NextEntry(m, i).pc # "idle"
  <2> DEFINE e == m.tables[EventAt(m.pos).name][i]
  <2>1. NextEntry(m, i) \in {Handled(m), [m EXCEPT !.pc = "rows", !.i = i, !.cur = e, !.row = 1]}
    BY DEF NextEntry
  <2> HIDE DEF e
  <2>2. [m EXCEPT !.pc = "rows", !.i = i, !.cur = e, !.row = 1].pc # "idle"
    BY DEF IsReader
  <2> QED
    BY <2>1, <2>2, <1>2
<1>4. AfterRow(m).pc # "idle"
  <2> DEFINE row == m.row + 1
  <2>1. AfterRow(m) \in {NextEntry(m, m.i + 1), [m EXCEPT !.pc = "rows", !.row = row]}
    BY DEF AfterRow
  <2> HIDE DEF row
  <2>2. [m EXCEPT !.pc = "rows", !.row = row].pc # "idle"
    BY DEF IsReader
  <2> QED
    BY <2>1, <2>2, <1>3
<1> QED
  BY <1>1, <1>2, <1>3, <1>4 DEF UpdateState, BatchFailed

LEMMA PushesAwake ==
    ASSUME Inv, NEW r \in Readers, rd[r].pc # "idle", NEW m, IsReader(m), PushRow(r, m), UNCHANGED lockBy
    PROVE  UNCHANGED ClusterLock!vars
<1> DEFINE n == [m EXCEPT !.pend = Append(@, Message(m))]
           pend == Append(m.pend, Message(m))
<1>1. n = [m EXCEPT !.pend = pend]
  OBVIOUS
<1> HIDE DEF pend
<1>2. IsReader(n)
  BY <1>1, Counts DEF Stays
<1>3. Set(r, AfterRow(n)) \/ Set(r, BatchFailed(m)) \/ Set(r, AfterRow(m))
  BY DEF PushRow
<1> HIDE DEF n
<1> QED
  BY <1>2, <1>3, AwakeOps, Quietly

LEMMA UpdateFailedMaps ==
    ASSUME Inv, NEW r \in Readers, rd[r].pc # "idle", UpdateFailed(r)
    PROVE  ClusterLock!Next \/ UNCHANGED ClusterLock!vars
<1> DEFINE n == [rd[r] EXCEPT !.pc = "finish"]
<1>1. n.pc # "idle"
  BY DEF Inv, TypeInv, IsReader
<1>2. Leave(r) \/ (Set(r, n) /\ UNCHANGED lockBy)
  BY DEF UpdateFailed
<1> HIDE DEF n
<1> QED
  BY <1>1, <1>2, GivesUp, Quietly

LEMMA BeginMaps ==
    ASSUME Inv, NEW r \in Readers, Begin(r)
    PROVE  ClusterLock!Next \/ UNCHANGED ClusterLock!vars
<1>1. rd[r].pc # "idle" /\ IsReader(rd[r])
  BY DEF Begin, Inv, TypeInv
<1>2. \A g : StartAt(rd[r], g).pc # "idle"
  <2> SUFFICES ASSUME NEW g PROVE StartAt(rd[r], g).pc # "idle"
    OBVIOUS
  <2> DEFINE pos == <<g, Size(g)>>
  <2>1. StartAt(rd[r], g) = [rd[r] EXCEPT !.pc = "reload", !.cont = "start", !.pos = pos]
    BY DEF StartAt
  <2> HIDE DEF pos
  <2> QED
    BY <1>1, <2>1 DEF IsReader
<1>3. (\E g : Set(r, StartAt(rd[r], g)) /\ UNCHANGED lockBy) \/ Leave(r)
  BY DEF Begin
<1> QED
  BY <1>1, <1>2, <1>3, GivesUp, Quietly

LEMMA ReloadMaps ==
    ASSUME Inv, NEW r \in Readers, Reload(r)
    PROVE  ClusterLock!Next \/ UNCHANGED ClusterLock!vars
<1> DEFINE new == [n \in Names |-> Reloaded(rd[r].tables[n], n, rd[r].pos)]
<1>1. rd[r].pc = "reload"
  BY DEF Reload
<1>2. IsReader(rd[r])
  BY ReaderType
<1>3. ASSUME lockBy \in {r, None}, lockBy' = r, NEW s,
             Set(r, [rd[r] EXCEPT !.pc = "save", !.tables = new, !.seqNo = s])
      PROVE  ClusterLock!Next \/ UNCHANGED ClusterLock!vars
  <2> HIDE DEF new
  <2> DEFINE n == [rd[r] EXCEPT !.pc = "save", !.tables = new, !.seqNo = s]
  <2>1. n.pc # "idle" /\ Set(r, n)
    BY <1>2, <1>3 DEF IsReader
  <2> HIDE DEF n
  <2>2. UNCHANGED Awake
    BY <1>1, <2>1, StaysAwake
  <2>3. r \in Awake
    BY <1>1 DEF Awake
  <2>4. CASE lockBy = None
    <3>1. Awake' = Awake \cup {r}
      BY <2>2, <2>3
    <3> QED
      BY <1>3, <2>4, <3>1, Takes
  <2>5. CASE lockBy = r
    <3>1. UNCHANGED HasLock
      BY <1>3, <2>5 DEF HasLock
    <3> QED
      BY <2>2, <3>1, LockStays
  <2> QED
    BY <1>3, <2>4, <2>5
<1>4. ASSUME UpdateFailed(r) PROVE ClusterLock!Next \/ UNCHANGED ClusterLock!vars
  BY <1>1, <1>4, UpdateFailedMaps
<1> HIDE DEF ClusterLock!vars, ClusterLock!Next
<1> QED
  BY <1>3, <1>4 DEF Reload

LEMMA SaveMaps ==
    ASSUME Inv, Typed, NEW r \in Readers, Save(r)
    PROVE  ClusterLock!Next \/ UNCHANGED ClusterLock!vars
<1>1. rd[r].pc = "save" /\ IsReader(rd[r])
  BY DEF Save, Inv, TypeInv
<1>2. rd[r].cont \in {"start", "tick", "row", "alter", "schema"}
  BY <1>1, MemoryOk DEF MemOk, Memory, Conts
<1>3. Returned(rd[r]).pc # "idle"
  <2> DEFINE m == rd[r]
             to == [start |-> "select", tick |-> "select", row |-> "push",
                    alter |-> "mutate", schema |-> "schema"]
             pc == to[m.cont]
             began == IF m.cont = "start" THEN m.pos ELSE m.began
  <2>1. Returned(m) = [m EXCEPT !.pc = pc, !.cont = "none", !.began = began]
    BY DEF Returned
  <2>2. pc # "idle"
    BY <1>2
  <2> HIDE DEF pc, began
  <2> QED
    BY <1>1, <2>1, <2>2 DEF IsReader
<1>4. UpdateFailed(r) \/ (Set(r, Returned(rd[r])) /\ UNCHANGED lockBy)
  BY DEF Save
<1> QED
  BY <1>1, <1>3, <1>4, UpdateFailedMaps, Quietly

LEMMA TakeEventMaps ==
    ASSUME Inv, NEW r \in Readers, TakeEvent(r)
    PROVE  UNCHANGED ClusterLock!vars
<1> DEFINE a == [rd[r] EXCEPT !.pos = <<@[1] + 1, 0>>]
           n == [rd[r] EXCEPT !.pos = <<@[1], @[2] + 1>>]
<1>1. rd[r].pc # "idle" /\ IsReader(rd[r]) /\ UNCHANGED lockBy
  BY DEF TakeEvent, Inv, TypeInv
<1>2. IsReader(a) /\ IsReader(n)
  <2>1. \A p : p[1] \in Int /\ p[1] >= NoGtid => IsReader([rd[r] EXCEPT !.pos = p])
    BY <1>1 DEF IsReader
  <2>2. rd[r].pos[1] \in Int /\ rd[r].pos[1] >= NoGtid
    BY <1>1 DEF IsReader
  <2>3. rd[r].pos[1] + 1 \in Int /\ rd[r].pos[1] + 1 >= NoGtid
    BY <2>2, NoGtidIs
  <2> QED
    BY <2>1, <2>2, <2>3
<1>3. Set(r, Handled(a)) \/ Set(r, NextEntry(n, 1)) \/ Set(r, UpdateState(n, "alter"))
  BY DEF TakeEvent
<1> HIDE DEF a, n
<1> QED
  BY <1>1, <1>2, <1>3, AwakeOps, Quietly

LEMMA ProduceRowMaps ==
    ASSUME Inv, NEW r \in Readers, ProduceRow(r)
    PROVE  UNCHANGED ClusterLock!vars
<1> DEFINE m == rd[r]
           s == m.seqNo + 1
           n == [m EXCEPT !.seqNo = s]
<1>1. m.pc # "idle" /\ IsReader(m) /\ UNCHANGED lockBy
  BY DEF ProduceRow, Inv, TypeInv
<1>3. IsReader(n)
  <2> HIDE DEF m, s
  <2>1. Stays(m, n)
    BY <1>1, Counts
  <2> QED
    BY <2>1 DEF Stays
<1>4. PushRow(r, n) \/ PushRow(r, m) \/ Set(r, UpdateState(n, "row"))
  BY DEF ProduceRow
<1> HIDE DEF n
<1> QED
  BY <1>1, <1>3, <1>4, PushesAwake, AwakeOps, Quietly

LEMMA AlterTableMaps ==
    ASSUME Inv, NEW r \in Readers, AlterTable(r)
    PROVE  ClusterLock!Next \/ UNCHANGED ClusterLock!vars
<1> DEFINE m == rd[r]
           s == m.seqNo + 1
           i == Len(m.tables[EventAt(m.pos).name])
           n == [m EXCEPT !.seqNo = s, !.i = i]
<1>1. m.pc # "idle" /\ IsReader(m)
  BY DEF AlterTable, Inv, TypeInv
<1>3. IsReader(n)
  <2> HIDE DEF m, s, i
  <2>1. Stays(m, n)
    BY <1>1, Counts
  <2> QED
    BY <2>1 DEF Stays
<1>4. \/ Leave(r)
      \/ /\ UNCHANGED lockBy
         /\ \/ Set(r, Handled(m)) \/ Set(r, UpdateState(n, "schema"))
            \/ Set(r, Handled(n)) \/ Set(r, BatchFailed(m))
  BY DEF AlterTable
<1> HIDE DEF n
<1> QED
  BY <1>1, <1>3, <1>4, AwakeOps, GivesUp, Quietly

LEMMA CommitMaps ==
    ASSUME Inv, NEW r \in Readers, Commit(r)
    PROVE  UNCHANGED ClusterLock!vars
<1> DEFINE m == rd[r]
           n == [m EXCEPT !.pend = <<>>]
           c == [n EXCEPT !.pc = "select", !.cnt = 0, !.began = m.pos]
<1>1. m.pc # "idle" /\ IsReader(m) /\ UNCHANGED lockBy
  BY DEF Commit, Inv, TypeInv
<1>2. IsReader(n)
  <2> HIDE DEF m
  <2>1. Stays(m, n)
    BY <1>1, Counts
  <2> QED
    BY <2>1 DEF Stays
<1>3. Set(r, c) \/ Set(r, BatchFailed(n))
  BY DEF Commit
<1>4. c.pc # "idle"
  <2> HIDE DEF n
  <2> QED
    BY <1>2 DEF IsReader
<1> HIDE DEF n, c
<1> QED
  BY <1>1, <1>2, <1>3, <1>4, AwakeOps, Quietly

LEMMA OthersMap ==
    ASSUME Inv, NEW r \in Readers,
           Tick(r) \/ EndBatch(r) \/ Stop(r) \/ Shutdown(r) \/ FetchFailed(r)
    PROVE  UNCHANGED ClusterLock!vars
<1>1. rd[r].pc # "idle" /\ IsReader(rd[r]) /\ UNCHANGED lockBy
  BY DEF Tick, EndBatch, Stop, Shutdown, FetchFailed, Inv, TypeInv
<1>2. /\ [rd[r] EXCEPT !.pc = "commit"].pc # "idle"
      /\ [rd[r] EXCEPT !.pc = "finish"].pc # "idle"
      /\ [rd[r] EXCEPT !.down = TRUE].pc # "idle"
  BY <1>1 DEF IsReader
<1>3. \/ Set(r, UpdateState(rd[r], "tick")) \/ Set(r, BatchFailed(rd[r]))
      \/ Set(r, [rd[r] EXCEPT !.pc = "commit"]) \/ Set(r, [rd[r] EXCEPT !.pc = "finish"])
      \/ Set(r, [rd[r] EXCEPT !.down = TRUE])
  BY DEF Tick, EndBatch, Stop, Shutdown, FetchFailed
<1> QED
  BY <1>1, <1>2, <1>3, AwakeOps, Quietly

Holder == lockBy \in Readers \cup {None}

LEMMA NextLocks ==
    ASSUME Inv, Typed, Holder, [Next]_vars
    PROVE  ClusterLock!Next \/ UNCHANGED ClusterLock!vars
<1>1. ASSUME UNCHANGED <<rd, lockBy>> PROVE UNCHANGED ClusterLock!vars
  BY <1>1, LockStays DEF HasLock, Awake
<1>2. CASE UNCHANGED vars \/ CommitTx \/ \E t \in Tables : Register(t) \/ Deregister(t)
  BY <1>1, <1>2 DEF vars, CommitTx, Register, Deregister
<1>3. ASSUME NEW r \in Readers, LockCluster(r) PROVE ClusterLock!Next
  <2>1. rd' = [rd EXCEPT ![r].pc = "begin"] /\ rd = [q \in Readers |-> rd[q]] /\ IsReader(rd[r])
    BY <1>3 DEF LockCluster, Inv, TypeInv
  <2>2. rd'[r].pc = "begin" /\ \A q \in Readers : q # r => rd'[q] = rd[q]
    BY <2>1 DEF IsReader
  <2>3. Awake' = Awake \cup {r}
    BY <2>2 DEF Awake
  <2> QED
    BY <1>3, <2>3, Takes DEF LockCluster
<1>4. ASSUME NEW r \in Readers, Finish(r) \/ Crash(r) PROVE ClusterLock!Next
  BY <1>4, GivesUp DEF Finish, Crash
<1>5. CASE LoseLock
  <2>1. lockBy # None /\ HasLock' = {} /\ UNCHANGED Awake
    BY <1>5 DEF LoseLock, HasLock, Awake
  <2>2. PICK r \in Readers : HasLock = {<<r, "cluster">>}
    BY <2>1 DEF HasLock, Holder
  <2>3. HasLock' = {h \in HasLock : h[1] # r}
    BY <2>1, <2>2
  <2> QED
    BY <2>1, <2>3 DEF ClusterLock!Next, ClusterLock!Lose, ClusterLock!Without, HasLock, Awake
<1>6. ASSUME NEW r \in Readers, ReaderStep(r) PROVE ClusterLock!Next \/ UNCHANGED ClusterLock!vars
  BY <1>3, <1>4, <1>6, BeginMaps, ReloadMaps, SaveMaps, TakeEventMaps, ProduceRowMaps, AlterTableMaps, CommitMaps,
     OthersMap DEF ReaderStep
<1> QED
  BY <1>2, <1>4, <1>5, <1>6, OthersMap DEF Next

LEMMA NextHolder == ASSUME Holder, ClusterLock!Next \/ UNCHANGED ClusterLock!vars PROVE Holder'
<1>1. HasLock \subseteq Readers \X {"cluster"}
  BY DEF HasLock, Holder
<1>2. HasLock' \subseteq Readers \X {"cluster"}
  BY <1>1 DEF ClusterLock!Next, ClusterLock!Take, ClusterLock!GiveUp, ClusterLock!Lose, ClusterLock!Without,
     ClusterLock!vars, HasLock
<1> QED
  BY <1>2 DEF HasLock, Holder

\* Whatever becomes of readers, tables and sessions, the worker of a cluster
\* reads between taking the lock and giving it up, and takes it only when it is
\* free, also when Refresh takes it anew (mysql.go:417-466, 770-790).
THEOREM ReaderUsesNamedLock == Spec => UsesNamedLock
<1>1. Init => Typed /\ Inv /\ Holder /\ ClusterLock!Init
  <2>1. Init => Holder /\ ClusterLock!Init
    BY DEF Init, Holder, ClusterLock!Init, IdleReader
  <2> QED
    BY <2>1, InitTyped, InitInv
<1>2. Inv /\ Typed /\ Holder /\ [Next]_vars => Holder' /\ [ClusterLock!Next]_ClusterLock!vars
  <2> SUFFICES ASSUME Inv, Typed, Holder, [Next]_vars PROVE Holder' /\ (ClusterLock!Next \/ UNCHANGED ClusterLock!vars)
    OBVIOUS
  <2> QED
    BY NextLocks, NextHolder
<1> QED
  BY <1>1, <1>2, InvAlways, TypedAlways, PTL DEF Spec, UsesNamedLock, ClusterLock!Spec

=============================================================================
