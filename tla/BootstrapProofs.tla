------------------------------ MODULE BootstrapProofs ------------------------------
(***************************************************************************)
(* What Bootstrap promises of the handover from the snapshot to the change *)
(* log, for any number of rows, events, registrations and faults: nothing  *)
(* is lost but what a named cause puts into a gap.                         *)
(*                                                                         *)
(* The argument.  A position in the topic keeps the events read so far     *)
(* when each is safe (the output has it, or it is in a gap), or excused,   *)
(* or ahead of the position.  Reading an event extends the topic, so every *)
(* position keeps on keeping; delivering one makes it safe and moves the   *)
(* position past it.  Which events are excused depends on who holds the    *)
(* position: the saved offset excuses nothing once the row's flag is clear *)
(* (OffsetOfRow), and while it is set what was read before the row got its *)
(* GTID set (OffsetOfAny), which the snapshot will have; a consumer        *)
(* excuses what the snapshot of its streamer will have (FirstTime) until   *)
(* it streams, and then nothing (Streaming).  The snapshot has at least    *)
(* the target of waitForGtid, unless a gap has it.                         *)
(*                                                                         *)
(* That the streamer copies every row is the account of SnapshotInv: rows  *)
(* acknowledged, queued and left are all the messages of the table.        *)
(***************************************************************************)
EXTENDS Bootstrap, TLAPS

-----------------------------------------------------------------------------
(* The inductive invariant. *)

\* What a sequence holds after position n.
After(q, n) == {q[i] : i \in n + 1 .. Len(q)}

\* Events the output has, and those in a gap.
Safe == 1 .. covered \cup delivered \cup gap

\* Every event that was read is safe, or excused, or ahead of position n.
KeptAt(n, excused, pos, safe, q) == 1 .. pos \subseteq excused \cup safe \cup After(q, n)
Kept(n, excused) == KeptAt(n, excused, reader.pos, Safe, topic)

Own == s.id = row.id
Opened == s.pc \in {"flag", "schema", "rows", "clear"}

\* Ids are given once; the streamer is of the row, or of an earlier one.
IdsInv ==
    /\ row.id <= lastId /\ stolen \subseteq 0 .. lastId
    /\ row.id = 0 => row = NoRow
    /\ s.pc # "idle" => s.id \in 1 .. lastId

GtidInv ==
    /\ row.gtid # NoGtid => row.gtid = saved
    /\ s.pc \notin {"idle", "gtid"} /\ Own => row.gtid # NoGtid

FlagInv ==
    /\ s.pc # "idle" /\ row.id # 0 /\ ~Own => row.new \/ row.id \in stolen
    /\ s.pc \in {"schema", "rows", "clear"} /\ Own => row.new
    /\ row.id # 0 /\ ~row.new /\ row.id \notin stolen => row.gtid # NoGtid

PlaceInv ==
    /\ Opened => offset \in {NoOffset, s.next}
    /\ s.pc = "rows" => covered <= s.snap
    /\ s.pc = "clear" => covered = s.snap

SnapshotInv ==
    /\ s.pc \notin {"rows", "clear"} => s.acked = 0 /\ s.queued = 0 /\ s.n = 0
    /\ s.pc = "rows" =>
          /\ s.acked + s.queued + s.left = Messages
          /\ s.n > 0 => s.left < Rows
          /\ s.n = 0 /\ s.left < Rows => s.queued = 0
    /\ s.pc = "clear" /\ Rows > 0 => s.acked = Messages /\ s.queued = 0

Newer == IF s.newest THEN 1 .. s.opened ELSE {}

\* What the consumer may have skipped whatever row it is of.
Skipped ==
    CASE s.pc \in {"flag", "schema"} -> Newer
      [] s.pc \in {"rows", "clear"} -> 1 .. s.snap
      [] OTHER -> {}

\* What the snapshot has or will have.
InSnapshot ==
    CASE s.pc = "wait" -> 1 .. s.target
      [] s.pc = "open" -> 1 .. s.target \cup 1 .. slave
      [] s.pc \in {"flag", "schema"} -> 1 .. s.target \cup 1 .. slave \cup Newer
      [] s.pc \in {"rows", "clear"} -> 1 .. s.snap
      [] OTHER -> {}

OffsetOfAny == row.gtid # NoGtid /\ offset # NoOffset => Kept(offset, 1 .. row.gtid)

OffsetOfRow ==
    row.id # 0 /\ ~row.new /\ row.id \notin stolen /\ offset # NoOffset => Kept(offset, {})

ConsumerOfAny ==
    (Opened \/ s.pc = "stream") /\ row.gtid # NoGtid
        => Kept(s.next, 1 .. row.gtid \cup Skipped)

BeforeOpen ==
    s.pc \in {"wait", "open"} /\ Own /\ row.new /\ offset # NoOffset
        => Kept(offset, InSnapshot)

FirstTime == Opened /\ Own /\ row.new => Kept(s.next, InSnapshot)

Again ==
    s.pc = "flag" /\ Own /\ ~row.new /\ row.id \notin stolen => Kept(s.next, Newer)

Streaming == s.pc = "stream" /\ Own /\ row.id \notin stolen => Kept(s.next, {})

Inv ==
    /\ TypeOK
    /\ IdsInv /\ GtidInv /\ FlagInv /\ PlaceInv /\ SnapshotInv
    /\ OffsetOfAny /\ OffsetOfRow /\ ConsumerOfAny
    /\ BeforeOpen /\ FirstTime /\ Again /\ Streaming

\* The type of the streamer, given the bounds it depends on.
Streamers(m, v, l) ==
    [pc : PCs, id : Ids, target : {NoGtid} \cup 0 .. m,
     next : 0 .. l, fetched : BOOLEAN, newest : BOOLEAN,
     opened : 0 .. m, snap : 0 .. v, left : 0 .. Rows,
     n : 0 .. BatchSize, queued : 0 .. BatchSize - 1, acked : 0 .. Messages]

-----------------------------------------------------------------------------
(* Sequences and what is ahead of a position. *)

LEMMA AfterAppend ==
    ASSUME NEW q \in Seq(Events), NEW e \in Events, NEW n \in 0 .. Len(q)
    PROVE  After(Append(q, e), n) = After(q, n) \cup {e}
<1> DEFINE p == Append(q, e)
<1>1. /\ Len(q) \in Nat /\ Len(p) = Len(q) + 1
      /\ \A i \in 1 .. Len(p) : p[i] = IF i = Len(q) + 1 THEN e ELSE q[i]
  OBVIOUS
<1>2. n + 1 .. Len(p) = (n + 1 .. Len(q)) \cup {Len(q) + 1}
  BY <1>1
<1>3. n + 1 .. Len(p) \subseteq 1 .. Len(p)
  BY <1>1
<1> HIDE DEF p
<1>4. After(p, n) = {p[i] : i \in (n + 1 .. Len(q)) \cup {Len(q) + 1}}
  BY <1>2 DEF After
<1>5. /\ \A i \in n + 1 .. Len(q) : p[i] = q[i]
      /\ p[Len(q) + 1] = e
  BY <1>1, <1>3
<1>6. After(p, n) = {q[i] : i \in n + 1 .. Len(q)} \cup {e}
  BY <1>4, <1>5
<1> QED
  BY <1>6 DEF After, p

LEMMA AfterNext ==
    ASSUME NEW q \in Seq(Events), NEW n \in 0 .. Len(q), n < Len(q)
    PROVE  After(q, n) = {q[n + 1]} \cup After(q, n + 1)
<1>1. Len(q) \in Nat
  OBVIOUS
<1>2. n + 1 .. Len(q) = {n + 1} \cup ((n + 1) + 1 .. Len(q))
  BY <1>1
<1> QED
  BY <1>2 DEF After

LEMMA AfterAll ==
    ASSUME NEW q \in Seq(Events)
    PROVE  After(q, Len(q)) = {}
<1>1. Len(q) \in Nat
  OBVIOUS
<1>2. Len(q) + 1 .. Len(q) = {}
  BY <1>1
<1> QED
  BY <1>2 DEF After

\* A position keeps what it kept while nothing is read and nothing safe is lost.
LEMMA KeptGrows ==
    ASSUME NEW pos \in Nat, NEW pos1 \in Nat, pos1 <= pos,
           NEW safe, NEW safe1, safe \subseteq safe1, NEW q
    PROVE  \A n, x, x1 : x \subseteq x1 /\ KeptAt(n, x, pos, safe, q)
                             => KeptAt(n, x1, pos1, safe1, q)
<1>1. 1 .. pos1 \subseteq 1 .. pos
  OBVIOUS
<1> QED
  BY <1>1 DEF KeptAt

\* ... and what is excused and safe at once need not be excused.
LEMMA KeptSafe ==
    ASSUME NEW n, NEW x, NEW x1, NEW pos, NEW safe, NEW q,
           KeptAt(n, x, pos, safe, q), x \subseteq x1 \cup safe
    PROVE  KeptAt(n, x1, pos, safe, q)
BY DEF KeptAt

\* An event that is read is ahead of every position, or in a gap.
LEMMA KeptRead ==
    ASSUME NEW q \in Seq(Events), NEW n \in 0 .. Len(q), NEW pos \in Nat,
           pos + 1 \in Events, NEW safe, NEW safe1, safe \subseteq safe1, NEW q1,
           q1 \in {q, Append(q, pos + 1)}, q1 # q \/ pos + 1 \in safe1,
           NEW x, KeptAt(n, x, pos, safe, q)
    PROVE  KeptAt(n, x, pos + 1, safe1, q1)
<1>1. 1 .. pos + 1 = 1 .. pos \cup {pos + 1}
  OBVIOUS
<1>2. CASE q1 = q
  BY <1>1, <1>2 DEF KeptAt
<1>3. CASE q1 = Append(q, pos + 1)
  <2>1. After(q1, n) = After(q, n) \cup {pos + 1}
    BY <1>3, AfterAppend
  <2> QED
    BY <1>1, <2>1 DEF KeptAt
<1> QED
  BY <1>2, <1>3

-----------------------------------------------------------------------------
(* Types. *)

LEMMA Numbers ==
    /\ MaxEvents \in Nat /\ MaxIds \in Nat /\ Rows \in Nat
    /\ BatchSize \in Nat /\ BatchSize >= 1
    /\ Messages \in Nat /\ NoGtid = -1 /\ NoOffset = -1
BY BoundsAssumption, RowsAssumption, BatchSizeAssumption, HasSchemaAssumption
   DEF Messages, NoGtid, NoOffset

LEMMA Bounds ==
    ASSUME TypeOK
    PROVE  /\ master \in Nat /\ slave \in Nat /\ slave <= master /\ master <= MaxEvents
           /\ reader.pos \in Nat /\ reader.pos <= master /\ saved \in Nat /\ saved <= reader.pos
           /\ Len(topic) \in Nat /\ covered \in Nat /\ covered <= slave
           /\ s \in Streamers(master, slave, Len(topic))
BY Numbers DEF TypeOK, Streamers

LEMMA Widen ==
    ASSUME NEW m \in Nat, NEW m1 \in Nat, m <= m1, NEW v \in Nat, NEW v1 \in Nat, v <= v1,
           NEW l \in Nat, NEW l1 \in Nat, l <= l1
    PROVE  Streamers(m, v, l) \subseteq Streamers(m1, v1, l1)
<1>1. 0 .. m \subseteq 0 .. m1 /\ 0 .. v \subseteq 0 .. v1 /\ 0 .. l \subseteq 0 .. l1
  OBVIOUS
<1> QED
  BY <1>1 DEF Streamers

LEMMA NoStreamerType ==
    ASSUME NEW m \in Nat, NEW v \in Nat, NEW l \in Nat
    PROVE  NoStreamer \in Streamers(m, v, l)
BY Numbers DEF NoStreamer, Streamers, PCs, Ids

-----------------------------------------------------------------------------
(* Steps of the servers, of the registration handlers and of the reader. *)

\* The parts of Inv about positions.
Keeps ==
    /\ OffsetOfAny /\ OffsetOfRow /\ ConsumerOfAny
    /\ BeforeOpen /\ FirstTime /\ Again /\ Streaming

\* The parts of Inv about the row and the streamer.
Orders == IdsInv /\ GtidInv /\ FlagInv /\ PlaceInv /\ SnapshotInv

\* Nothing that a position depends on changes.
LEMMA Quiet ==
    ASSUME Inv, TypeOK', reader'.pos = reader.pos,
           UNCHANGED <<row, lastId, offset, s, saved, slave, topic, outputVars, historyVars>>
    PROVE  Inv'
<1>1. UNCHANGED <<covered, delivered, gap, stolen>>
  BY DEF outputVars, historyVars
<1>2. Orders'
  BY <1>1 DEF Inv, Orders, IdsInv, GtidInv, FlagInv, PlaceInv, SnapshotInv, Own, Opened
<1>3. \A n, x : Kept(n, x) <=> KeptAt(n, x, reader'.pos, Safe', topic')
  BY <1>1 DEF Kept, Safe
<1>4. UNCHANGED <<Newer, Skipped, InSnapshot, Own, Opened>>
  BY DEF Newer, Skipped, InSnapshot, Own, Opened
<1>5. Keeps'
  <2>1. OffsetOfAny' /\ OffsetOfRow'
    BY <1>1, <1>3 DEF Inv, OffsetOfAny, OffsetOfRow, Kept
  <2>2. ConsumerOfAny'
    BY <1>1, <1>3, <1>4 DEF Inv, ConsumerOfAny, Kept
  <2>3. BeforeOpen' /\ FirstTime'
    BY <1>1, <1>3, <1>4 DEF Inv, BeforeOpen, FirstTime, Kept
  <2>4. Again' /\ Streaming'
    BY <1>1, <1>3, <1>4 DEF Inv, Again, Streaming, Kept
  <2> QED
    BY <2>1, <2>2, <2>3, <2>4 DEF Keeps
<1> QED
  BY <1>2, <1>5 DEF Inv, Orders, Keeps

LEMMA StutterInv == ASSUME Inv, UNCHANGED vars PROVE Inv'
<1>1. /\ UNCHANGED <<master, slave, reader, saved, row, lastId, deleting, topic, offset, s, faults>>
      /\ UNCHANGED <<covered, delivered, gap, stolen, outputVars, historyVars>>
  BY DEF vars, sourceVars, readerVars, stateVars, outputVars, historyVars
<1>2. TypeOK'
  BY <1>1 DEF Inv, TypeOK
<1> QED
  BY <1>1, <1>2, Quiet

LEMMA CommitInv == ASSUME Inv, Commit PROVE Inv'
<1>1. /\ master < MaxEvents /\ master' = master + 1
      /\ UNCHANGED <<slave, reader, saved, row, lastId, deleting, topic, offset, s, faults>>
      /\ UNCHANGED <<covered, delivered, gap, stolen, outputVars, historyVars>>
  BY DEF Commit, readerVars, stateVars, outputVars, historyVars
<1>2. TypeOK'
  <2>1. TypeOK
    BY DEF Inv
  <2>2. master' \in 0 .. MaxEvents /\ 0 .. master \subseteq 0 .. master'
    BY <1>1, <2>1, Bounds, Numbers
  <2>3. s \in Streamers(master', slave', Len(topic'))
    <3>1. /\ s \in Streamers(master, slave, Len(topic)) /\ Len(topic') = Len(topic)
          /\ master \in Nat /\ slave \in Nat /\ Len(topic) \in Nat
          /\ master' \in Nat /\ slave' \in Nat /\ master <= master' /\ slave <= slave'
      BY <1>1, <2>1, Bounds
    <3>2. Streamers(master, slave, Len(topic)) \subseteq Streamers(master', slave', Len(topic'))
      BY <3>1, Widen
    <3> QED
      BY <3>1, <3>2
  <2> QED
    BY <1>1, <2>1, <2>2, <2>3 DEF TypeOK, Streamers
<1> QED
  BY <1>1, <1>2, Quiet

LEMMA StartReaderInv == ASSUME Inv, StartReader PROVE Inv'
<1>1. /\ reader' = [reader EXCEPT !.pc = "reload"]
      /\ UNCHANGED <<master, slave, saved, row, lastId, deleting, topic, offset, s, faults>>
      /\ UNCHANGED <<covered, delivered, gap, stolen, outputVars, historyVars>>
  BY DEF StartReader, sourceVars, stateVars, outputVars, historyVars
<1>2. TypeOK' /\ reader'.pos = reader.pos
  BY <1>1 DEF Inv, TypeOK
<1> QED
  BY <1>1, <1>2, Quiet

LEMMA ReloadInv == ASSUME Inv, Reload PROVE Inv'
<1>1. /\ reader' = [reader EXCEPT !.pc = "save",
                                  !.entry = IF @ \in {0, row.id} THEN row.id ELSE 0]
      /\ UNCHANGED <<master, slave, saved, row, lastId, deleting, topic, offset, s, faults>>
      /\ UNCHANGED <<covered, delivered, gap, stolen, outputVars, historyVars>>
  BY DEF Reload, sourceVars, stateVars, outputVars, historyVars
<1>2. row.id \in Ids /\ 0 \in Ids
  BY Numbers DEF Inv, TypeOK, Ids
<1>3. TypeOK' /\ reader'.pos = reader.pos
  BY <1>1, <1>2 DEF Inv, TypeOK
<1> QED
  BY <1>1, <1>3, Quiet

\* The slave only gets further.
LEMMA ReplicateInv == ASSUME Inv, Replicate PROVE Inv'
<1>1. /\ slave < master /\ slave' = slave + 1
      /\ UNCHANGED <<master, reader, saved, row, lastId, deleting, topic, offset, s, faults>>
      /\ UNCHANGED <<covered, delivered, gap, stolen>>
  BY DEF Replicate, readerVars, stateVars, outputVars, historyVars
<1>2. TypeOK'
  <2>1. TypeOK
    BY DEF Inv
  <2>2. slave' \in 0 .. master' /\ 0 .. slave \subseteq 0 .. slave'
    BY <1>1, <2>1, Bounds
  <2>3. s \in Streamers(master', slave', Len(topic'))
    <3>1. /\ s \in Streamers(master, slave, Len(topic)) /\ Len(topic') = Len(topic)
          /\ master \in Nat /\ slave \in Nat /\ Len(topic) \in Nat
          /\ master' \in Nat /\ slave' \in Nat /\ master <= master' /\ slave <= slave'
      BY <1>1, <2>1, Bounds
    <3>2. Streamers(master, slave, Len(topic)) \subseteq Streamers(master', slave', Len(topic'))
      BY <3>1, Widen
    <3> QED
      BY <3>1, <3>2
  <2> QED
    BY <1>1, <2>1, <2>2, <2>3 DEF TypeOK, Streamers
<1>3. Orders'
  BY <1>1 DEF Inv, Orders, IdsInv, GtidInv, FlagInv, PlaceInv, SnapshotInv, Own, Opened
<1>4. reader.pos \in Nat /\ Safe' = Safe /\ 1 .. slave \subseteq 1 .. slave'
  BY <1>1, Bounds DEF Inv, Safe
<1>5. \A n, x, x1 : x \subseteq x1 /\ Kept(n, x) => KeptAt(n, x1, reader'.pos, Safe', topic')
  BY <1>1, <1>4, KeptGrows DEF Kept
<1>6. /\ UNCHANGED <<Newer, Skipped, Own, Opened>>
      /\ InSnapshot \subseteq InSnapshot'
  <2>1. UNCHANGED <<Newer, Skipped, Own, Opened>>
    BY <1>1 DEF Newer, Skipped, Own, Opened
  <2> QED
    BY <1>1, <1>4, <2>1 DEF InSnapshot
<1>7. Keeps'
  <2>1. OffsetOfAny' /\ OffsetOfRow'
    BY <1>1, <1>5 DEF Inv, OffsetOfAny, OffsetOfRow, Kept
  <2>2. ConsumerOfAny'
    BY <1>1, <1>5, <1>6 DEF Inv, ConsumerOfAny, Kept
  <2>3. BeforeOpen' /\ FirstTime'
    BY <1>1, <1>5, <1>6 DEF Inv, BeforeOpen, FirstTime, Kept
  <2>4. Again' /\ Streaming'
    BY <1>1, <1>5, <1>6 DEF Inv, Again, Streaming, Kept
  <2> QED
    BY <2>1, <2>2, <2>3, <2>4 DEF Keeps
<1> QED
  BY <1>2, <1>3, <1>7 DEF Inv, Orders, Keeps

\* A row comes or goes: nothing is promised of the new one yet, and a streamer
\* that runs is not of it.
LEMMA RowChanges ==
    ASSUME Inv, TypeOK', row'.gtid = NoGtid, row'.id = 0 \/ row'.new,
           row'.id # 0 => row'.id = lastId', row'.id = 0 => row' = NoRow,
           lastId' >= lastId, row'.id # 0 => lastId' > lastId,
           UNCHANGED <<reader, slave, topic, offset, s, saved, outputVars, historyVars>>
    PROVE  Inv'
<1>1. UNCHANGED <<covered, delivered, gap, stolen>>
  BY DEF outputVars, historyVars
<1>2. s.pc # "idle" => ~Own'
  <2>1. lastId \in Nat /\ lastId' \in Nat /\ (s.pc # "idle" => s.id \in 1 .. lastId)
    BY Numbers DEF Inv, IdsInv, TypeOK, Ids
  <2> QED
    BY <2>1 DEF Own
<1>3. Orders'
  <2>1. IdsInv'
    <3>1. lastId \in Nat /\ lastId' \in Nat
      BY Numbers DEF Inv, TypeOK, Ids
    <3>2. stolen \subseteq 0 .. lastId'
      BY <3>1 DEF Inv, IdsInv
    <3>3. s.pc # "idle" => s.id \in 1 .. lastId'
      BY <3>1 DEF Inv, IdsInv
    <3> QED
      BY <1>1, <3>1, <3>2, <3>3 DEF IdsInv
  <2>2. GtidInv'
    BY <1>2 DEF GtidInv
  <2>3. FlagInv'
    BY <1>2 DEF FlagInv
  <2>4. PlaceInv' /\ SnapshotInv'
    BY <1>1 DEF Inv, PlaceInv, SnapshotInv, Opened
  <2> QED
    BY <2>1, <2>2, <2>3, <2>4 DEF Orders
<1>4. Keeps'
  BY <1>2 DEF Keeps, OffsetOfAny, OffsetOfRow, ConsumerOfAny, BeforeOpen, FirstTime,
              Again, Streaming, Opened
<1> QED
  BY <1>3, <1>4 DEF Inv, Orders, Keeps

LEMMA RegisterInv == ASSUME Inv, Register PROVE Inv'
<1>1. /\ lastId < MaxIds /\ lastId' = lastId + 1
      /\ row' = [id |-> lastId + 1, gtid |-> NoGtid, new |-> TRUE]
      /\ UNCHANGED <<master, slave, reader, saved, deleting, topic, offset, s, faults>>
      /\ UNCHANGED <<covered, delivered, gap, stolen, outputVars, historyVars>>
  BY DEF Register, sourceVars, readerVars, outputVars, historyVars
<1>2. lastId \in Nat /\ lastId' \in Nat /\ lastId' \in Ids
  BY <1>1, Numbers DEF Inv, TypeOK, Ids
<1>3. /\ row'.gtid = NoGtid /\ row'.new /\ row'.id = lastId' /\ row'.id # 0
      /\ row' \in [id : Ids, gtid : {NoGtid} \cup 0 .. master, new : BOOLEAN]
  BY <1>1, <1>2
<1>4. TypeOK'
  BY <1>1, <1>2, <1>3 DEF Inv, TypeOK
<1> QED
  BY <1>1, <1>2, <1>3, <1>4, RowChanges

LEMMA DeregisterInv == ASSUME Inv, Deregister PROVE Inv'
<1>1. /\ row' = NoRow /\ deleting' = TRUE
      /\ UNCHANGED <<master, slave, reader, saved, lastId, topic, offset, s, faults>>
      /\ UNCHANGED <<covered, delivered, gap, stolen, outputVars, historyVars>>
  BY DEF Deregister, sourceVars, readerVars, outputVars, historyVars
<1>2. /\ row'.gtid = NoGtid /\ row'.id = 0 /\ lastId \in Nat
      /\ row' \in [id : Ids, gtid : {NoGtid} \cup 0 .. master, new : BOOLEAN]
  BY <1>1, Numbers DEF NoRow, Inv, TypeOK, Ids
<1>3. TypeOK'
  BY <1>1, <1>2 DEF Inv, TypeOK
<1> QED
  BY <1>1, <1>2, <1>3, RowChanges

\* An offset that is gone keeps nothing.
LEMMA DeleteKafkaOffsetsInv == ASSUME Inv, DeleteKafkaOffsets PROVE Inv'
<1>1. /\ deleting' = FALSE /\ offset' \in {offset, NoOffset} /\ faults' \in {faults, faults + 1}
      /\ UNCHANGED <<master, slave, reader, saved, row, lastId, topic, s>>
      /\ UNCHANGED <<covered, delivered, gap, stolen, outputVars, historyVars>>
  BY DEF DeleteKafkaOffsets, Fault, sourceVars, readerVars, outputVars, historyVars
<1>2. TypeOK'
  <2>1. faults' \in Nat
    BY <1>1 DEF Inv, TypeOK
  <2>2. offset' \in {NoOffset} \cup 0 .. Len(topic)
    BY <1>1 DEF Inv, TypeOK
  <2>3. deleting' \in BOOLEAN
    BY <1>1
  <2> QED
    BY <1>1, <2>1, <2>2, <2>3 DEF Inv, TypeOK
<1>3. CASE offset' = offset
  BY <1>1, <1>2, <1>3, Quiet
<1>4. CASE offset' = NoOffset
  <2>1. Orders'
    BY <1>1, <1>4 DEF Inv, Orders, IdsInv, GtidInv, FlagInv, PlaceInv, SnapshotInv, Own, Opened
  <2>2. UNCHANGED <<Newer, Skipped, InSnapshot, Own, Opened, Safe>>
    BY <1>1 DEF Newer, Skipped, InSnapshot, Own, Opened, Safe
  <2>3. OffsetOfAny' /\ OffsetOfRow' /\ BeforeOpen'
    BY <1>4 DEF OffsetOfAny, OffsetOfRow, BeforeOpen
  <2>4. ConsumerOfAny' /\ FirstTime' /\ Again' /\ Streaming'
    BY <1>1, <2>2 DEF Inv, ConsumerOfAny, FirstTime, Again, Streaming, Kept
  <2> QED
    BY <1>2, <2>1, <2>3, <2>4 DEF Inv, Orders
<1> QED
  BY <1>1, <1>3, <1>4

\* A save of the reader's position: what was read before is excused.
LEMMA SavedStep ==
    ASSUME Inv, TypeOK', reader'.pos = reader.pos, saved' = reader.pos,
           row' = SavedRow(reader.pos),
           UNCHANGED <<slave, lastId, topic, offset, s, outputVars, historyVars>>
    PROVE  Inv'
<1>1. UNCHANGED <<covered, delivered, gap, stolen>>
  BY DEF outputVars, historyVars
<1>2. /\ row \in [id : Ids, gtid : {NoGtid} \cup 0 .. master, new : BOOLEAN]
      /\ reader.pos \in Nat /\ reader.pos # NoGtid
  BY Bounds, Numbers DEF Inv, TypeOK
<1>3. /\ row'.id = row.id /\ row'.new = row.new
      /\ row = NoRow => row' = NoRow
      /\ row # NoRow => row'.gtid = reader.pos
      /\ row'.gtid # NoGtid => row'.gtid = reader.pos
  <2>1. CASE row = NoRow
    BY <2>1 DEF SavedRow, NoRow
  <2>2. CASE row # NoRow
    <3>1. row' = [row EXCEPT !.gtid = reader.pos]
      BY <2>2 DEF SavedRow
    <3> QED
      BY <1>2, <2>2, <3>1
  <2> QED
    BY <2>1, <2>2
<1>4. Orders'
  <2>1. IdsInv' /\ PlaceInv' /\ SnapshotInv'
    BY <1>1, <1>3 DEF Inv, IdsInv, PlaceInv, SnapshotInv, Opened
  <2>2. row.gtid # NoGtid => row'.gtid # NoGtid
    BY <1>2, <1>3 DEF NoRow
  <2>3. GtidInv'
    BY <1>3, <2>2 DEF Inv, GtidInv, Own
  <2>4. FlagInv'
    BY <1>1, <1>3, <2>2 DEF Inv, FlagInv, Own
  <2> QED
    BY <2>1, <2>3, <2>4 DEF Orders
<1>5. UNCHANGED <<Newer, Skipped, InSnapshot, Own, Opened, Safe>>
  BY <1>1, <1>3 DEF Newer, Skipped, InSnapshot, Own, Opened, Safe
<1>6. OffsetOfAny' /\ ConsumerOfAny'
  BY <1>3 DEF OffsetOfAny, ConsumerOfAny, Kept, KeptAt
<1>7. OffsetOfRow' /\ BeforeOpen' /\ FirstTime' /\ Again' /\ Streaming'
  BY <1>1, <1>3, <1>5 DEF Inv, OffsetOfRow, BeforeOpen, FirstTime, Again, Streaming, Kept
<1> QED
  BY <1>4, <1>6, <1>7 DEF Inv, Orders

LEMMA SavedRowType ==
    ASSUME TypeOK
    PROVE  SavedRow(reader.pos) \in [id : Ids, gtid : {NoGtid} \cup 0 .. master, new : BOOLEAN]
<1>1. /\ row \in [id : Ids, gtid : {NoGtid} \cup 0 .. master, new : BOOLEAN]
      /\ reader.pos \in 0 .. master
  BY DEF TypeOK
<1> QED
  BY <1>1 DEF SavedRow

LEMMA SaveInv == ASSUME Inv, Save PROVE Inv'
<1>1. /\ row' = SavedRow(reader.pos) /\ saved' = reader.pos
      /\ reader' = [reader EXCEPT !.pc = "read"]
      /\ UNCHANGED <<master, slave, lastId, deleting, topic, offset, s, faults>>
      /\ UNCHANGED <<covered, delivered, gap, stolen, outputVars, historyVars>>
  BY DEF Save, sourceVars, outputVars, historyVars
<1>2. TypeOK' /\ reader'.pos = reader.pos
  <2>1. /\ reader' \in [pc : {"down", "reload", "save", "read"}, pos : 0 .. master, entry : Ids]
        /\ reader'.pos = reader.pos /\ saved' \in 0 .. reader'.pos
    <3>1. reader \in [pc : {"down", "reload", "save", "read"}, pos : 0 .. master, entry : Ids]
      BY DEF Inv, TypeOK
    <3>2. reader.pos \in Nat
      BY Bounds DEF Inv
    <3>3. /\ reader' \in [pc : {"down", "reload", "save", "read"}, pos : 0 .. master, entry : Ids]
          /\ reader'.pos = reader.pos
      BY <1>1, <3>1
    <3> QED
      BY <1>1, <3>2, <3>3
  <2>2. TypeOK /\ row' \in [id : Ids, gtid : {NoGtid} \cup 0 .. master', new : BOOLEAN]
    BY <1>1, SavedRowType DEF Inv
  <2> QED
    BY <1>1, <2>1, <2>2 DEF TypeOK
<1> QED
  BY <1>1, <1>2, SavedStep

\* The reader ends: it will read again what it has not saved.
LEMMA StopReaderInv == ASSUME Inv, StopReader PROVE Inv'
<1>1. /\ \/ row' = SavedRow(reader.pos) /\ saved' = reader.pos
         \/ row' = row /\ saved' = saved
      /\ reader' = [pc |-> "down", pos |-> saved', entry |-> 0]
      /\ faults' = faults + 1
      /\ UNCHANGED <<master, slave, lastId, deleting, topic, offset, s>>
      /\ UNCHANGED <<covered, delivered, gap, stolen, outputVars, historyVars>>
  BY DEF StopReader, Fault, sourceVars, outputVars, historyVars
<1>2. TypeOK' /\ reader'.pos = saved' /\ saved' <= reader.pos
  <2>1. saved' \in 0 .. reader.pos /\ saved' \in 0 .. master
    BY <1>1, Bounds DEF Inv
  <2>2. 0 \in Ids
    BY Numbers DEF Ids
  <2>3. /\ reader' \in [pc : {"down", "reload", "save", "read"}, pos : 0 .. master, entry : Ids]
        /\ reader'.pos = saved' /\ saved' \in 0 .. reader'.pos
    BY <1>1, <2>1, <2>2
  <2>4. row' \in [id : Ids, gtid : {NoGtid} \cup 0 .. master, new : BOOLEAN]
    BY <1>1, SavedRowType DEF Inv, TypeOK
  <2> QED
    BY <1>1, <2>1, <2>3, <2>4 DEF Inv, TypeOK
<1>3. CASE row' = SavedRow(reader.pos) /\ saved' = reader.pos
  BY <1>1, <1>2, <1>3, SavedStep
<1>4. CASE row' = row /\ saved' = saved
  <2>1. Orders'
    BY <1>1, <1>4 DEF Inv, Orders, IdsInv, GtidInv, FlagInv, PlaceInv, SnapshotInv, Own, Opened
  <2>2. UNCHANGED <<Newer, Skipped, InSnapshot, Own, Opened, Safe>>
    BY <1>1, <1>4 DEF Newer, Skipped, InSnapshot, Own, Opened, Safe
  <2>3. \A n, x : Kept(n, x) => KeptAt(n, x, reader'.pos, Safe', topic')
    <3>1. reader.pos \in Nat /\ reader'.pos \in Nat /\ reader'.pos <= reader.pos
      BY <1>2, <1>4, Bounds DEF Inv
    <3> QED
      BY <1>1, <2>2, <3>1, KeptGrows DEF Kept
  <2>4. OffsetOfAny' /\ OffsetOfRow'
    BY <1>1, <1>4, <2>3 DEF Inv, OffsetOfAny, OffsetOfRow, Kept
  <2>5. ConsumerOfAny' /\ BeforeOpen'
    BY <1>1, <1>4, <2>2, <2>3 DEF Inv, ConsumerOfAny, BeforeOpen, Kept
  <2>6. FirstTime' /\ Again' /\ Streaming'
    BY <1>1, <1>4, <2>2, <2>3 DEF Inv, FirstTime, Again, Streaming, Kept
  <2> QED
    BY <1>2, <2>1, <2>4, <2>5, <2>6 DEF Inv, Orders
<1> QED
  BY <1>1, <1>3, <1>4

\* An event that is read goes ahead of every position or, without an entry for
\* the row, into a gap.
LEMMA ReadInv == ASSUME Inv, Read PROVE Inv'
<1>1. /\ reader.pos + 1 <= master
      /\ reader' = [reader EXCEPT !.pos = reader.pos + 1]
      /\ topic' = IF reader.entry = 0 THEN topic ELSE Append(topic, reader.pos + 1)
      /\ gap' = IF reader.entry = 0 /\ row.gtid # NoGtid
                THEN gap \cup {reader.pos + 1} ELSE gap
      /\ UNCHANGED <<master, slave, saved, row, lastId, deleting, offset, s, covered,
                     delivered, stolen, faults>>
  BY DEF Read, sourceVars, stateVars, outputVars
<1>2. /\ reader.pos \in Nat /\ reader.pos + 1 \in Events
      /\ topic \in Seq(Events) /\ Len(topic) \in Nat
      /\ reader'.pos = reader.pos + 1
      /\ reader' \in [pc : {"down", "reload", "save", "read"}, pos : 0 .. master, entry : Ids]
  <2>1. /\ reader \in [pc : {"down", "reload", "save", "read"}, pos : 0 .. master, entry : Ids]
        /\ topic \in Seq(Events)
    BY DEF Inv, TypeOK
  <2>2. reader.pos \in Nat /\ master \in Nat /\ master <= MaxEvents /\ MaxEvents \in Nat
    BY Bounds, Numbers DEF Inv
  <2>3. reader.pos + 1 \in 0 .. master /\ reader.pos + 1 \in Events
    BY <1>1, <2>2 DEF Events
  <2> QED
    BY <1>1, <2>1, <2>2, <2>3
<1>3. topic' \in Seq(Events) /\ Len(topic') \in Nat /\ Len(topic) <= Len(topic')
  BY <1>1, <1>2
<1>4. TypeOK'
  <2>1. reader' \in [pc : {"down", "reload", "save", "read"}, pos : 0 .. master', entry : Ids]
    BY <1>1, <1>2
  <2>2. saved \in 0 .. reader'.pos
    BY <1>1, <1>2, Bounds DEF Inv
  <2>3. s \in Streamers(master', slave', Len(topic'))
    <3>1. /\ s \in Streamers(master, slave, Len(topic))
          /\ master \in Nat /\ slave \in Nat
      BY Bounds DEF Inv
    <3>2. Streamers(master, slave, Len(topic)) \subseteq Streamers(master, slave, Len(topic'))
      BY <1>2, <1>3, <3>1, Widen
    <3> QED
      BY <1>1, <3>1, <3>2
  <2>4. offset \in {NoOffset} \cup 0 .. Len(topic')
    BY <1>2, <1>3 DEF Inv, TypeOK
  <2>5. gap' \subseteq Events
    BY <1>1, <1>2 DEF Inv, TypeOK
  <2> QED
    BY <1>1, <1>3, <2>1, <2>2, <2>3, <2>4, <2>5 DEF Inv, TypeOK, Streamers
<1>5. Orders'
  BY <1>1 DEF Inv, Orders, IdsInv, GtidInv, FlagInv, PlaceInv, SnapshotInv, Own, Opened
<1>6. UNCHANGED <<Newer, Skipped, InSnapshot, Own, Opened>>
  BY <1>1 DEF Newer, Skipped, InSnapshot, Own, Opened
<1>7. ASSUME NEW n \in 0 .. Len(topic), NEW x, Kept(n, x), row.gtid # NoGtid
      PROVE  KeptAt(n, x, reader'.pos, Safe', topic')
  <2>1. Safe \subseteq Safe'
    BY <1>1 DEF Safe
  <2>2. topic' \in {topic, Append(topic, reader.pos + 1)}
    BY <1>1
  <2>3. topic' # topic \/ reader.pos + 1 \in Safe'
    <3>1. CASE reader.entry = 0
      BY <1>1, <1>7, <3>1 DEF Safe
    <3>2. CASE reader.entry # 0
      <4>1. Len(Append(topic, reader.pos + 1)) = Len(topic) + 1
        BY <1>2
      <4> QED
        BY <1>1, <1>2, <3>2, <4>1
    <3> QED
      BY <3>1, <3>2
  <2>4. KeptAt(n, x, reader.pos + 1, Safe', topic')
    BY <1>2, <1>7, <2>1, <2>2, <2>3, KeptRead DEF Kept
  <2> QED
    BY <1>2, <2>4
<1>8. /\ offset # NoOffset => offset \in 0 .. Len(topic)
      /\ s.next \in 0 .. Len(topic)
  BY DEF Inv, TypeOK
<1>9. OffsetOfAny'
  BY <1>1, <1>7, <1>8 DEF Inv, OffsetOfAny, Kept
<1>10. OffsetOfRow'
  BY <1>1, <1>7, <1>8 DEF Inv, OffsetOfRow, FlagInv, Kept
<1>11. ConsumerOfAny'
  BY <1>1, <1>6, <1>7, <1>8 DEF Inv, ConsumerOfAny, Kept
<1>12. BeforeOpen'
  BY <1>1, <1>6, <1>7, <1>8 DEF Inv, BeforeOpen, GtidInv, Kept
<1>13. FirstTime' /\ Again'
  BY <1>1, <1>6, <1>7, <1>8 DEF Inv, FirstTime, Again, GtidInv, Opened, Kept
<1>14. Streaming'
  BY <1>1, <1>6, <1>7, <1>8 DEF Inv, Streaming, GtidInv, Kept
<1> QED
  BY <1>4, <1>5, <1>9, <1>10, <1>11, <1>12, <1>13, <1>14 DEF Inv, Orders

-----------------------------------------------------------------------------
(* Steps of the streamer. *)

\* What no step of the streamer but the last ones changes.
Others == <<master, slave, reader, saved, lastId, deleting, topic>>

LEMMA StreamerType ==
    ASSUME Inv, UNCHANGED Others, s' \in Streamers(master, slave, Len(topic)),
           row' \in [id : Ids, gtid : {NoGtid} \cup 0 .. master, new : BOOLEAN],
           offset' \in {NoOffset} \cup 0 .. Len(topic),
           covered' \in 0 .. slave, delivered' \subseteq Events, gap' \subseteq Events,
           stolen' \subseteq Ids, faults' \in Nat
    PROVE  TypeOK'
BY DEF Inv, TypeOK, Streamers, Others

\* What a streamer that streams has passed can be saved as an offset.
LEMMA Streamed ==
    ASSUME Inv, s.pc = "stream"
    PROVE  /\ row.gtid # NoGtid => Kept(s.next, 1 .. row.gtid)
           /\ row.id # 0 /\ ~row.new /\ row.id \notin stolen => Kept(s.next, {})
<1>1. row.gtid # NoGtid => Kept(s.next, 1 .. row.gtid)
  <2>1. Skipped = {}
    BY DEF Skipped
  <2> QED
    BY <2>1 DEF Inv, ConsumerOfAny
<1>2. row.id # 0 /\ ~row.new /\ row.id \notin stolen => Kept(s.next, {})
  BY DEF Inv, FlagInv, Streaming
<1> QED
  BY <1>1, <1>2

\* The streamer ends, wherever it is; what it leaves is the offset.
LEMMA LeaveStep ==
    ASSUME Inv, Leave, UNCHANGED Others, UNCHANGED <<row, outputVars, historyVars>>,
           offset' = offset \/ (s.pc = "stream" /\ offset' = s.next), faults' \in Nat
    PROVE  Inv'
<1>1. UNCHANGED <<master, slave, reader, saved, lastId, topic, covered, delivered, gap, stolen>>
  BY DEF Others, outputVars, historyVars
<1>2. TypeOK'
  <2>1. s' \in Streamers(master, slave, Len(topic))
    BY Bounds, NoStreamerType DEF Inv, Leave
  <2>2. offset' \in {NoOffset} \cup 0 .. Len(topic)
    BY DEF Inv, TypeOK
  <2>3. /\ row' \in [id : Ids, gtid : {NoGtid} \cup 0 .. master, new : BOOLEAN]
        /\ covered' \in 0 .. slave /\ delivered' \subseteq Events /\ gap' \subseteq Events
        /\ stolen' \subseteq Ids
    BY <1>1 DEF Inv, TypeOK
  <2> QED
    BY <2>1, <2>2, <2>3, StreamerType
<1>3. /\ s'.pc = "idle" /\ s'.acked = 0 /\ s'.queued = 0 /\ s'.n = 0
  BY DEF Leave, NoStreamer
<1>4. Orders'
  BY <1>1, <1>3 DEF Inv, Orders, IdsInv, GtidInv, FlagInv, PlaceInv, SnapshotInv, Opened
<1>5. \A n, x : Kept(n, x) <=> KeptAt(n, x, reader'.pos, Safe', topic')
  BY <1>1 DEF Kept, Safe
<1>6. OffsetOfAny' /\ OffsetOfRow'
  <2>1. CASE offset' = offset
    BY <1>1, <1>5, <2>1 DEF Inv, OffsetOfAny, OffsetOfRow, Kept
  <2>2. CASE s.pc = "stream" /\ offset' = s.next
    BY <1>1, <1>5, <2>2, Streamed DEF OffsetOfAny, OffsetOfRow, Kept
  <2> QED
    BY <2>1, <2>2
<1>7. ConsumerOfAny' /\ BeforeOpen' /\ FirstTime' /\ Again' /\ Streaming'
  BY <1>3 DEF ConsumerOfAny, BeforeOpen, FirstTime, Again, Streaming, Opened
<1> QED
  BY <1>2, <1>4, <1>6, <1>7 DEF Inv, Orders

\* What the steps of the streamer that change only s and the faults have in common.
LEMMA OnlyStreamer ==
    ASSUME Inv, UNCHANGED Others, UNCHANGED <<row, offset, outputVars, historyVars>>,
           s' \in Streamers(master, slave, Len(topic)), faults' \in Nat
    PROVE  /\ TypeOK' /\ OffsetOfAny' /\ OffsetOfRow'
           /\ UNCHANGED <<slave, reader, topic, lastId, saved, Safe, covered, delivered, gap, stolen>>
           /\ \A n, x, x1 : x \subseteq x1 /\ Kept(n, x)
                 => KeptAt(n, x1, reader'.pos, Safe', topic')
<1>1. UNCHANGED <<master, slave, reader, saved, lastId, topic, covered, delivered, gap, stolen>>
  BY DEF Others, outputVars, historyVars
<1>2. /\ row' \in [id : Ids, gtid : {NoGtid} \cup 0 .. master, new : BOOLEAN]
      /\ offset' \in {NoOffset} \cup 0 .. Len(topic)
      /\ covered' \in 0 .. slave /\ delivered' \subseteq Events /\ gap' \subseteq Events
      /\ stolen' \subseteq Ids
  BY <1>1 DEF Inv, TypeOK
<1>3. TypeOK'
  BY <1>2, StreamerType
<1>4. UNCHANGED Safe /\ reader.pos \in Nat
  BY <1>1, Bounds DEF Safe, Inv
<1>5. \A n, x, x1 : x \subseteq x1 /\ Kept(n, x) => KeptAt(n, x1, reader'.pos, Safe', topic')
  BY <1>1, <1>4, KeptGrows DEF Kept
<1>6. OffsetOfAny' /\ OffsetOfRow'
  BY <1>1, <1>5 DEF Inv, OffsetOfAny, OffsetOfRow, Kept
<1> QED
  BY <1>1, <1>3, <1>4, <1>5, <1>6

LEMMA LockTableInv == ASSUME Inv, LockTable PROVE Inv'
<1>1. /\ row # NoRow
      /\ s' = [NoStreamer EXCEPT !.pc = "gtid", !.id = row.id]
      /\ UNCHANGED Others /\ UNCHANGED <<row, offset, faults, outputVars, historyVars>>
  BY DEF LockTable, Others, sourceVars, readerVars, stateVars
<1>2. /\ s' \in Streamers(master, slave, Len(topic)) /\ s'.pc = "gtid" /\ s'.id = row.id
      /\ s'.acked = 0 /\ s'.queued = 0 /\ s'.n = 0
  <2>1. NoStreamer \in Streamers(master, slave, Len(topic))
    BY Bounds, NoStreamerType DEF Inv
  <2>2. row.id \in Ids /\ "gtid" \in PCs
    BY DEF Inv, TypeOK, PCs
  <2>3. NoStreamer.acked = 0 /\ NoStreamer.queued = 0 /\ NoStreamer.n = 0
    BY DEF NoStreamer
  <2> QED
    BY <1>1, <2>1, <2>2, <2>3 DEF Streamers
<1>3. faults' \in Nat
  BY <1>1 DEF Inv, TypeOK
<1>4. /\ TypeOK' /\ OffsetOfAny' /\ OffsetOfRow'
      /\ UNCHANGED <<lastId, saved, covered, stolen>>
  BY <1>1, <1>2, <1>3, OnlyStreamer
<1>5. row.id \in 1 .. lastId
  <2>1. row.id \in Nat /\ lastId \in Nat /\ row.id <= lastId
    BY Numbers DEF Inv, TypeOK, IdsInv, Ids
  <2>2. row.id # 0
    BY <1>1 DEF Inv, IdsInv
  <2> QED
    BY <2>1, <2>2
<1>6. Orders'
  <2>1. IdsInv'
    BY <1>1, <1>2, <1>4, <1>5 DEF Inv, IdsInv
  <2>2. GtidInv' /\ FlagInv'
    BY <1>1, <1>2, <1>4 DEF Inv, GtidInv, FlagInv, Own
  <2>3. PlaceInv' /\ SnapshotInv'
    BY <1>2 DEF PlaceInv, SnapshotInv, Opened
  <2> QED
    BY <2>1, <2>2, <2>3 DEF Orders
<1>7. ConsumerOfAny' /\ BeforeOpen' /\ FirstTime' /\ Again' /\ Streaming'
  BY <1>2 DEF ConsumerOfAny, BeforeOpen, FirstTime, Again, Streaming, Opened
<1> QED
  BY <1>4, <1>6, <1>7 DEF Inv, Orders

\* The offset of any row will do once events up to the row's GTID set are in the
\* snapshot.
LEMMA EnsureStartedInv == ASSUME Inv, EnsureStarted PROVE Inv'
<1>1. /\ s.pc = "gtid"
      /\ UNCHANGED Others /\ UNCHANGED <<row, offset, faults, outputVars, historyVars>>
      /\ faults' \in Nat
  BY DEF EnsureStarted, Others, sourceVars, readerVars, stateVars, Inv, TypeOK
<1>2. CASE Leave
  BY <1>1, <1>2, LeaveStep
<1>3. CASE /\ row.id = s.id /\ Started
           /\ s' = [s EXCEPT !.pc = "wait", !.target = row.gtid]
  <2>1. /\ s \in Streamers(master, slave, Len(topic))
        /\ row.gtid \in {NoGtid} \cup 0 .. master /\ "wait" \in PCs
    BY Bounds DEF Inv, TypeOK, PCs
  <2>2. /\ s' \in Streamers(master, slave, Len(topic)) /\ s'.pc = "wait"
        /\ s'.target = row.gtid /\ s'.id = s.id
        /\ s'.acked = s.acked /\ s'.queued = s.queued /\ s'.n = s.n
    BY <1>3, <2>1 DEF Streamers
  <2>3. /\ TypeOK' /\ OffsetOfAny' /\ OffsetOfRow'
        /\ UNCHANGED <<reader, topic, lastId, saved, Safe, covered, stolen>>
    BY <1>1, <2>2, OnlyStreamer
  <2>4. Orders'
    <3>1. IdsInv'
      BY <1>1, <2>2, <2>3 DEF Inv, IdsInv
    <3>2. GtidInv' /\ FlagInv'
      BY <1>1, <1>3, <2>2, <2>3 DEF Inv, GtidInv, FlagInv, Own, Started
    <3>3. PlaceInv' /\ SnapshotInv'
      BY <1>1, <2>2 DEF Inv, PlaceInv, SnapshotInv, Opened
    <3> QED
      BY <3>1, <3>2, <3>3 DEF Orders
  <2>5. BeforeOpen'
    <3>1. InSnapshot' = 1 .. row.gtid
      BY <2>2 DEF InSnapshot
    <3> QED
      BY <1>1, <1>3, <2>3, <3>1 DEF Inv, BeforeOpen, OffsetOfAny, Kept, Started
  <2>6. ConsumerOfAny' /\ FirstTime' /\ Again' /\ Streaming'
    BY <2>2 DEF ConsumerOfAny, FirstTime, Again, Streaming, Opened
  <2> QED
    BY <2>3, <2>4, <2>5, <2>6 DEF Inv, Orders
<1> QED
  BY <1>2, <1>3 DEF EnsureStarted

LEMMA WaitForGtidInv == ASSUME Inv, WaitForGtid PROVE Inv'
<1>1. /\ s.pc = "wait"
      /\ \/ slave >= s.target /\ s' = [s EXCEPT !.pc = "open", !.target = NoGtid]
         \/ s' = [s EXCEPT !.pc = "open"]
      /\ UNCHANGED Others /\ UNCHANGED <<row, offset, outputVars, historyVars>>
      /\ faults' \in Nat
  <2>1. faults \in Nat
    BY DEF Inv, TypeOK
  <2> QED
    BY <2>1 DEF WaitForGtid, Fault, Others, sourceVars, readerVars, stateVars
<1>2. s \in Streamers(master, slave, Len(topic)) /\ "open" \in PCs
  BY Bounds DEF Inv, PCs
<1>3. /\ s' \in Streamers(master, slave, Len(topic)) /\ s'.pc = "open" /\ s'.id = s.id
      /\ s'.acked = s.acked /\ s'.queued = s.queued /\ s'.n = s.n
      /\ s'.target = s.target \/ (slave >= s.target /\ s'.target = NoGtid)
  <2>1. CASE slave >= s.target /\ s' = [s EXCEPT !.pc = "open", !.target = NoGtid]
    BY <1>2, <2>1 DEF Streamers
  <2>2. CASE s' = [s EXCEPT !.pc = "open"]
    BY <1>2, <2>2 DEF Streamers
  <2> QED
    BY <1>1, <2>1, <2>2
<1>4. /\ TypeOK' /\ OffsetOfAny' /\ OffsetOfRow'
      /\ UNCHANGED <<slave, lastId, saved, covered, stolen>>
      /\ \A n, x, x1 : x \subseteq x1 /\ Kept(n, x)
            => KeptAt(n, x1, reader'.pos, Safe', topic')
  BY <1>1, <1>3, OnlyStreamer
<1>5. Orders'
  <2>1. IdsInv'
    BY <1>1, <1>3, <1>4 DEF Inv, IdsInv
  <2>2. GtidInv' /\ FlagInv'
    BY <1>1, <1>3, <1>4 DEF Inv, GtidInv, FlagInv, Own
  <2>3. PlaceInv' /\ SnapshotInv'
    BY <1>1, <1>3 DEF Inv, PlaceInv, SnapshotInv, Opened
  <2> QED
    BY <2>1, <2>2, <2>3 DEF Orders
<1>6. BeforeOpen'
  <2>1. InSnapshot = 1 .. s.target
    BY <1>1 DEF InSnapshot
  <2>2. InSnapshot' = 1 .. s'.target \cup 1 .. slave
    BY <1>3, <1>4 DEF InSnapshot
  <2>3. 1 .. s.target \subseteq 1 .. s'.target \cup 1 .. slave
    <3>1. s.target \in Int /\ slave \in Int
      BY <1>2, Bounds, Numbers DEF Inv, Streamers
    <3> QED
      BY <1>3, <3>1
  <2>4. InSnapshot \subseteq InSnapshot'
    BY <2>1, <2>2, <2>3
  <2> QED
    BY <1>1, <1>3, <1>4, <2>4 DEF Inv, BeforeOpen, Own, Kept
<1>7. ConsumerOfAny' /\ FirstTime' /\ Again' /\ Streaming'
  BY <1>3 DEF ConsumerOfAny, FirstTime, Again, Streaming, Opened
<1> QED
  BY <1>4, <1>5, <1>6, <1>7 DEF Inv, Orders

\* A consumer without an offset skips what was read; with one, it takes up what
\* the offset kept.
LEMMA OpenConsumerInv == ASSUME Inv, OpenConsumer PROVE Inv'
<1> DEFINE at == IF offset = NoOffset THEN Newest ELSE offset
<1>1. /\ s.pc = "open"
      /\ s' = [s EXCEPT !.pc = "flag", !.next = at, !.newest = (offset = NoOffset),
                        !.opened = IF offset = NoOffset THEN reader.pos ELSE 0]
      /\ UNCHANGED Others /\ UNCHANGED <<row, offset, outputVars, historyVars>>
      /\ faults' \in Nat
  BY DEF OpenConsumer, Others, sourceVars, readerVars, stateVars, Inv, TypeOK
<1>2. /\ at \in 0 .. Len(topic)
      /\ offset # NoOffset => at = offset
      /\ (IF offset = NoOffset THEN reader.pos ELSE 0) \in 0 .. master
  BY Bounds DEF Inv, TypeOK, Newest
<1> HIDE DEF at
<1>3. s \in Streamers(master, slave, Len(topic)) /\ "flag" \in PCs
  BY Bounds DEF Inv, PCs
<1>4. s' \in Streamers(master, slave, Len(topic))
  BY <1>1, <1>2, <1>3 DEF Streamers
<1>5. /\ s'.pc = "flag" /\ s'.id = s.id /\ s'.target = s.target
      /\ s'.acked = s.acked /\ s'.queued = s.queued /\ s'.n = s.n /\ s'.next = at
      /\ s'.opened = IF offset = NoOffset THEN reader.pos ELSE 0
  BY <1>1, <1>3 DEF Streamers
<1>6. s'.newest = (offset = NoOffset)
  BY <1>1, <1>3 DEF Streamers
<1>7. /\ TypeOK' /\ OffsetOfAny' /\ OffsetOfRow'
      /\ UNCHANGED <<slave, reader, lastId, saved, covered, stolen>>
      /\ \A n, x, x1 : x \subseteq x1 /\ Kept(n, x)
            => KeptAt(n, x1, reader'.pos, Safe', topic')
  BY <1>1, <1>4, OnlyStreamer
<1>8. Orders'
  <2>1. IdsInv'
    BY <1>1, <1>5, <1>7 DEF Inv, IdsInv
  <2>2. GtidInv' /\ FlagInv'
    BY <1>1, <1>5, <1>7 DEF Inv, GtidInv, FlagInv, Own
  <2>3. PlaceInv' /\ SnapshotInv'
    BY <1>1, <1>2, <1>5 DEF Inv, PlaceInv, SnapshotInv, Opened
  <2> QED
    BY <2>1, <2>2, <2>3 DEF Orders
<1>9. Skipped' = Newer' /\ InSnapshot' = 1 .. s.target \cup 1 .. slave \cup Newer'
  BY <1>5, <1>7 DEF Skipped, InSnapshot
<1>10. ConsumerOfAny' /\ FirstTime' /\ Again'
  <2>1. CASE offset = NoOffset
    <3>1. Newer' = 1 .. reader'.pos
      BY <1>5, <1>6, <1>7, <2>1 DEF Newer
    <3> QED
      BY <1>9, <3>1 DEF ConsumerOfAny, FirstTime, Again, Kept, KeptAt
  <2>2. CASE offset # NoOffset
    <3>1. Newer' = {} /\ s'.next = offset
      BY <1>2, <1>5, <1>6, <2>2 DEF Newer
    <3>2. ConsumerOfAny'
      BY <1>1, <1>7, <1>9, <2>2, <3>1 DEF Inv, ConsumerOfAny, OffsetOfAny, Kept
    <3>3. FirstTime'
      <4>1. InSnapshot \subseteq InSnapshot'
        BY <1>1, <1>9 DEF InSnapshot
      <4> QED
        BY <1>1, <1>5, <1>7, <2>2, <3>1, <4>1 DEF Inv, FirstTime, BeforeOpen, Own, Kept
    <3>4. Again'
      <4>1. s.id # 0
        BY <1>1, Numbers DEF Inv, IdsInv
      <4> QED
        BY <1>1, <1>5, <1>7, <2>2, <3>1, <4>1 DEF Inv, Again, OffsetOfRow, Own, Kept
    <3> QED
      BY <3>2, <3>3, <3>4
  <2> QED
    BY <2>1, <2>2
<1>11. BeforeOpen' /\ Streaming'
  BY <1>5 DEF BeforeOpen, Streaming
<1> QED
  BY <1>7, <1>8, <1>10, <1>11 DEF Inv, Orders

\* A step that reads nothing and loses nothing safe keeps the offset.
LEMMA Grows ==
    ASSUME Inv, UNCHANGED Others, UNCHANGED <<row, offset, stolen>>, Safe \subseteq Safe'
    PROVE  /\ OffsetOfAny' /\ OffsetOfRow'
           /\ \A n, x, x1 : x \subseteq x1 \cup Safe' /\ Kept(n, x)
                 => KeptAt(n, x1, reader'.pos, Safe', topic')
<1>1. UNCHANGED <<reader, topic>>
  BY DEF Others
<1>2. \A n, x, x1 : x \subseteq x1 \cup Safe' /\ Kept(n, x)
         => KeptAt(n, x1, reader'.pos, Safe', topic')
  BY <1>1 DEF Kept, KeptAt
<1>3. OffsetOfAny' /\ OffsetOfRow'
  BY <1>1, <1>2 DEF Inv, OffsetOfAny, OffsetOfRow, Kept
<1> QED
  BY <1>2, <1>3

LEMMA StreamTableType ==
    ASSUME Inv, StreamTable
    PROVE  /\ s' \in Streamers(master, slave, Len(topic))
           /\ s'.pc = "stream" /\ s'.id = s.id /\ s'.next = s.next
           /\ s'.acked = 0 /\ s'.queued = 0 /\ s'.n = 0
<1>1. /\ NoStreamer \in Streamers(master, slave, Len(topic))
      /\ s \in Streamers(master, slave, Len(topic)) /\ "stream" \in PCs
  BY Bounds, NoStreamerType DEF Inv, PCs
<1>2. NoStreamer.acked = 0 /\ NoStreamer.queued = 0 /\ NoStreamer.n = 0
  BY DEF NoStreamer
<1>3. s' = [NoStreamer EXCEPT !.pc = "stream", !.id = s.id, !.next = s.next]
  BY DEF StreamTable
<1> QED
  BY <1>1, <1>2, <1>3 DEF Streamers

\* Positions of the master are events.
LEMMA Positions ==
    ASSUME Inv
    PROVE  /\ 1 .. s.opened \subseteq Events
           /\ slave + 1 .. s.opened \subseteq Events /\ slave + 1 .. s.target \subseteq Events
           /\ s.opened \in Nat /\ s.target \in Int
<1>1. /\ s \in Streamers(master, slave, Len(topic)) /\ master \in Nat /\ slave \in Nat
      /\ master <= MaxEvents /\ MaxEvents \in Nat
  BY Bounds, Numbers DEF Inv
<1>2. s.opened \in 0 .. master /\ s.target \in {-1} \cup 0 .. master
  BY <1>1, Numbers DEF Streamers
<1> QED
  BY <1>1, <1>2 DEF Events

LEMMA GetTableNewFlagInv == ASSUME Inv, GetTableNewFlag PROVE Inv'
<1>1. /\ s.pc = "flag"
      /\ UNCHANGED Others /\ UNCHANGED <<row, offset, outputVars, stolen, faults>>
      /\ faults' \in Nat
  BY DEF GetTableNewFlag, Others, sourceVars, readerVars, stateVars, Inv, TypeOK
<1>2. CASE Leave /\ UNCHANGED gap
  <2>1. UNCHANGED historyVars
    BY <1>1, <1>2 DEF historyVars
  <2> QED
    BY <1>1, <1>2, <2>1, LeaveStep
<1>3. CASE row.new /\ s' = [s EXCEPT !.pc = "schema"] /\ UNCHANGED gap
  <2>1. s \in Streamers(master, slave, Len(topic)) /\ "schema" \in PCs
    BY Bounds DEF Inv, PCs
  <2>2. /\ s' \in Streamers(master, slave, Len(topic)) /\ s'.pc = "schema"
        /\ s'.id = s.id /\ s'.target = s.target /\ s'.next = s.next
        /\ s'.newest = s.newest /\ s'.opened = s.opened
        /\ s'.acked = s.acked /\ s'.queued = s.queued /\ s'.n = s.n
    BY <1>3, <2>1 DEF Streamers
  <2>3. UNCHANGED historyVars
    BY <1>1, <1>3 DEF historyVars
  <2>4. /\ TypeOK' /\ OffsetOfAny' /\ OffsetOfRow'
        /\ UNCHANGED <<slave, reader, topic, lastId, saved, Safe, covered, stolen>>
    BY <1>1, <2>2, <2>3, OnlyStreamer
  <2>5. Orders'
    <3>1. IdsInv' /\ GtidInv'
      BY <1>1, <2>2, <2>4 DEF Inv, IdsInv, GtidInv, Own
    <3>2. FlagInv'
      BY <1>1, <1>3, <2>2, <2>4 DEF Inv, FlagInv, Own
    <3>3. PlaceInv' /\ SnapshotInv'
      BY <1>1, <2>2 DEF Inv, PlaceInv, SnapshotInv, Opened
    <3> QED
      BY <3>1, <3>2, <3>3 DEF Orders
  <2>6. UNCHANGED <<Newer, Skipped, InSnapshot, Own>> /\ Opened /\ Opened'
    BY <1>1, <2>2, <2>4 DEF Newer, Skipped, InSnapshot, Own, Opened
  <2>7. ConsumerOfAny' /\ FirstTime'
    BY <1>1, <2>2, <2>4, <2>6 DEF Inv, ConsumerOfAny, FirstTime, Kept
  <2>8. BeforeOpen' /\ Again' /\ Streaming'
    BY <2>2 DEF BeforeOpen, Again, Streaming
  <2> QED
    BY <2>4, <2>5, <2>7, <2>8 DEF Inv, Orders
<1>4. CASE /\ row # NoRow /\ ~row.new
           /\ StreamTable
           /\ gap' = IF s.newest THEN gap \cup (1 .. s.opened) ELSE gap
  <2>1. UNCHANGED <<covered, delivered>>
    BY <1>1 DEF outputVars
  <2>2. Safe \subseteq Safe' /\ Newer \subseteq Safe'
    BY <1>4, <2>1 DEF Safe, Newer
  <2>3. TypeOK'
    <3>1. gap' \subseteq Events
      BY <1>4, Positions DEF Inv, TypeOK
    <3> QED
      BY <1>1, <1>4, <2>1, <3>1, StreamTableType, StreamerType DEF Inv, TypeOK
  <2>4. /\ OffsetOfAny' /\ OffsetOfRow'
        /\ \A n, x, x1 : x \subseteq x1 \cup Safe' /\ Kept(n, x)
              => KeptAt(n, x1, reader'.pos, Safe', topic')
    BY <1>1, <2>2, Grows
  <2>5. /\ s'.pc = "stream" /\ s'.id = s.id /\ s'.next = s.next
        /\ s'.acked = 0 /\ s'.queued = 0 /\ s'.n = 0
    BY <1>4, StreamTableType
  <2>6. Orders'
    <3>1. UNCHANGED <<lastId, saved>>
      BY <1>1 DEF Others
    <3>2. IdsInv' /\ GtidInv'
      BY <1>1, <2>5, <3>1 DEF Inv, IdsInv, GtidInv, Own
    <3>3. FlagInv'
      BY <1>1, <2>5 DEF Inv, FlagInv, Own
    <3>4. PlaceInv' /\ SnapshotInv'
      BY <2>5 DEF PlaceInv, SnapshotInv, Opened
    <3> QED
      BY <3>2, <3>3, <3>4 DEF Orders
  <2>7. ConsumerOfAny'
    <3>1. Skipped = Newer /\ Skipped' = {}
      BY <1>1, <2>5 DEF Skipped
    <3>2. row.gtid # NoGtid => Kept(s.next, 1 .. row.gtid \cup Newer)
      BY <1>1, <3>1 DEF Inv, ConsumerOfAny, Opened
    <3>3. 1 .. row.gtid \cup Newer \subseteq (1 .. row.gtid \cup Skipped') \cup Safe'
      BY <2>2
    <3> QED
      BY <1>1, <2>4, <2>5, <3>2, <3>3 DEF ConsumerOfAny, Kept
  <2>8. Streaming'
    <3>1. Own /\ row.id \notin stolen => Kept(s.next, Newer)
      BY <1>1, <1>4 DEF Inv, Again
    <3>2. Newer \subseteq {} \cup Safe'
      BY <2>2
    <3> QED
      BY <1>1, <2>4, <2>5, <3>1, <3>2 DEF Streaming, Own, Kept
  <2>9. BeforeOpen' /\ FirstTime' /\ Again'
    BY <2>5 DEF BeforeOpen, FirstTime, Again, Opened
  <2> QED
    BY <2>3, <2>4, <2>6, <2>7, <2>8, <2>9 DEF Inv, Orders
<1> QED
  BY <1>2, <1>3, <1>4 DEF GetTableNewFlag

\* Pushed and Flushed move messages on; no message is lost or counted twice.
LEMMA PushedType ==
    ASSUME NEW m \in Nat, NEW v \in Nat, NEW l \in Nat, NEW x \in Streamers(m, v, l),
           x.acked + x.queued + 1 <= Messages
    PROVE  /\ Pushed(x) \in Streamers(m, v, l)
           /\ Pushed(x).acked + Pushed(x).queued = x.acked + x.queued + 1
           /\ Pushed(x).pc = x.pc /\ Pushed(x).id = x.id /\ Pushed(x).next = x.next
           /\ Pushed(x).n = x.n /\ Pushed(x).snap = x.snap /\ Pushed(x).left = x.left
<1>1. /\ x.queued \in 0 .. BatchSize - 1 /\ x.acked \in 0 .. Messages
      /\ BatchSize \in Nat /\ Messages \in Nat
  BY Numbers DEF Streamers
<1> DEFINE q == [x EXCEPT !.queued = x.queued + 1]
<1>2. /\ q.queued = x.queued + 1 /\ q.acked = x.acked
      /\ q.pc = x.pc /\ q.id = x.id /\ q.next = x.next
      /\ q.n = x.n /\ q.snap = x.snap /\ q.left = x.left
  BY DEF Streamers
<1>3. CASE q.queued >= BatchSize
  <2>1. Pushed(x) = [q EXCEPT !.acked = q.acked + q.queued, !.queued = 0]
    BY <1>3 DEF Pushed, Flushed
  <2>2. Pushed(x) = [x EXCEPT !.acked = x.acked + (x.queued + 1), !.queued = 0]
    BY <1>2, <2>1 DEF Streamers
  <2> DEFINE a == x.acked + (x.queued + 1)
  <2>3. a \in 0 .. Messages /\ 0 \in 0 .. BatchSize - 1 /\ a = x.acked + x.queued + 1
    BY <1>1, Numbers
  <2>4. Pushed(x) = [x EXCEPT !.acked = a, !.queued = 0]
    BY <2>2
  <2> HIDE DEF a
  <2>5. Pushed(x) \in Streamers(m, v, l)
    BY <2>3, <2>4 DEF Streamers
  <2>6. /\ Pushed(x).acked = a /\ Pushed(x).queued = 0
        /\ Pushed(x).pc = x.pc /\ Pushed(x).id = x.id /\ Pushed(x).next = x.next
        /\ Pushed(x).n = x.n /\ Pushed(x).snap = x.snap /\ Pushed(x).left = x.left
    BY <2>4 DEF Streamers
  <2> QED
    BY <1>1, <2>3, <2>5, <2>6
<1>4. CASE ~(q.queued >= BatchSize)
  <2>1. Pushed(x) = [x EXCEPT !.queued = x.queued + 1]
    BY <1>4 DEF Pushed
  <2>2. x.queued + 1 \in 0 .. BatchSize - 1
    BY <1>1, <1>2, <1>4
  <2> QED
    BY <1>1, <2>1, <2>2 DEF Streamers
<1> QED
  BY <1>3, <1>4

\* What the snapshot will not have is ahead of the consumer, or falls into a gap.
LEMMA StartSnapshotInv == ASSUME Inv, StartSnapshot PROVE Inv'
<1> DEFINE m == IF HasSchema THEN Pushed(s) ELSE s
<1>1. /\ s.pc = "schema"
      /\ s' = [SnapshotStarted(m) EXCEPT !.target = NoGtid, !.newest = FALSE, !.opened = 0]
      /\ gap' = gap \cup (IF s.newest THEN slave + 1 .. s.opened ELSE {})
                    \cup (slave + 1 .. s.target)
      /\ UNCHANGED Others
      /\ UNCHANGED <<row, offset, covered, delivered, stolen>>
      /\ faults' \in Nat
  BY DEF StartSnapshot, Others, sourceVars, readerVars, stateVars, outputVars, Inv, TypeOK
<1>2. s \in Streamers(master, slave, Len(topic)) /\ s.acked = 0 /\ s.queued = 0 /\ s.n = 0
  BY <1>1, Bounds DEF Inv, SnapshotInv
<1>3. /\ m \in Streamers(master, slave, Len(topic)) /\ m.acked + m.queued + Rows = Messages
      /\ m.id = s.id /\ m.next = s.next /\ m.n = 0
  <2>1. CASE HasSchema
    <3>1. Messages = Rows + 1 /\ Rows \in Nat
      BY <2>1, Numbers DEF Messages
    <3>2. s.acked + s.queued + 1 <= Messages
      BY <1>2, <3>1
    <3> QED
      BY <1>2, <2>1, <3>1, <3>2, Bounds, PushedType DEF Inv
  <2>2. CASE ~HasSchema
    <3>1. Messages = Rows /\ Rows \in Nat
      BY <2>2, Numbers DEF Messages
    <3> QED
      BY <1>2, <2>2, <3>1
  <2> QED
    BY <2>1, <2>2
<1> HIDE DEF m
<1>4. s' = [m EXCEPT !.pc = "rows", !.snap = slave, !.left = Rows,
                     !.target = NoGtid, !.newest = FALSE, !.opened = 0]
  BY <1>1, <1>3 DEF SnapshotStarted, Streamers
<1>5. s' \in Streamers(master, slave, Len(topic))
  <2>1. /\ slave \in 0 .. slave /\ Rows \in 0 .. Rows /\ 0 \in 0 .. master
        /\ "rows" \in PCs
    BY Bounds, Numbers DEF Inv, PCs
  <2> QED
    BY <1>3, <1>4, <2>1 DEF Streamers
<1>6. /\ s'.pc = "rows" /\ s'.id = s.id /\ s'.next = s.next /\ s'.snap = slave
      /\ s'.left = Rows /\ s'.n = 0 /\ s'.acked + s'.queued + s'.left = Messages
  BY <1>3, <1>4 DEF Streamers
<1>7. TypeOK'
  <2>1. gap' \subseteq Events
    BY <1>1, Positions DEF Inv, TypeOK
  <2> QED
    BY <1>1, <1>5, <2>1, StreamerType DEF Inv, TypeOK
<1>8. Safe \subseteq Safe'
  BY <1>1 DEF Safe
<1>9. /\ OffsetOfAny' /\ OffsetOfRow'
      /\ \A n, x, x1 : x \subseteq x1 \cup Safe' /\ Kept(n, x)
            => KeptAt(n, x1, reader'.pos, Safe', topic')
  BY <1>1, <1>8, Grows
<1>10. Orders'
  <2>1. UNCHANGED <<lastId, saved, slave>>
    BY <1>1 DEF Others
  <2>2. IdsInv' /\ GtidInv'
    BY <1>1, <1>6, <2>1 DEF Inv, IdsInv, GtidInv, Own
  <2>3. FlagInv'
    BY <1>1, <1>6 DEF Inv, FlagInv, Own
  <2>4. PlaceInv'
    BY <1>1, <1>6, Bounds DEF Inv, PlaceInv, Opened
  <2>5. SnapshotInv'
    BY <1>6, Numbers DEF SnapshotInv
  <2> QED
    BY <2>2, <2>3, <2>4, <2>5 DEF Orders
<1>11. /\ Newer \subseteq 1 .. slave \cup Safe'
       /\ 1 .. s.target \subseteq 1 .. slave \cup Safe'
  <2>1. slave \in Nat /\ s.opened \in Nat /\ s.target \in Int
    BY Bounds, Positions DEF Inv
  <2>2. 1 .. s.opened \subseteq 1 .. slave \cup (slave + 1 .. s.opened)
    BY <2>1
  <2>3. 1 .. s.target \subseteq 1 .. slave \cup (slave + 1 .. s.target)
    BY <2>1
  <2>4. slave + 1 .. s.target \subseteq Safe'
    BY <1>1 DEF Safe
  <2>5. s.newest => slave + 1 .. s.opened \subseteq Safe'
    BY <1>1 DEF Safe
  <2> QED
    BY <2>2, <2>3, <2>4, <2>5 DEF Newer
<1>12. ConsumerOfAny'
  <2>1. Skipped = Newer /\ Skipped' = 1 .. slave
    BY <1>1, <1>6 DEF Skipped
  <2>2. row.gtid # NoGtid => Kept(s.next, 1 .. row.gtid \cup Newer)
    BY <1>1, <2>1 DEF Inv, ConsumerOfAny, Opened
  <2>3. 1 .. row.gtid \cup Newer \subseteq (1 .. row.gtid \cup Skipped') \cup Safe'
    BY <1>11, <2>1
  <2> QED
    BY <1>1, <1>6, <1>9, <2>2, <2>3 DEF ConsumerOfAny, Kept
<1>13. FirstTime'
  <2>1. InSnapshot = 1 .. s.target \cup 1 .. slave \cup Newer /\ InSnapshot' = 1 .. slave
    BY <1>1, <1>6 DEF InSnapshot
  <2>2. Own /\ row.new => Kept(s.next, InSnapshot)
    BY <1>1 DEF Inv, FirstTime, Opened
  <2>3. InSnapshot \subseteq InSnapshot' \cup Safe'
    BY <1>11, <2>1
  <2> QED
    BY <1>1, <1>6, <1>9, <2>2, <2>3 DEF FirstTime, Own, Kept
<1>14. BeforeOpen' /\ Again' /\ Streaming'
  BY <1>6 DEF BeforeOpen, Again, Streaming
<1> QED
  BY <1>7, <1>9, <1>10, <1>12, <1>13, <1>14 DEF Inv, Orders

\* A step of the snapshot that moves messages on.
LEMMA RowsStep ==
    ASSUME Inv, s.pc = "rows", UNCHANGED Others,
           UNCHANGED <<row, offset, outputVars, historyVars, faults>>,
           s' \in Streamers(master, slave, Len(topic)), s'.pc = "rows",
           s'.id = s.id, s'.next = s.next, s'.snap = s.snap, SnapshotInv'
    PROVE  Inv'
<1>1. faults' \in Nat
  BY DEF Inv, TypeOK
<1>2. /\ TypeOK' /\ OffsetOfAny' /\ OffsetOfRow'
      /\ UNCHANGED <<slave, reader, topic, lastId, saved, Safe, covered, stolen>>
  BY <1>1, OnlyStreamer
<1>3. Orders'
  <2>1. IdsInv' /\ GtidInv'
    BY <1>2 DEF Inv, IdsInv, GtidInv, Own
  <2>2. FlagInv' /\ PlaceInv'
    BY <1>2 DEF Inv, FlagInv, PlaceInv, Own, Opened
  <2> QED
    BY <2>1, <2>2 DEF Orders
<1>4. UNCHANGED <<Skipped, InSnapshot, Own>> /\ Opened /\ Opened'
  BY DEF Skipped, InSnapshot, Own, Opened
<1>5. ConsumerOfAny' /\ FirstTime'
  BY <1>2, <1>4 DEF Inv, ConsumerOfAny, FirstTime, Kept
<1>6. BeforeOpen' /\ Again' /\ Streaming'
  BY DEF BeforeOpen, Again, Streaming
<1> QED
  BY <1>2, <1>3, <1>5, <1>6 DEF Inv, Orders

\* The counters of a snapshot, as numbers.
LEMMA Counters ==
    ASSUME Inv, s.pc = "rows"
    PROVE  /\ s \in Streamers(master, slave, Len(topic))
           /\ s.left \in 0 .. Rows /\ s.n \in 0 .. BatchSize
           /\ s.queued \in 0 .. BatchSize - 1 /\ s.acked \in 0 .. Messages
           /\ s.acked + s.queued + s.left = Messages
           /\ s.n > 0 => s.left < Rows
           /\ s.n = 0 /\ s.left < Rows => s.queued = 0
BY Bounds DEF Inv, Streamers, SnapshotInv

LEMMA PushRowInv == ASSUME Inv, PushRow PROVE Inv'
<1> DEFINE q == Pushed(s)
<1>1. /\ s.pc = "rows" /\ s.n < BatchSize /\ s.left > 0
      /\ s' = [q EXCEPT !.left = q.left - 1, !.n = q.n + 1]
      /\ UNCHANGED Others /\ UNCHANGED <<row, offset, outputVars, historyVars, faults>>
  BY DEF PushRow, HasNext, Others, sourceVars, readerVars, stateVars
<1>2. /\ Messages \in Nat /\ Rows \in Nat /\ BatchSize \in Nat
      /\ s.left \in 0 .. Rows /\ s.n \in 0 .. BatchSize
      /\ s.queued \in 0 .. BatchSize - 1 /\ s.acked \in 0 .. Messages
      /\ s.acked + s.queued + s.left = Messages
      /\ s.acked + s.queued + 1 <= Messages
  <2>1. /\ Messages \in Nat /\ Rows \in Nat /\ BatchSize \in Nat
        /\ s.left \in 0 .. Rows /\ s.n \in 0 .. BatchSize
        /\ s.queued \in 0 .. BatchSize - 1 /\ s.acked \in 0 .. Messages
        /\ s.acked + s.queued + s.left = Messages
    BY <1>1, Counters, Numbers
  <2>2. s.left > 0
    BY <1>1
  <2>3. s.left \in Nat /\ s.queued \in Nat /\ s.acked \in Nat
    BY <2>1
  <2>4. s.acked + s.queued + 1 <= Messages
    BY <2>1, <2>2, <2>3
  <2> QED
    BY <2>1, <2>4
<1>3. /\ q \in Streamers(master, slave, Len(topic))
      /\ q.acked + q.queued = s.acked + s.queued + 1
      /\ q.pc = s.pc /\ q.id = s.id /\ q.next = s.next
      /\ q.n = s.n /\ q.snap = s.snap /\ q.left = s.left
  <2>1. /\ s \in Streamers(master, slave, Len(topic))
        /\ master \in Nat /\ slave \in Nat /\ Len(topic) \in Nat
    BY Bounds DEF Inv
  <2> QED
    BY <1>2, <2>1, PushedType
<1> HIDE DEF q
<1>4. /\ q.left - 1 \in 0 .. Rows /\ q.n + 1 \in 0 .. BatchSize
      /\ q.acked \in Nat /\ q.queued \in Nat
  <2>1. q.acked \in 0 .. Messages /\ q.queued \in 0 .. BatchSize - 1
    BY <1>3 DEF Streamers
  <2>2. q.acked \in Nat /\ q.queued \in Nat
    BY <1>2, <2>1
  <2>3. s.n < BatchSize /\ s.left > 0
    BY <1>1
  <2>4. s.left - 1 \in 0 .. Rows /\ s.n + 1 \in 0 .. BatchSize
    BY <1>2, <2>3
  <2> QED
    BY <1>3, <2>2, <2>4
<1>5. s' \in Streamers(master, slave, Len(topic))
  BY <1>1, <1>3, <1>4 DEF Streamers
<1>6. /\ s'.pc = "rows" /\ s'.id = s.id /\ s'.next = s.next /\ s'.snap = s.snap
      /\ s'.left = s.left - 1 /\ s'.n = s.n + 1
      /\ s'.acked = q.acked /\ s'.queued = q.queued
  BY <1>1, <1>3 DEF Streamers
<1>7. SnapshotInv'
  <2>1. /\ s'.acked + s'.queued + s'.left = Messages
        /\ s'.left < Rows /\ s'.n # 0
    <3>1. s.left > 0 /\ q.acked + q.queued = s.acked + s.queued + 1
      BY <1>1, <1>3
    <3> QED
      BY <1>2, <1>4, <1>6, <3>1
  <2> QED
    BY <1>6, <2>1 DEF SnapshotInv
<1> QED
  BY <1>1, <1>5, <1>6, <1>7, RowsStep

LEMMA CommitWithRetryInv == ASSUME Inv, CommitWithRetry PROVE Inv'
<1>1. /\ s.pc = "rows" /\ s.n > 0
      /\ s' = [Flushed(s) EXCEPT !.n = 0]
      /\ UNCHANGED Others /\ UNCHANGED <<row, offset, outputVars, historyVars, faults>>
  BY DEF CommitWithRetry, Others, sourceVars, readerVars, stateVars
<1>2. /\ Messages \in Nat /\ Rows \in Nat /\ BatchSize \in Nat /\ BatchSize >= 1
      /\ s.left \in 0 .. Rows /\ s.n \in 0 .. BatchSize /\ s.left < Rows
      /\ s.queued \in 0 .. BatchSize - 1 /\ s.acked \in 0 .. Messages
      /\ s.acked + s.queued + s.left = Messages
      /\ s \in Streamers(master, slave, Len(topic))
  BY <1>1, Counters, Numbers
<1>3. s' = [s EXCEPT !.acked = s.acked + s.queued, !.queued = 0, !.n = 0]
  BY <1>1, <1>2 DEF Flushed, Streamers
<1>4. /\ s.acked + s.queued \in 0 .. Messages
      /\ 0 \in 0 .. BatchSize - 1 /\ 0 \in 0 .. BatchSize
  BY <1>2
<1>5. s' \in Streamers(master, slave, Len(topic))
  BY <1>2, <1>3, <1>4 DEF Streamers
<1>6. /\ s'.pc = "rows" /\ s'.id = s.id /\ s'.next = s.next /\ s'.snap = s.snap
      /\ s'.left = s.left /\ s'.n = 0
      /\ s'.acked = s.acked + s.queued /\ s'.queued = 0
  BY <1>1, <1>2, <1>3 DEF Streamers
<1>7. SnapshotInv'
  BY <1>2, <1>6 DEF SnapshotInv
<1> QED
  BY <1>1, <1>5, <1>6, <1>7, RowsStep

\* The snapshot is over: what it has is safe.
LEMMA EndSnapshotInv == ASSUME Inv, EndSnapshot PROVE Inv'
<1>1. /\ s.pc = "rows" /\ s.n = 0 /\ ~(s.left > 0)
      /\ s' = [s EXCEPT !.pc = "clear"] /\ covered' = s.snap
      /\ UNCHANGED Others
      /\ UNCHANGED <<row, offset, delivered, gap, stolen, faults>>
  BY DEF EndSnapshot, HasNext, Others, sourceVars, readerVars, stateVars, historyVars
<1>2. /\ s.left \in 0 .. Rows /\ s.acked + s.queued + s.left = Messages
      /\ s.queued \in Nat /\ s.acked \in Nat /\ Rows \in Nat
      /\ s.left < Rows => s.queued = 0
      /\ s \in Streamers(master, slave, Len(topic)) /\ "clear" \in PCs
  BY <1>1, Counters, Numbers DEF PCs
<1>3. /\ s' \in Streamers(master, slave, Len(topic))
      /\ s'.pc = "clear" /\ s'.id = s.id /\ s'.next = s.next /\ s'.snap = s.snap
      /\ s'.acked = s.acked /\ s'.queued = s.queued
  BY <1>1, <1>2 DEF Streamers
<1>4. covered <= s.snap /\ s.snap \in 0 .. slave /\ covered \in Nat
  BY <1>1, <1>2, Bounds DEF Inv, PlaceInv, Streamers
<1>5. TypeOK'
  BY <1>1, <1>3, <1>4, StreamerType DEF Inv, TypeOK
<1>6. Safe \subseteq Safe' /\ 1 .. s.snap \subseteq Safe'
  <2>1. 1 .. covered \subseteq 1 .. s.snap
    BY <1>4
  <2> QED
    BY <1>1, <2>1 DEF Safe
<1>7. /\ OffsetOfAny' /\ OffsetOfRow'
      /\ \A n, x, x1 : x \subseteq x1 \cup Safe' /\ Kept(n, x)
            => KeptAt(n, x1, reader'.pos, Safe', topic')
  BY <1>1, <1>6, Grows
<1>8. Orders'
  <2>1. UNCHANGED <<lastId, saved>>
    BY <1>1 DEF Others
  <2>2. IdsInv' /\ GtidInv'
    BY <1>1, <1>3, <2>1 DEF Inv, IdsInv, GtidInv, Own
  <2>3. FlagInv'
    BY <1>1, <1>3 DEF Inv, FlagInv, Own
  <2>4. PlaceInv'
    BY <1>1, <1>3 DEF Inv, PlaceInv, Opened
  <2>5. SnapshotInv'
    BY <1>1, <1>2, <1>3 DEF SnapshotInv
  <2> QED
    BY <2>2, <2>3, <2>4, <2>5 DEF Orders
<1>9. Skipped' = Skipped /\ InSnapshot' = InSnapshot /\ Own' = Own /\ Opened
  BY <1>1, <1>3 DEF Skipped, InSnapshot, Own, Opened
<1>10. ConsumerOfAny' /\ FirstTime'
  BY <1>1, <1>3, <1>7, <1>9 DEF Inv, ConsumerOfAny, FirstTime, Kept
<1>11. BeforeOpen' /\ Again' /\ Streaming'
  BY <1>3 DEF BeforeOpen, Again, Streaming
<1> QED
  BY <1>5, <1>7, <1>8, <1>10, <1>11 DEF Inv, Orders

LEMMA CancelSnapshotInv == ASSUME Inv, CancelSnapshot PROVE Inv'
<1>1. /\ Leave /\ UNCHANGED Others
      /\ UNCHANGED <<row, offset, outputVars, historyVars>> /\ faults' \in Nat
  BY DEF CancelSnapshot, Others, sourceVars, readerVars, stateVars, Inv, TypeOK
<1> QED
  BY <1>1, LeaveStep

\* The snapshot is in the output, so the row is streamed from here; if the row
\* is another one by now, its flag is stolen.
LEMMA ClearNewFlagInv == ASSUME Inv, ClearNewFlag PROVE Inv'
<1>1. /\ s.pc = "clear"
      /\ row' = [row EXCEPT !.new = FALSE]
      /\ stolen' = IF row.id # s.id THEN stolen \cup {row.id} ELSE stolen
      /\ StreamTable
      /\ UNCHANGED Others
      /\ UNCHANGED <<offset, covered, delivered, gap, faults>>
  BY DEF ClearNewFlag, Others, sourceVars, readerVars, outputVars
<1>2. /\ row \in [id : Ids, gtid : {NoGtid} \cup 0 .. master, new : BOOLEAN]
      /\ row' \in [id : Ids, gtid : {NoGtid} \cup 0 .. master, new : BOOLEAN]
      /\ row'.id = row.id /\ row'.gtid = row.gtid /\ ~row'.new
      /\ row = NoRow => row' = NoRow
  <2>1. row \in [id : Ids, gtid : {NoGtid} \cup 0 .. master, new : BOOLEAN]
    BY DEF Inv, TypeOK
  <2>2. /\ row' \in [id : Ids, gtid : {NoGtid} \cup 0 .. master, new : BOOLEAN]
        /\ row'.id = row.id /\ row'.gtid = row.gtid
    BY <1>1, <2>1
  <2>3. row'.new = FALSE
    BY <1>1, <2>1
  <2>4. row = NoRow => row' = NoRow
    <3>1. row' = [id |-> row'.id, gtid |-> row'.gtid, new |-> row'.new]
      BY <2>2
    <3>2. row = NoRow => row'.id = 0 /\ row'.gtid = NoGtid
      BY <2>2 DEF NoRow
    <3> QED
      BY <2>3, <3>1, <3>2 DEF NoRow
  <2> QED
    BY <2>1, <2>2, <2>3, <2>4
<1>3. /\ s' \in Streamers(master, slave, Len(topic))
      /\ s'.pc = "stream" /\ s'.id = s.id /\ s'.next = s.next
      /\ s'.acked = 0 /\ s'.queued = 0 /\ s'.n = 0
  BY <1>1, StreamTableType
<1>4. stolen \subseteq stolen' /\ stolen' \subseteq Ids
  BY <1>1, <1>2 DEF Inv, TypeOK
<1>5. TypeOK'
  BY <1>1, <1>2, <1>3, <1>4, StreamerType DEF Inv, TypeOK
<1>6. UNCHANGED <<Safe, lastId, saved, reader, topic>> /\ 1 .. s.snap \subseteq Safe
  BY <1>1 DEF Safe, Others, Inv, PlaceInv
<1>7. \A n, x, x1 : x \subseteq x1 \cup Safe /\ Kept(n, x)
         => KeptAt(n, x1, reader'.pos, Safe', topic')
  BY <1>6 DEF Kept, KeptAt
<1>8. row.id \notin stolen' => s.id = row.id
  BY <1>1
<1>9. Orders'
  <2>1. IdsInv'
    <3>1. stolen' \subseteq 0 .. lastId
      <4>1. row.id \in Nat /\ lastId \in Nat
        BY <1>2, Numbers DEF Inv, TypeOK, Ids
      <4> QED
        BY <1>1, <4>1 DEF Inv, IdsInv
    <3> QED
      BY <1>1, <1>2, <1>3, <1>6, <3>1 DEF Inv, IdsInv
  <2>2. GtidInv'
    BY <1>1, <1>2, <1>3, <1>6 DEF Inv, GtidInv, Own
  <2>3. FlagInv'
    BY <1>1, <1>2, <1>3, <1>8 DEF Inv, FlagInv, GtidInv, Own
  <2>4. PlaceInv' /\ SnapshotInv'
    BY <1>3 DEF PlaceInv, SnapshotInv, Opened
  <2> QED
    BY <2>1, <2>2, <2>3, <2>4 DEF Orders
<1>10. s.id = row.id => Kept(s.next, 1 .. s.snap)
  <2>1. InSnapshot = 1 .. s.snap
    BY <1>1 DEF InSnapshot
  <2> QED
    BY <1>1, <2>1 DEF Inv, FirstTime, FlagInv, Own, Opened
<1>11. 1 .. s.snap \subseteq {} \cup Safe
  BY <1>6
<1>12. s.id = row.id => KeptAt(s.next, {}, reader'.pos, Safe', topic')
  BY <1>7, <1>10, <1>11
<1>13. OffsetOfRow' /\ Streaming'
  <2>1. Streaming'
    BY <1>2, <1>3, <1>12 DEF Streaming, Own, Kept
  <2>2. offset' # NoOffset => offset' = s.next
    BY <1>1 DEF Inv, PlaceInv, Opened
  <2>3. OffsetOfRow'
    BY <1>2, <1>8, <1>12, <2>2 DEF OffsetOfRow, Kept
  <2> QED
    BY <2>1, <2>3
<1>14. OffsetOfAny'
  BY <1>1, <1>2, <1>7 DEF Inv, OffsetOfAny, Kept
<1>15. ConsumerOfAny'
  <2>1. Skipped = 1 .. s.snap /\ Skipped' = {}
    BY <1>1, <1>3 DEF Skipped
  <2>2. row.gtid # NoGtid => Kept(s.next, 1 .. row.gtid \cup 1 .. s.snap)
    BY <1>1, <2>1 DEF Inv, ConsumerOfAny, Opened
  <2>3. 1 .. row.gtid \cup 1 .. s.snap \subseteq (1 .. row.gtid \cup Skipped') \cup Safe
    BY <1>6
  <2> QED
    BY <1>2, <1>3, <1>7, <2>2, <2>3 DEF ConsumerOfAny, Kept
<1>16. BeforeOpen' /\ FirstTime' /\ Again'
  BY <1>3 DEF BeforeOpen, FirstTime, Again, Opened
<1> QED
  BY <1>5, <1>9, <1>13, <1>14, <1>15, <1>16 DEF Inv, Orders

\* The consumer passes a message that is in the output from then on.
LEMMA StreamInv == ASSUME Inv, Stream PROVE Inv'
<1> DEFINE e == topic[s.next + 1]
<1>1. /\ s.pc = "stream" /\ s.next < Len(topic)
      /\ delivered' = delivered \cup {e}
      /\ s' = [s EXCEPT !.next = s.next + 1, !.fetched = TRUE]
      /\ UNCHANGED Others
      /\ UNCHANGED <<row, offset, covered, gap, stolen, faults>>
  BY DEF Stream, Others, sourceVars, readerVars, stateVars, historyVars
<1>2. /\ s \in Streamers(master, slave, Len(topic))
      /\ s.next \in 0 .. Len(topic) /\ Len(topic) \in Nat /\ topic \in Seq(Events)
      /\ s.acked = 0 /\ s.queued = 0 /\ s.n = 0
  BY <1>1, Bounds DEF Inv, TypeOK, Streamers, SnapshotInv
<1>3. e \in Events /\ s.next + 1 \in 0 .. Len(topic)
  BY <1>1, <1>2
<1>4. After(topic, s.next) = {e} \cup After(topic, s.next + 1)
  BY <1>1, <1>2, AfterNext
<1> HIDE DEF e
<1>5. /\ s' \in Streamers(master, slave, Len(topic))
      /\ s'.pc = "stream" /\ s'.id = s.id /\ s'.next = s.next + 1
      /\ s'.acked = 0 /\ s'.queued = 0 /\ s'.n = 0
  BY <1>1, <1>2, <1>3 DEF Streamers
<1>6. TypeOK'
  <2>1. delivered' \subseteq Events
    BY <1>1, <1>3 DEF Inv, TypeOK
  <2> QED
    BY <1>1, <1>5, <2>1, StreamerType DEF Inv, TypeOK
<1>7. Safe \subseteq Safe' /\ e \in Safe'
  BY <1>1 DEF Safe
<1>8. OffsetOfAny' /\ OffsetOfRow'
  BY <1>1, <1>7, Grows
<1>9. Orders'
  <2>1. UNCHANGED <<lastId, saved>>
    BY <1>1 DEF Others
  <2>2. IdsInv' /\ GtidInv'
    BY <1>1, <1>5, <2>1 DEF Inv, IdsInv, GtidInv, Own
  <2>3. FlagInv'
    BY <1>1, <1>5 DEF Inv, FlagInv, Own
  <2>4. PlaceInv' /\ SnapshotInv'
    BY <1>5 DEF PlaceInv, SnapshotInv, Opened
  <2> QED
    BY <2>2, <2>3, <2>4 DEF Orders
<1>10. \A x : Kept(s.next, x) => KeptAt(s'.next, x, reader'.pos, Safe', topic')
  <2>1. UNCHANGED <<reader, topic>>
    BY <1>1 DEF Others
  <2> QED
    BY <1>4, <1>5, <1>7, <2>1 DEF Kept, KeptAt
<1>11. Skipped' = Skipped
  BY <1>1, <1>5 DEF Skipped
<1>12. ConsumerOfAny' /\ Streaming'
  BY <1>1, <1>5, <1>10, <1>11 DEF Inv, ConsumerOfAny, Streaming, Own, Kept
<1>13. BeforeOpen' /\ FirstTime' /\ Again'
  BY <1>5 DEF BeforeOpen, FirstTime, Again, Opened
<1> QED
  BY <1>6, <1>8, <1>9, <1>12, <1>13 DEF Inv, Orders

LEMMA TickInv == ASSUME Inv, Tick PROVE Inv'
<1>1. /\ s.pc = "stream"
      /\ offset' \in {offset, s.next}
      /\ UNCHANGED s \/ Leave
      /\ UNCHANGED Others /\ UNCHANGED <<row, outputVars, historyVars, faults>>
      /\ UNCHANGED <<covered, delivered, gap, stolen>>
      /\ faults' \in Nat
  BY DEF Tick, SavedOffset, Others, sourceVars, readerVars, stateVars, outputVars,
         historyVars, Inv, TypeOK
<1>2. CASE Leave
  BY <1>1, <1>2, LeaveStep
<1>3. CASE UNCHANGED s
  <2>1. UNCHANGED <<reader, saved, lastId, topic, Safe, Skipped, Own, Opened>>
    BY <1>1, <1>3 DEF Others, Safe, Skipped, Newer, Own, Opened
  <2>2. TypeOK'
    <3>1. s' \in Streamers(master, slave, Len(topic))
      BY <1>3, Bounds DEF Inv
    <3>2. offset' \in {NoOffset} \cup 0 .. Len(topic)
      BY <1>1 DEF Inv, TypeOK
    <3> QED
      BY <1>1, <3>1, <3>2, StreamerType DEF Inv, TypeOK
  <2>3. Orders'
    BY <1>1, <1>3, <2>1 DEF Inv, Orders, IdsInv, GtidInv, FlagInv, PlaceInv, SnapshotInv, Opened
  <2>4. OffsetOfAny' /\ OffsetOfRow'
    BY <1>1, <2>1, Streamed DEF Inv, OffsetOfAny, OffsetOfRow, Kept
  <2>5. ConsumerOfAny' /\ Streaming'
    BY <1>1, <1>3, <2>1 DEF Inv, ConsumerOfAny, Streaming, Kept
  <2>6. BeforeOpen' /\ FirstTime' /\ Again'
    BY <1>1, <1>3 DEF BeforeOpen, FirstTime, Again, Opened
  <2> QED
    BY <2>2, <2>3, <2>4, <2>5, <2>6 DEF Inv, Orders
<1> QED
  BY <1>1, <1>2, <1>3

LEMMA FailInv == ASSUME Inv, Fail PROVE Inv'
<1>1. /\ Leave
      /\ offset' = offset \/ (s.pc = "stream" /\ offset' = s.next)
      /\ UNCHANGED Others /\ UNCHANGED <<row, outputVars, historyVars>>
      /\ faults' \in Nat
  BY DEF Fail, Fault, SavedOffset, Others, sourceVars, readerVars, stateVars, Inv, TypeOK
<1> QED
  BY <1>1, LeaveStep

-----------------------------------------------------------------------------
(* The invariant is inductive, and what it says of a table that is streamed. *)

LEMMA InitInv == Init => Inv
<1> SUFFICES ASSUME Init PROVE Inv
  OBVIOUS
<1>1. /\ s \in Streamers(0, 0, 0) /\ s.pc = "idle" /\ s.acked = 0 /\ s.queued = 0 /\ s.n = 0
  BY NoStreamerType DEF Init, NoStreamer
<1>2. TypeOK
  <2>1. /\ topic \in Seq(Events) /\ Len(topic) = 0 /\ 0 \in Ids /\ 0 \in 0 .. MaxEvents
    BY Numbers DEF Init, Ids
  <2>2. /\ row \in [id : Ids, gtid : {NoGtid} \cup 0 .. master, new : BOOLEAN]
        /\ reader \in [pc : {"down", "reload", "save", "read"}, pos : 0 .. master, entry : Ids]
        /\ reader.pos = 0
    BY <2>1 DEF Init, NoRow
  <2> QED
    BY <1>1, <2>1, <2>2 DEF Init, TypeOK, Streamers
<1>3. row.id = 0 /\ row.gtid = NoGtid
  BY DEF Init, NoRow
<1>4. Orders
  BY <1>1, <1>3 DEF Init, Orders, IdsInv, GtidInv, FlagInv, PlaceInv, SnapshotInv, Opened
<1>5. Keeps
  BY <1>1, <1>3 DEF Keeps, OffsetOfAny, OffsetOfRow, ConsumerOfAny, BeforeOpen,
                    FirstTime, Again, Streaming, Opened
<1> QED
  BY <1>2, <1>4, <1>5 DEF Inv, Orders, Keeps

LEMMA NextInv == Inv /\ [Next]_vars => Inv'
<1> SUFFICES ASSUME Inv, [Next]_vars PROVE Inv'
  OBVIOUS
<1>1. CASE Commit \/ Replicate \/ Register \/ Deregister \/ DeleteKafkaOffsets
  BY <1>1, CommitInv, ReplicateInv, RegisterInv, DeregisterInv, DeleteKafkaOffsetsInv
<1>2. CASE ReaderStep \/ Read \/ StopReader
  BY <1>2, StartReaderInv, ReloadInv, SaveInv, ReadInv, StopReaderInv DEF ReaderStep
<1>3. CASE StreamerStep
  BY <1>3, LockTableInv, EnsureStartedInv, WaitForGtidInv, OpenConsumerInv,
     GetTableNewFlagInv, StartSnapshotInv, PushRowInv, CommitWithRetryInv, EndSnapshotInv,
     ClearNewFlagInv, StreamInv, TickInv DEF StreamerStep
<1>4. CASE CancelSnapshot \/ Fail
  BY <1>4, CancelSnapshotInv, FailInv
<1>5. CASE UNCHANGED vars
  BY <1>5, StutterInv
<1> QED
  BY <1>1, <1>2, <1>3, <1>4, <1>5 DEF Next

LEMMA InvAlways == Spec => []Inv
BY InitInv, NextInv, PTL DEF Spec

\* The variables keep their types: no counter of the snapshot or position of the
\* consumer leaves its range (streamer.go, snapshot.go).
THEOREM TypeCorrect == Spec => []TypeOK
<1>1. Inv => TypeOK
  BY DEF Inv
<1> QED
  BY <1>1, InvAlways, PTL

\* Whatever was registered, crashed or failed before: while a table is streamed,
\* every event that was read is in the snapshot, was streamed, or is ahead of the
\* consumer, but for the gaps (streamer.go:157-292).
THEOREM HandoverIsComplete == Spec => []HandoverComplete
<1>1. Inv => HandoverComplete
  <2> SUFFICES ASSUME Inv, s.pc = "stream", s.id = row.id, s.id \notin stolen,
                      NEW e \in 1 .. reader.pos, Lost(e)
               PROVE  e \in gap
    BY DEF HandoverComplete
  <2>1. e \in Safe \cup After(topic, s.next)
    BY DEF Inv, Streaming, Own, Kept, KeptAt
  <2>2. e \notin delivered /\ e \notin After(topic, s.next)
    BY DEF Lost, Ahead, After
  <2>3. e \notin 1 .. covered
    BY Bounds DEF Lost, Inv
  <2> QED
    BY <2>1, <2>2, <2>3 DEF Safe
<1> QED
  BY <1>1, InvAlways, PTL

\* The flag is cleared when the output has all of the snapshot
\* (snapshot.go:38-88, 149-182).
THEOREM SnapshotIsComplete == Spec => []SnapshotComplete
<1>1. Inv => SnapshotComplete
  BY DEF Inv, SnapshotInv, SnapshotComplete
<1> QED
  BY <1>1, InvAlways, PTL
=============================================================================
