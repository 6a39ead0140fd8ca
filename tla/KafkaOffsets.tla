------------------------------ MODULE KafkaOffsets ------------------------------
(***************************************************************************)
(* The arithmetic of consumer offsets in pipe/kafka.go: what a partition   *)
(* record and a row of kafka_offsets become when an offset is committed,   *)
(* and where consumption resumes from a row.  These are the pure parts of  *)
(* commitOffset, getOffsets and initTopicConsumer; TableStream puts the    *)
(* threads that call them around them.                                     *)
(***************************************************************************)
EXTENDS Integers

CONSTANTS
    BatchSize,   \* cfg.PipeBatchSize: output batch and fetcher channel capacity
    Interval,    \* offsetPersistInterval: messages between two periodic writes
    NoRow        \* kafka_offsets holds no row for the partition

ASSUME BatchSizeAssumption == BatchSize \in Nat \ {0}
ASSUME IntervalAssumption == Interval \in Nat \ {0}
ASSUME NoRowAssumption == NoRow \notin Int

\* sarama.OffsetNewest, the default of InitialOffset: "no offset seen yet".
InitialOffset == -1

\* Wrong: forgets the message the fetcher holds.
PipeBatchTooSmall == 2 * BatchSize

\* The batch size of the input pipe.
PipeBatch == 2 * BatchSize + 1

\* kafkaPartition, the two fields the offset protocol uses.
Partition == [offset : Int, savedOffset : Int]
FreshPartition == [offset |-> InitialOffset, savedOffset |-> InitialOffset]

\* Wrong: the interval is counted from every message, and never ends.
NotedAlways(tp, o) == [offset |-> o, savedOffset |-> o]

\* Wrong: the first offset seen does not start the interval.
NotedNever(tp, o) == [offset |-> o, savedOffset |-> tp.savedOffset]

\* The in-memory half of commitOffset: the first offset seen after opening
\* also becomes the reference the persist interval is counted from.
Noted(tp, o) ==
    [offset |-> o,
     savedOffset |-> IF tp.offset = InitialOffset THEN o ELSE tp.savedOffset]

PersistDue(tp, persistInterval) ==
    tp.offset - tp.savedOffset >= persistInterval

\* The offset that is written to kafka_offsets: one pipe batch behind the
\* message just read, or, with interval 0 (SaveOffset, graceful close), the
\* message after the last one read.
PersistedOffset(o, persistInterval) ==
    IF persistInterval # 0 THEN o - PipeBatch + 1 ELSE o + 1

\* Wrong: a row behind the beginning of the topic is used as it is.
StartOffsetUnclamped(row, newest) == IF row = NoRow THEN newest ELSE row

\* Wrong: the row is taken for the last offset consumed.
StartOffsetNext(row, newest) ==
    IF row = NoRow THEN newest ELSE IF row < 0 THEN 0 ELSE row + 1

\* Where a newly opened partition consumer starts: at the row, clamped to 0
\* by getOffsets, or at the newest offset when there is no row.
StartOffset(row, newest) ==
    IF row = NoRow THEN newest ELSE IF row < 0 THEN 0 ELSE row
=============================================================================
