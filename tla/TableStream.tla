------------------------------- MODULE TableStream -------------------------------
(***************************************************************************)
(* One table being streamed: streamer/buffer.go (StreamTable, processBatch,*)
(* produceEvent, eventFetcher) over one partition of a Kafka input topic   *)
(* (pipe/kafka.go: NewConsumer, FetchNext, SaveOffset, Close,              *)
(* CloseOnFailure) into a batching Kafka producer (PushBatch,              *)
(* PushBatchCommit), with the row of kafka_offsets that survives them.     *)
(*                                                                         *)
(* Two goroutines share the consumer: the fetcher, which reads the topic   *)
(* and blocks on a channel of BatchSize messages, and the main loop, which *)
(* drains the channel into output batches and, on a timer, saves the       *)
(* offset.  A message is named by its offset in the partition.             *)
(***************************************************************************)
EXTENDS KafkaOffsets, Sequences, FiniteSets

CONSTANTS
    MaxLog,      \* bound on the messages the topic ever receives
    Silent       \* offsets of schema events, which produce no output

ASSUME MaxLogAssumption == MaxLog \in Nat
ASSUME SilentAssumption == Silent \subseteq Nat

VARIABLES
    logEnd,      \* the topic holds messages 0 .. logEnd-1
    row,         \* kafka_offsets: the persisted offset of the partition
    part,        \* kafkaPartition of the open consumer
    next,        \* the offset the partition consumer delivers next
    start,       \* where the current consumer was opened (history variable)
    perr,        \* kafkaConsumer.err # nil
    fetcher,     \* eventFetcher goroutine: "off", in FetchNext or in the send
    held,        \* the message eventFetcher is sending
    msgCh,       \* the channel from the fetcher to the main loop
    pc,          \* main loop of StreamTable
    cur,         \* the message processBatch is working on
    b,           \* processBatch's count of messages handled in this batch
    batch,       \* kafkaProducer.batch[:batchPtr]
    graceful,    \* StreamTable's saveOffsets
    leaked,      \* the topic is still registered after closeConsumer failed
    out          \* offsets the output topic has received at least once

consumerVars == <<part, next, start, perr>>
fetcherVars  == <<fetcher, held>>
mainVars     == <<pc, cur, b, batch, graceful>>
vars == <<logEnd, row, consumerVars, fetcherVars, msgCh, mainVars, leaked, out>>

Message == [off : Int, err : BOOLEAN]
NoMessage == [off |-> InitialOffset, err |-> FALSE]

-----------------------------------------------------------------------------
(* commitOffset and commitConsumerPartitionOffsets.  `failed' says that    *)
(* ExecSQL returned an error, after which the row may or may not have been *)
(* written; savedOffset is then left behind.                               *)

CommitOffset(o, persistInterval, failed) ==
    LET tp == Noted(part, o)
    IN  \/ /\ o = InitialOffset \/ ~PersistDue(tp, persistInterval)
           /\ ~failed
           /\ part' = tp
           /\ UNCHANGED row
        \/ /\ o # InitialOffset /\ PersistDue(tp, persistInterval)
           /\ ~failed
           /\ part' = [tp EXCEPT !.savedOffset = o]
           /\ row' = PersistedOffset(o, persistInterval)
        \/ /\ o # InitialOffset /\ PersistDue(tp, persistInterval)
           /\ failed
           /\ part' = tp
           /\ row' \in {row, PersistedOffset(o, persistInterval)}

CommitPartitionOffsets(failed) == CommitOffset(part.offset, 0, failed)

-----------------------------------------------------------------------------
(* The topic and the fetcher goroutine. *)

\* The changelog reader appends to the topic; it does not know the streamer.
AppendToTopic ==
    /\ logEnd < MaxLog
    /\ logEnd' = logEnd + 1
    /\ UNCHANGED <<row, consumerVars, fetcherVars, msgCh, mainVars, leaked, out>>

\* FetchNext returns the next message, its offset noted, and Pop its error.
FetchNext ==
    /\ fetcher = "fetch"
    /\ next < logEnd
    /\ \E failed \in BOOLEAN :
          /\ CommitOffset(next, Interval, failed)
          /\ perr' = failed
          /\ held' = [off |-> next, err |-> failed]
    /\ next' = next + 1
    /\ fetcher' = "send"
    /\ UNCHANGED <<logEnd, start, msgCh, mainVars, leaked, out>>

\* Wrong: the channel takes one message too many.
ChannelHasRoomForOneMore == Len(msgCh) <= BatchSize

ChannelHasRoom == Len(msgCh) < BatchSize

\* Wrong: a send that would block drops the message.
SendOrDrop ==
    /\ fetcher = "send"
    /\ msgCh' = IF ChannelHasRoom THEN Append(msgCh, held) ELSE msgCh
    /\ held' = NoMessage
    /\ fetcher' = IF held.err THEN "off" ELSE "fetch"
    /\ UNCHANGED <<logEnd, row, consumerVars, mainVars, leaked, out>>

\* Wrong: the fetcher ends on an error without telling the main loop.
SendWithoutError ==
    /\ fetcher = "send"
    /\ ChannelHasRoom
    /\ msgCh' = Append(msgCh, [held EXCEPT !.err = FALSE])
    /\ held' = NoMessage
    /\ fetcher' = IF held.err THEN "off" ELSE "fetch"
    /\ UNCHANGED <<logEnd, row, consumerVars, mainVars, leaked, out>>

\* The send succeeds; the fetcher ends after a message that carries an error.
SendToMain ==
    /\ fetcher = "send"
    /\ ChannelHasRoom
    /\ msgCh' = Append(msgCh, held)
    /\ held' = NoMessage
    /\ fetcher' = IF held.err THEN "off" ELSE "fetch"
    /\ UNCHANGED <<logEnd, row, consumerVars, mainVars, leaked, out>>

-----------------------------------------------------------------------------
(* The main loop: processBatch. *)

TakeFromChannel ==
    /\ msgCh # <<>>
    /\ cur' = Head(msgCh)
    /\ msgCh' = Tail(msgCh)
    /\ pc' = "produce"

\* The select of StreamTable picks the channel: a new batch begins.
BeginBatch ==
    /\ pc = "select"
    /\ TakeFromChannel
    /\ UNCHANGED <<logEnd, row, consumerVars, fetcherVars, b, batch, graceful, leaked, out>>

\* Wrong: a failed batch is forgotten and the loop goes on.
FailBatchIgnored ==
    /\ pc' = "select"
    /\ UNCHANGED <<graceful, b>>

\* processBatch returns false: the consumer will be closed on failure.
FailBatch ==
    /\ pc' = "close"
    /\ graceful' = FALSE
    /\ UNCHANGED b

BatchIsFull(n) == n >= BatchSize

\* An event was handled: the batch goes on until BatchSize events were.
HandledEvent ==
    /\ b' = b + 1
    /\ pc' = IF BatchIsFull(b + 1) THEN "commit" ELSE "more"
    /\ UNCHANGED graceful

\* SendMessages returned no error: the whole batch is in the output topic.
Delivered(msgs) ==
    /\ out' = out \cup msgs
    /\ batch' = {}

\* SendMessages returned an error: any part of the batch may be there, and
\* batchPtr is not reset.
PartlyDelivered(msgs) ==
    /\ \E some \in SUBSET msgs : out' = out \cup some
    /\ batch' = msgs

\* PushBatch adds an encoded event to the batch and sends a full batch.
PushEvent ==
    LET msgs == batch \cup {cur.off}
    IN  \/ /\ Cardinality(msgs) < BatchSize
           /\ batch' = msgs
           /\ HandledEvent
           /\ UNCHANGED out
        \/ /\ Cardinality(msgs) >= BatchSize
           /\ Delivered(msgs)
           /\ HandledEvent
        \/ /\ Cardinality(msgs) >= BatchSize
           /\ PartlyDelivered(msgs)
           /\ FailBatch

\* A schema event encodes to nothing.
SkipEvent ==
    /\ HandledEvent
    /\ UNCHANGED <<batch, out>>

\* The fetcher's error, or an event that cannot be decoded or encoded.
RejectEvent ==
    /\ FailBatch
    /\ UNCHANGED <<batch, out>>

ProduceEvent ==
    /\ pc = "produce"
    /\ \/ RejectEvent
       \/ ~cur.err /\ cur.off \in Silent /\ SkipEvent
       \/ ~cur.err /\ cur.off \notin Silent /\ PushEvent
    /\ cur' = NoMessage
    /\ UNCHANGED <<logEnd, row, consumerVars, fetcherVars, msgCh, leaked>>

\* The inner select: the next message if there is one, else commit.
TakeMore ==
    /\ pc = "more"
    /\ \/ TakeFromChannel
       \/ /\ msgCh = <<>>
          /\ pc' = "commit"
          /\ UNCHANGED <<cur, msgCh>>
    /\ UNCHANGED <<logEnd, row, consumerVars, fetcherVars, b, batch, graceful, leaked, out>>

CommitBatch ==
    /\ pc = "commit"
    /\ \/ /\ Delivered(batch)
          /\ b' = 0
          /\ pc' = "select"
          /\ UNCHANGED graceful
       \/ /\ batch # {}
          /\ PartlyDelivered(batch)
          /\ FailBatch
    /\ UNCHANGED <<logEnd, row, consumerVars, fetcherVars, msgCh, cur, leaked>>

-----------------------------------------------------------------------------
(* The main loop: the timer, the reasons to stop, and the deferred close. *)

\* The tick passed its checks of the locks and of the registration and saves
\* the offset; an error, its own or the fetcher's, ends the loop gracefully.
SaveOffset ==
    /\ pc = "select"
    /\ \E failed \in BOOLEAN :
          /\ CommitPartitionOffsets(failed)
          /\ pc' = IF failed \/ perr THEN "close" ELSE "select"
    /\ UNCHANGED <<logEnd, next, start, perr, fetcherVars, msgCh,
                   cur, b, batch, graceful, leaked, out>>

\* A tick finds the table or cluster lock lost or the table deregistered, or
\* shutdown was initiated: StreamTable returns true.
StopStreaming ==
    /\ pc = "select"
    /\ pc' = "close"
    /\ UNCHANGED <<logEnd, row, consumerVars, fetcherVars, msgCh,
                   cur, b, batch, graceful, leaked, out>>

\* The goroutines are gone, and with them what they held.
Stopped ==
    /\ pc' = "down"
    /\ fetcher' = "off"
    /\ held' = NoMessage
    /\ msgCh' = <<>>
    /\ cur' = NoMessage
    /\ b' = 0
    /\ batch' = {}

\* StreamTable's deferred Close or CloseOnFailure, then the wait for the
\* fetcher.  closeConsumer returns early, the topic still registered, when
\* the commit or the close of a partition consumer fails.
CloseConsumer ==
    /\ pc = "close"
    /\ \/ /\ graceful
          /\ \E failed, closeFailed \in BOOLEAN :
                /\ CommitPartitionOffsets(failed)
                /\ leaked' = (failed \/ perr \/ closeFailed)
       \/ /\ ~graceful
          /\ leaked' \in BOOLEAN
          /\ UNCHANGED <<part, row>>
    /\ Stopped
    /\ UNCHANGED <<logEnd, next, start, perr, graceful, out>>

\* NewConsumer and StreamTable.  A leaked registration makes NewConsumer
\* fail: there is one partition and it seems to have a consumer.
OpenConsumer ==
    /\ pc = "down"
    /\ ~leaked
    /\ next' = StartOffset(row, logEnd)
    /\ start' = next'
    /\ part' = FreshPartition
    /\ perr' = FALSE
    /\ graceful' = TRUE
    /\ fetcher' = "fetch"
    /\ pc' = "select"
    /\ UNCHANGED <<logEnd, row, held, msgCh, cur, b, batch, leaked, out>>

\* The process dies and is started again.
Crash ==
    /\ Stopped
    /\ leaked' = FALSE
    /\ UNCHANGED <<logEnd, row, consumerVars, graceful, out>>

-----------------------------------------------------------------------------
Init ==
    /\ logEnd = 0
    /\ row = NoRow
    /\ part = FreshPartition
    /\ next = 0
    /\ start = 0
    /\ perr = FALSE
    /\ fetcher = "off"
    /\ held = NoMessage
    /\ msgCh = <<>>
    /\ pc = "down"
    /\ cur = NoMessage
    /\ b = 0
    /\ batch = {}
    /\ graceful = TRUE
    /\ leaked = FALSE
    /\ out = {}

Fetcher == FetchNext \/ SendToMain

Main == BeginBatch \/ ProduceEvent \/ TakeMore \/ CommitBatch \/ CloseConsumer

Next ==
    \/ AppendToTopic
    \/ FetchNext
    \/ SendToMain
    \/ BeginBatch
    \/ ProduceEvent
    \/ TakeMore
    \/ CommitBatch
    \/ SaveOffset
    \/ StopStreaming
    \/ CloseConsumer
    \/ OpenConsumer
    \/ Crash

Spec == Init /\ [][Next]_vars

\* A goroutine that can run eventually does; the timer, shutdown, crashes and
\* the producer of the topic are owed nothing.
FairSpec == Spec /\ WF_vars(Fetcher) /\ WF_vars(Main)

-----------------------------------------------------------------------------
(* Properties. *)

\* Type correctness of the streamer's state (streamer/buffer.go,
\* pipe/kafka.go).
TypeOK ==
    /\ logEnd \in 0 .. MaxLog
    /\ row \in Int \cup {NoRow}
    /\ part \in Partition
    /\ next \in Nat /\ start \in Nat
    /\ perr \in BOOLEAN /\ graceful \in BOOLEAN /\ leaked \in BOOLEAN
    /\ fetcher \in {"off", "fetch", "send"}
    /\ held \in Message /\ cur \in Message
    /\ msgCh \in Seq(Message)
    /\ pc \in {"down", "select", "produce", "more", "commit", "close"}
    /\ b \in 0 .. BatchSize
    /\ batch \subseteq Nat
    /\ out \subseteq Nat

Running == pc # "down"
Done(m) == m \in out \/ m \in Silent
HeldCount == IF fetcher = "send" THEN 1 ELSE 0
CurCount == IF pc = "produce" THEN 1 ELSE 0

\* Messages the consumer has returned from FetchNext whose output batch has
\* not been committed.
InFlight == HeldCount + Len(msgCh) + CurCount + b

\* At most 2*batch_size+1 events are in flight, the number main.go sizes the
\* input pipe by (comment at main.go:134) and commitOffset holds back.
InFlightBound == InFlight <= PipeBatch

\* No message slips through the hand-offs fetcher -> channel -> batch ->
\* output: until a batch fails, everything fetched before the in-flight
\* window is in the output, and everything in the window is in somebody's
\* hands (streamer/buffer.go).
NothingDropped ==
    Running /\ graceful =>
        /\ \A m \in start .. next - InFlight - 1 : Done(m)
        /\ \A m \in next - InFlight .. next - 1 :
              \/ Done(m) \/ m \in batch
              \/ CurCount = 1 /\ m = cur.off
              \/ \E i \in 1 .. Len(msgCh) : msgCh[i].off = m
              \/ HeldCount = 1 /\ m = held.off

\* The offset FetchNext persists every Interval messages never covers a
\* message the output has not received, so a crash resends every one of them
\* (comments at kafka.go:45 and main.go:131).
FetchPersistsSafely ==
    [][next' = next + 1 /\ row' # row => \A m \in start .. row' - 1 : Done(m)]_vars

Unfinished(hi) == {m \in start .. hi - 1 : ~Done(m)}

\* No single write of the row, the periodic save and the graceful close
\* included, covers more than one pipe batch of undelivered messages: the
\* loss a save can cause is bounded (comment at buffer.go:248).
BoundedLossPerWrite ==
    [][row' # row => Cardinality(Unfinished(row')) <= PipeBatch]_vars

\* After a crash at any moment at most Interval messages and one pipe batch
\* are fetched again: the row cannot fall further behind (kafka.go:42-48).
ResendBound ==
    Running /\ row # NoRow => next - StartOffset(row, logEnd) <= Interval + PipeBatch

\* While the streamer streams, a periodic write sets the row behind an earlier
\* one by no more than the interval falls short of a pipe batch: not at all
\* with an interval as long as a batch (kafka.go:374-386).  Once a save was
\* reported as failed, and was written all the same, the next write may.
RowNeverRegresses ==
    [][row # NoRow /\ pc # "close"
        => row' >= row \/ row' >= row - (PipeBatch - Interval)]_vars

\* A row never points past the end of the topic, where ConsumePartition
\* would refuse to start (kafka.go:308; TestKafkaOffsets* in kafka_test.go).
RowWithinTopic ==
    row # NoRow => StartOffset(row, logEnd) <= logEnd

\* Again and again the streamer has delivered all the topic holds, or stops: no
\* hand-off blocks for ever, a fetcher that ended on an error has told the main
\* loop (streamer/buffer.go:182-204).
DrainsOrStops == []<>(~Running \/ \A m \in start .. logEnd - 1 : Done(m))

\* TableStream implements the abstract Delivery with one pipe batch as the
\* window.
Abstract == INSTANCE Delivery WITH
    Window <- PipeBatch, NoPosition <- NoRow,
    produced <- logEnd, from <- start, taken <- next,
    delivered <- out, position <- row
Implements == Abstract!Spec

\* kafka.go:378, "graceful shutdown, all messages acked, start from next
\* offset next time": a graceful close covers only messages that were
\* processed.
AckedMeansDelivered ==
    [][pc = "close" /\ row' # row => \A m \in start .. row' - 1 : Done(m)]_vars

=============================================================================
