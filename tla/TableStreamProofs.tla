---------------------------- MODULE TableStreamProofs ----------------------------
(***************************************************************************)
(* Proofs about TableStream for every BatchSize, Interval, MaxLog and set  *)
(* of Silent offsets.  The argument is one inductive invariant, Inv: the   *)
(* offsets in the fetcher, the channel, the main loop and the batch are    *)
(* consecutive and end at next-1 (WindowInv), and whatever lies before     *)
(* them has been delivered (DeliveredInv).                                 *)
(***************************************************************************)
EXTENDS TableStream, FiniteSetTheorems, TLAPS

\* The first offset of the channel, and the first offset of the batch.
ChannelLow == next - HeldCount - Len(msgCh)
BatchLow == next - InFlight

\* The fetcher, the channel and the main loop hold consecutive offsets.
WindowInv ==
    /\ fetcher = "send" => held.off = next - 1
    /\ Len(msgCh) <= BatchSize
    /\ \A i \in 1 .. Len(msgCh) : msgCh[i].off = ChannelLow + i - 1
    /\ pc = "produce" => cur.off = ChannelLow - 1

\* What the main loop's program counter says of the batch and of graceful.
LoopInv ==
    /\ pc \in {"produce", "more"} => b < BatchSize
    /\ pc = "select" => b = 0
    /\ pc = "close" /\ graceful => b = 0
    /\ Running /\ ~graceful => pc = "close"
    /\ ~Running => /\ fetcher = "off" /\ msgCh = <<>>
                   /\ b = 0 /\ batch = {}

\* The consumer's offsets.
OffsetInv ==
    /\ Running => /\ start <= BatchLow /\ next <= logEnd
                  /\ part.offset = IF next = start THEN InitialOffset ELSE next - 1
    /\ row # NoRow => row <= logEnd

\* What has been delivered.
DeliveredInv ==
    /\ Running => \A m \in start .. ChannelLow - BatchSize - 1 : Done(m)
    /\ Running /\ graceful =>
          /\ \A m \in start .. BatchLow - 1 : Done(m)
          /\ \A m \in BatchLow .. BatchLow + b - 1 : Done(m) \/ m \in batch
          /\ batch \subseteq BatchLow .. BatchLow + b - 1

Inv == TypeOK /\ WindowInv /\ LoopInv /\ OffsetInv /\ DeliveredInv

USE BatchSizeAssumption, IntervalAssumption, NoRowAssumption,
    MaxLogAssumption, SilentAssumption

\* commitOffset notes the offset, and the row it leaves is the old one or the
\* persisted one (kafka.go:358-390).
LEMMA CommitOffsetEffect ==
    ASSUME part \in Partition, row \in Int \cup {NoRow},
           NEW o \in Int, NEW interval \in Nat, NEW failed \in BOOLEAN,
           CommitOffset(o, interval, failed)
    PROVE  /\ part' \in Partition /\ part'.offset = o
           /\ row' \in Int \cup {NoRow}
           /\ row' = row \/ (o # InitialOffset /\ row' = PersistedOffset(o, interval))
  BY DEF CommitOffset, Noted, Partition, PersistedOffset, PipeBatch

LEMMA NoMessageType == NoMessage \in Message
  BY DEF NoMessage, Message, InitialOffset

\* The in-flight bound follows from the channel's capacity and the batch limit.
LEMMA InvImpliesBound == Inv => InFlightBound
  <1> SUFFICES ASSUME Inv PROVE InFlightBound
    OBVIOUS
  <1>1. HeldCount \in 0 .. 1 /\ Len(msgCh) \in 0 .. BatchSize
    BY DEF Inv, TypeOK, WindowInv, HeldCount
  <1>2. CurCount + b \in 0 .. BatchSize
    BY DEF Inv, TypeOK, LoopInv, CurCount
  <1> QED BY <1>1, <1>2 DEF Inv, TypeOK, InFlightBound, InFlight, CurCount, PipeBatch

\* The initial state satisfies the inductive invariant.
LEMMA InitInv == Init => Inv
  <1> SUFFICES ASSUME Init PROVE Inv
    OBVIOUS
  <1>1. TypeOK
    <2>1. msgCh \in Seq(Message)
      BY DEF Init
    <2>2. part \in Partition /\ held \in Message /\ cur \in Message
      BY DEF Init, FreshPartition, Partition, InitialOffset, Message, NoMessage
    <2>3. 0 \in 0 .. MaxLog /\ 0 \in 0 .. BatchSize
      OBVIOUS
    <2>4. row \in Int \cup {NoRow} /\ batch \subseteq Nat /\ out \subseteq Nat
      BY DEF Init
    <2> QED BY <2>1, <2>2, <2>3, <2>4 DEF Init, TypeOK
  <1>2. WindowInv
    BY DEF Init, WindowInv
  <1>3. LoopInv /\ OffsetInv /\ DeliveredInv
    BY DEF Init, LoopInv, OffsetInv, DeliveredInv, Running
  <1> QED BY <1>1, <1>2, <1>3 DEF Inv

\* FetchNext adds the next offset to the window.
LEMMA FetchNextInv == Inv /\ FetchNext => Inv'
  <1> SUFFICES ASSUME Inv, FetchNext PROVE Inv'
    OBVIOUS
  <1> USE DEF Inv
  <1>1. PICK failed \in BOOLEAN :
            /\ CommitOffset(next, Interval, failed)
            /\ perr' = failed
            /\ held' = [off |-> next, err |-> failed]
    BY DEF FetchNext
  <1>2. /\ part' \in Partition /\ part'.offset = next
        /\ row' \in Int \cup {NoRow}
        /\ row' = row \/ row' = PersistedOffset(next, Interval)
    <2>1. part \in Partition /\ row \in Int \cup {NoRow} /\ next \in Int /\ Interval \in Nat
      BY DEF TypeOK
    <2> QED BY <1>1, <2>1, CommitOffsetEffect
  <1>3. Running /\ Running'
    BY DEF FetchNext, mainVars, LoopInv, Running
  <1>4. TypeOK'
    BY <1>1, <1>2 DEF FetchNext, TypeOK, Message, mainVars
  <1>5. WindowInv'
    BY <1>1 DEF FetchNext, TypeOK, WindowInv, HeldCount, ChannelLow, mainVars
  <1>6. LoopInv'
    BY <1>3 DEF FetchNext, LoopInv, Running, mainVars
  <1>7. ChannelLow' = ChannelLow /\ BatchLow' = BatchLow /\ BatchLow <= next
    BY DEF FetchNext, ChannelLow, BatchLow, InFlight, HeldCount, CurCount, TypeOK, mainVars
  <1>8. OffsetInv'
    <2>1. /\ start' = start /\ logEnd' = logEnd /\ next' = next + 1 /\ next < logEnd
          /\ start \in Nat /\ next \in Nat /\ logEnd \in Nat /\ BatchLow \in Int
      BY DEF FetchNext, TypeOK, BatchLow, InFlight, HeldCount, CurCount
    <2>2. start <= BatchLow' /\ next' <= logEnd'
      BY <1>3, <1>7, <2>1 DEF OffsetInv
    <2>3. part'.offset = IF next' = start' THEN InitialOffset ELSE next' - 1
      BY <1>2, <1>7, <2>1, <2>2
    <2>4. PersistedOffset(next, Interval) <= logEnd
      BY <2>1 DEF PersistedOffset, PipeBatch
    <2> QED BY <1>2, <2>1, <2>2, <2>3, <2>4 DEF OffsetInv
  <1>9. DeliveredInv'
    BY <1>7, <1>3 DEF FetchNext, DeliveredInv, Done, Running, mainVars
  <1> QED BY <1>4, <1>5, <1>6, <1>8, <1>9

\* SendToMain moves the held message to the end of the channel.
LEMMA SendToMainInv == Inv /\ SendToMain => Inv'
  <1> SUFFICES ASSUME Inv, SendToMain PROVE Inv'
    OBVIOUS
  <1> USE DEF Inv
  <1>1. /\ msgCh \in Seq(Message) /\ held \in Message
        /\ msgCh' = Append(msgCh, held) /\ Len(msgCh) < BatchSize
        /\ HeldCount = 1 /\ HeldCount' = 0
    BY DEF SendToMain, ChannelHasRoom, TypeOK, HeldCount
  <1>2. /\ Len(msgCh) \in Nat
        /\ Len(msgCh') = Len(msgCh) + 1
        /\ \A i \in 1 .. Len(msgCh) : msgCh'[i] = msgCh[i]
        /\ msgCh'[Len(msgCh) + 1] = held
    BY <1>1
  <1>3. ChannelLow' = ChannelLow /\ BatchLow' = BatchLow /\ Running' = Running
    BY <1>1, <1>2 DEF SendToMain, ChannelLow, BatchLow, InFlight, CurCount, TypeOK,
                      Running, mainVars, consumerVars
  <1>4. TypeOK'
    BY <1>1, NoMessageType DEF SendToMain, TypeOK, mainVars, consumerVars
  <1>5. WindowInv'
    <2>1. held.off = ChannelLow + Len(msgCh)
      BY <1>1, <1>2 DEF SendToMain, WindowInv, ChannelLow, TypeOK
    <2>2. \A i \in 1 .. Len(msgCh') : msgCh'[i].off = ChannelLow' + i - 1
      <3> TAKE i \in 1 .. Len(msgCh')
      <3>1. CASE i = Len(msgCh) + 1
        BY <2>1, <3>1, <1>2, <1>3, <1>1 DEF TypeOK, ChannelLow
      <3>2. CASE i # Len(msgCh) + 1
        BY <3>2, <1>2, <1>3 DEF WindowInv
      <3> QED BY <3>1, <3>2
    <2> QED BY <2>2, <1>1, <1>2, <1>3 DEF SendToMain, WindowInv, mainVars
  <1>6. LoopInv'
    BY <1>3 DEF SendToMain, LoopInv, Running, mainVars
  <1>7. OffsetInv'
    BY <1>3 DEF SendToMain, OffsetInv, consumerVars
  <1>8. DeliveredInv'
    BY <1>3 DEF SendToMain, DeliveredInv, Done, mainVars, consumerVars
  <1> QED BY <1>4, <1>5, <1>6, <1>7, <1>8

\* What TakeFromChannel does to the window, in either of the two places
\* where the main loop receives.
LEMMA TakeFromChannelWindow ==
    ASSUME Inv, TakeFromChannel, pc \in {"select", "more"},
           UNCHANGED <<consumerVars, fetcherVars, b>>
    PROVE  /\ cur' \in Message /\ msgCh' \in Seq(Message)
           /\ Len(msgCh) \in Nat /\ Len(msgCh') = Len(msgCh) - 1
           /\ ChannelLow' = ChannelLow + 1
           /\ BatchLow' = BatchLow
           /\ WindowInv'
  <1> USE DEF Inv
  <1>1. /\ msgCh \in Seq(Message) /\ msgCh # <<>>
        /\ cur' = Head(msgCh) /\ msgCh' = Tail(msgCh)
    BY DEF TakeFromChannel, TypeOK
  <1>2. /\ cur' \in Message /\ cur' = msgCh[1] /\ msgCh' \in Seq(Message)
        /\ Len(msgCh) \in Nat /\ Len(msgCh) >= 1 /\ Len(msgCh') = Len(msgCh) - 1
        /\ \A i \in 1 .. Len(msgCh') : msgCh'[i] = msgCh[i + 1]
    BY <1>1
  <1>3. HeldCount \in Nat /\ HeldCount' = HeldCount /\ next \in Nat /\ next' = next
    BY DEF HeldCount, TypeOK, fetcherVars, consumerVars
  <1>4. ChannelLow' = ChannelLow + 1 /\ ChannelLow \in Int
    BY <1>2, <1>3 DEF ChannelLow
  <1>5. BatchLow' = BatchLow
    BY <1>2, <1>3 DEF BatchLow, InFlight, CurCount, TypeOK, TakeFromChannel
  <1>6. WindowInv'
    <2>1. \A i \in 1 .. Len(msgCh') : msgCh'[i].off = ChannelLow' + i - 1
      <3> TAKE i \in 1 .. Len(msgCh')
      <3>1. i \in Int /\ i + 1 \in 1 .. Len(msgCh)
        BY <1>2
      <3>2. msgCh[i + 1].off = ChannelLow + (i + 1) - 1
        BY <3>1 DEF WindowInv
      <3> QED BY <3>1, <3>2, <1>2, <1>4
    <2>2. cur'.off = ChannelLow' - 1
      BY <1>2, <1>4 DEF WindowInv
    <2> QED BY <2>1, <2>2, <1>2, <1>3, BatchSizeAssumption DEF WindowInv, fetcherVars
  <1> QED BY <1>2, <1>4, <1>5, <1>6

LEMMA BeginBatchInv == Inv /\ BeginBatch => Inv'
  <1> SUFFICES ASSUME Inv, BeginBatch PROVE Inv'
    OBVIOUS
  <1> USE DEF Inv
  <1>1. /\ pc = "select" /\ pc' = "produce" /\ TakeFromChannel
        /\ UNCHANGED <<logEnd, row, consumerVars, fetcherVars, b, batch, graceful, leaked, out>>
    BY DEF BeginBatch, TakeFromChannel
  <1>2. /\ cur' \in Message /\ msgCh' \in Seq(Message)
        /\ Len(msgCh) \in Nat /\ Len(msgCh') = Len(msgCh) - 1
        /\ ChannelLow' = ChannelLow + 1
        /\ BatchLow' = BatchLow
        /\ WindowInv'
    BY <1>1, TakeFromChannelWindow
  <1>3. b = 0 /\ graceful /\ Running /\ Running'
    BY <1>1 DEF LoopInv, Running, TypeOK
  <1>4. TypeOK'
    BY <1>1, <1>2 DEF TypeOK, consumerVars, fetcherVars
  <1>5. LoopInv' /\ OffsetInv'
    BY <1>1, <1>2, <1>3, BatchSizeAssumption DEF LoopInv, OffsetInv, Running, consumerVars, TypeOK
  <1>6. BatchLow = ChannelLow
    BY <1>1, <1>3 DEF BatchLow, ChannelLow, InFlight, CurCount, TypeOK, HeldCount
  <1>7. DeliveredInv'
    <2>1. ChannelLow \in Int /\ start \in Int
      BY <1>2 DEF ChannelLow, TypeOK, HeldCount
    <2>2. /\ start' = start /\ b' = b /\ batch' = batch
          /\ \A m : Done(m)' <=> Done(m)
      BY <1>1 DEF Done, consumerVars
    <2>3. \A m \in start .. ChannelLow' - BatchSize - 1 : Done(m)
      BY <1>2, <1>3, <1>6, <2>1 DEF DeliveredInv
    <2> QED BY <2>2, <2>3, <1>2, <1>3 DEF DeliveredInv
  <1> QED BY <1>2, <1>4, <1>5, <1>7

LEMMA TakeMoreInv == Inv /\ TakeMore => Inv'
  <1> SUFFICES ASSUME Inv, TakeMore PROVE Inv'
    OBVIOUS
  <1> USE DEF Inv
  <1>1. /\ pc = "more"
        /\ UNCHANGED <<logEnd, row, consumerVars, fetcherVars, b, batch, graceful, leaked, out>>
    BY DEF TakeMore
  <1>2. graceful /\ Running /\ b < BatchSize
    BY <1>1 DEF LoopInv, Running, TypeOK
  <1>3. /\ start' = start /\ b' = b /\ batch' = batch
        /\ \A m : Done(m)' <=> Done(m)
    BY <1>1 DEF Done, consumerVars
  <1>4. Len(msgCh) \in Nat /\ HeldCount \in Nat /\ next \in Nat /\ b \in Nat /\ start \in Nat
    BY DEF TypeOK, HeldCount
  <1>5. CASE TakeFromChannel
    <2>1. /\ cur' \in Message /\ msgCh' \in Seq(Message)
          /\ Len(msgCh) \in Nat /\ Len(msgCh') = Len(msgCh) - 1
          /\ ChannelLow' = ChannelLow + 1
          /\ BatchLow' = BatchLow
          /\ WindowInv'
      BY <1>1, <1>5, TakeFromChannelWindow
    <2>2. pc' = "produce" /\ Running'
      BY <1>5 DEF TakeFromChannel, Running
    <2>3. TypeOK'
      BY <1>1, <2>1, <2>2 DEF TypeOK, consumerVars, fetcherVars
    <2>4. LoopInv' /\ OffsetInv'
      BY <1>1, <1>2, <2>1, <2>2 DEF LoopInv, OffsetInv, Running, consumerVars, TypeOK
    <2>5. BatchLow = ChannelLow - b
      BY <1>1, <1>4 DEF BatchLow, ChannelLow, InFlight, CurCount
    <2>6. \A m \in start .. ChannelLow' - BatchSize - 1 : Done(m)
      BY <1>2, <1>4, <2>1, <2>5 DEF DeliveredInv, ChannelLow
    <2>7. DeliveredInv'
      BY <1>2, <1>3, <2>1, <2>6 DEF DeliveredInv
    <2> QED BY <2>1, <2>3, <2>4, <2>7
  <1>6. CASE pc' = "commit" /\ UNCHANGED <<cur, msgCh>>
    <2>1. ChannelLow' = ChannelLow /\ BatchLow' = BatchLow /\ Running'
      BY <1>1, <1>6 DEF ChannelLow, BatchLow, InFlight, HeldCount, CurCount, Running,
                        consumerVars, fetcherVars
    <2>2. TypeOK' /\ WindowInv' /\ LoopInv' /\ OffsetInv'
      BY <1>1, <1>2, <1>6, <2>1 DEF TypeOK, WindowInv, LoopInv, OffsetInv, Running,
                        consumerVars, fetcherVars
    <2>3. DeliveredInv'
      BY <1>2, <1>3, <2>1 DEF DeliveredInv
    <2> QED BY <2>2, <2>3
  <1> QED BY <1>5, <1>6 DEF TakeMore

\* The window does not change shape when the main loop gives up or finishes
\* an event: only cur leaves it.
LEMMA ProduceEventInv == Inv /\ ProduceEvent => Inv'
  <1> SUFFICES ASSUME Inv, ProduceEvent PROVE Inv'
    OBVIOUS
  <1> USE DEF Inv
  <1>1. /\ pc = "produce" /\ cur' = NoMessage
        /\ UNCHANGED <<logEnd, row, consumerVars, fetcherVars, msgCh, leaked>>
    BY DEF ProduceEvent
  <1>2. graceful /\ Running /\ b < BatchSize
    BY <1>1 DEF LoopInv, Running, TypeOK
  <1>3. /\ Len(msgCh) \in Nat /\ HeldCount \in Nat /\ next \in Nat /\ b \in Nat
        /\ start \in Nat /\ batch \subseteq Nat /\ out \subseteq Nat
        /\ cur.off = ChannelLow - 1 /\ ChannelLow \in Int
        /\ BatchLow = ChannelLow - b - 1
    BY <1>1 DEF TypeOK, HeldCount, ChannelLow, WindowInv, BatchLow, InFlight, CurCount
  <1>4. start' = start /\ ChannelLow' = ChannelLow /\ HeldCount' = HeldCount
    BY <1>1 DEF consumerVars, fetcherVars, ChannelLow, HeldCount
  <1>5. start <= BatchLow /\ cur.off \in Nat
    <2>1. start <= BatchLow
      BY <1>2 DEF OffsetInv
    <2> QED BY <1>3, <2>1
  <1>6. CASE FailBatch /\ batch' \subseteq Nat /\ out' \subseteq Nat /\ out \subseteq out'
    <2>1. pc' = "close" /\ graceful' = FALSE /\ b' = b /\ Running'
      BY <1>6 DEF FailBatch, Running
    <2>2. BatchLow' = BatchLow + 1
      BY <1>1, <1>3, <1>4, <2>1 DEF BatchLow, InFlight, CurCount, consumerVars
    <2>3. TypeOK'
      BY <1>1, <1>6, <2>1, NoMessageType DEF TypeOK, consumerVars, fetcherVars
    <2>4. WindowInv'
      BY <1>1, <1>4, <2>1 DEF WindowInv, consumerVars, fetcherVars
    <2>5. LoopInv' /\ OffsetInv'
      BY <1>1, <1>2, <1>3, <1>5, <2>1, <2>2 DEF LoopInv, OffsetInv, consumerVars
    <2>6. DeliveredInv'
      BY <1>2, <1>4, <1>6, <2>1 DEF DeliveredInv, Done
    <2> QED BY <2>3, <2>4, <2>5, <2>6
  <1>7. CASE /\ HandledEvent
             /\ batch' \subseteq batch \cup {cur.off}
             /\ out' \subseteq out \cup batch \cup {cur.off} /\ out \subseteq out'
             /\ cur.off \in Silent \cup batch' \cup out'
             /\ batch \subseteq batch' \cup out'
    <2>1. /\ pc' \in {"commit", "more"} /\ graceful' = graceful /\ b' = b + 1 /\ Running'
          /\ pc' = "more" => b' < BatchSize
      BY <1>3, <1>7 DEF HandledEvent, BatchIsFull, Running
    <2>2. BatchLow' = BatchLow
      BY <1>1, <1>3, <1>4, <2>1 DEF BatchLow, InFlight, CurCount, consumerVars
    <2>3. TypeOK'
      BY <1>1, <1>2, <1>3, <1>5, <1>7, <2>1, NoMessageType
         DEF TypeOK, consumerVars, fetcherVars
    <2>4. WindowInv'
      BY <1>1, <1>4, <2>1 DEF WindowInv, consumerVars, fetcherVars
    <2>5. LoopInv' /\ OffsetInv'
      BY <1>1, <1>2, <1>3, <2>1, <2>2 DEF LoopInv, OffsetInv, Running, consumerVars
    <2>6. DeliveredInv'
      <3>1. \A m \in start .. ChannelLow - BatchSize - 1 : Done(m)'
        BY <1>2, <1>7 DEF DeliveredInv, Done
      <3>2. \A m \in start .. BatchLow - 1 : Done(m)'
        BY <1>2, <1>7 DEF DeliveredInv, Done
      <3>3. cur.off = BatchLow + b
        BY <1>3
      <3>4. \A m \in BatchLow .. BatchLow + b : Done(m)' \/ m \in batch'
        BY <1>2, <1>3, <1>7, <3>3 DEF DeliveredInv, Done
      <3>5. batch' \subseteq BatchLow .. BatchLow + b
        BY <1>2, <1>3, <1>7, <3>3 DEF DeliveredInv
      <3> QED BY <1>3, <1>4, <2>1, <2>2, <3>1, <3>2, <3>4, <3>5 DEF DeliveredInv
    <2> QED BY <2>3, <2>4, <2>5, <2>6
  <1>8. CASE RejectEvent
    BY <1>3, <1>6, <1>8 DEF RejectEvent
  <1>9. CASE cur.off \in Silent /\ SkipEvent
    BY <1>7, <1>9 DEF SkipEvent
  <1>10. CASE PushEvent
    <2>1. CASE /\ batch' = batch \cup {cur.off} /\ HandledEvent /\ UNCHANGED out
      BY <1>7, <2>1
    <2>2. CASE Delivered(batch \cup {cur.off}) /\ HandledEvent
      BY <1>7, <2>2 DEF Delivered
    <2>3. CASE PartlyDelivered(batch \cup {cur.off}) /\ FailBatch
      <3>1. PICK some \in SUBSET (batch \cup {cur.off}) : out' = out \cup some
        BY <2>3 DEF PartlyDelivered
      <3>2. batch' = batch \cup {cur.off}
        BY <2>3 DEF PartlyDelivered
      <3> QED BY <1>3, <1>5, <1>6, <2>3, <3>1, <3>2
    <2> QED BY <1>10, <2>1, <2>2, <2>3 DEF PushEvent
  <1> QED BY <1>8, <1>9, <1>10 DEF ProduceEvent

LEMMA CommitBatchInv == Inv /\ CommitBatch => Inv'
  <1> SUFFICES ASSUME Inv, CommitBatch PROVE Inv'
    OBVIOUS
  <1> USE DEF Inv
  <1>1. /\ pc = "commit"
        /\ UNCHANGED <<logEnd, row, consumerVars, fetcherVars, msgCh, cur, leaked>>
    BY DEF CommitBatch
  <1>2. graceful /\ Running
    BY <1>1 DEF LoopInv, Running, TypeOK
  <1>3. /\ Len(msgCh) \in Nat /\ HeldCount \in Nat /\ next \in Nat /\ b \in Nat
        /\ start \in Nat /\ ChannelLow \in Int /\ BatchLow = ChannelLow - b
    BY <1>1 DEF TypeOK, HeldCount, ChannelLow, BatchLow, InFlight, CurCount
  <1>4. start' = start /\ ChannelLow' = ChannelLow /\ HeldCount' = HeldCount
    BY <1>1 DEF consumerVars, fetcherVars, ChannelLow, HeldCount
  <1>5. start <= BatchLow
    BY <1>2 DEF OffsetInv
  <1>6. CASE Delivered(batch) /\ b' = 0 /\ pc' = "select" /\ UNCHANGED graceful
    <2>1. BatchLow' = ChannelLow
      BY <1>1, <1>3, <1>4, <1>6 DEF BatchLow, ChannelLow, InFlight, CurCount, consumerVars
    <2>2. TypeOK'
      BY <1>1, <1>6 DEF TypeOK, Delivered, consumerVars, fetcherVars
    <2>3. WindowInv'
      BY <1>1, <1>4, <1>6 DEF WindowInv, consumerVars, fetcherVars
    <2>4. LoopInv' /\ OffsetInv'
      BY <1>1, <1>2, <1>3, <1>5, <1>6, <2>1 DEF LoopInv, OffsetInv, Running, consumerVars
    <2>5. \A m \in start .. ChannelLow - 1 : Done(m)'
      BY <1>2, <1>3, <1>6 DEF DeliveredInv, Done, Delivered
    <2>6. DeliveredInv'
      BY <1>3, <1>4, <1>6, <2>1, <2>5, BatchSizeAssumption DEF DeliveredInv, Delivered
    <2> QED BY <2>2, <2>3, <2>4, <2>6
  <1>7. CASE PartlyDelivered(batch) /\ FailBatch
    <2>1. pc' = "close" /\ graceful' = FALSE /\ b' = b /\ Running'
      BY <1>7 DEF FailBatch, Running
    <2>2. BatchLow' = BatchLow
      BY <1>1, <1>3, <1>4, <2>1 DEF BatchLow, InFlight, CurCount, consumerVars
    <2>3. batch' \subseteq Nat /\ out' \subseteq Nat /\ out \subseteq out'
      <3>1. PICK some \in SUBSET batch : out' = out \cup some
        BY <1>7 DEF PartlyDelivered
      <3> QED BY <1>7, <3>1 DEF PartlyDelivered, TypeOK
    <2>4. TypeOK'
      BY <1>1, <2>1, <2>3 DEF TypeOK, consumerVars, fetcherVars
    <2>5. WindowInv'
      BY <1>1, <1>4, <2>1 DEF WindowInv, consumerVars, fetcherVars
    <2>6. LoopInv' /\ OffsetInv'
      BY <1>1, <1>2, <1>5, <2>1, <2>2 DEF LoopInv, OffsetInv, consumerVars
    <2>7. DeliveredInv'
      BY <1>2, <1>4, <2>1, <2>3 DEF DeliveredInv, Done
    <2> QED BY <2>4, <2>5, <2>6, <2>7
  <1> QED BY <1>6, <1>7 DEF CommitBatch

\* The offset that SaveOffset and a graceful close commit is the last one
\* fetched: the row they write points at the next message to fetch.
LEMMA SavedRow ==
    ASSUME Inv, Running, NEW failed \in BOOLEAN, CommitPartitionOffsets(failed)
    PROVE  /\ part' \in Partition /\ part'.offset = part.offset
           /\ row' \in Int \cup {NoRow}
           /\ row' = row \/ row' = next
  <1> USE DEF Inv
  <1>1. /\ part \in Partition /\ row \in Int \cup {NoRow}
        /\ part.offset \in Int /\ next \in Nat
    BY DEF TypeOK, Partition
  <1>2. CommitOffset(part.offset, 0, failed)
    BY DEF CommitPartitionOffsets
  <1>3. /\ part' \in Partition /\ part'.offset = part.offset
        /\ row' \in Int \cup {NoRow}
        /\ row' = row \/ (part.offset # InitialOffset /\ row' = PersistedOffset(part.offset, 0))
    BY <1>1, <1>2, CommitOffsetEffect
  <1>4. part.offset # InitialOffset => PersistedOffset(part.offset, 0) = next
    BY <1>1 DEF OffsetInv, PersistedOffset
  <1> QED BY <1>3, <1>4

LEMMA SaveOffsetInv == Inv /\ SaveOffset => Inv'
  <1> SUFFICES ASSUME Inv, SaveOffset PROVE Inv'
    OBVIOUS
  <1> USE DEF Inv
  <1>1. /\ pc = "select" /\ pc' \in {"select", "close"}
        /\ UNCHANGED <<logEnd, next, start, perr, fetcherVars, msgCh,
                       cur, b, batch, graceful, leaked, out>>
    BY DEF SaveOffset
  <1>2. b = 0 /\ graceful /\ Running /\ Running'
    BY <1>1 DEF LoopInv, Running, TypeOK
  <1>3. /\ part' \in Partition /\ part'.offset = part.offset
        /\ row' \in Int \cup {NoRow}
        /\ row' = row \/ row' = next
    BY <1>2, SavedRow DEF SaveOffset
  <1>4. ChannelLow' = ChannelLow /\ BatchLow' = BatchLow /\ HeldCount' = HeldCount
    BY <1>1 DEF ChannelLow, BatchLow, InFlight, HeldCount, CurCount, fetcherVars
  <1>5. TypeOK'
    BY <1>1, <1>3 DEF TypeOK, fetcherVars
  <1>6. WindowInv' /\ LoopInv'
    BY <1>1, <1>2, <1>4 DEF WindowInv, LoopInv, fetcherVars
  <1>7. OffsetInv'
    BY <1>1, <1>2, <1>3, <1>4 DEF OffsetInv
  <1>8. DeliveredInv'
    BY <1>1, <1>2, <1>4 DEF DeliveredInv, Done
  <1> QED BY <1>5, <1>6, <1>7, <1>8

LEMMA StopStreamingInv == Inv /\ StopStreaming => Inv'
  <1> SUFFICES ASSUME Inv, StopStreaming PROVE Inv'
    OBVIOUS
  <1> USE DEF Inv, StopStreaming
  <1>1. b = 0 /\ graceful /\ Running /\ Running'
    BY DEF LoopInv, Running, TypeOK
  <1>2. ChannelLow' = ChannelLow /\ BatchLow' = BatchLow /\ HeldCount' = HeldCount
    BY DEF ChannelLow, BatchLow, InFlight, HeldCount, CurCount, fetcherVars, consumerVars
  <1>3. TypeOK'
    BY DEF TypeOK, fetcherVars, consumerVars
  <1>4. WindowInv' /\ LoopInv' /\ OffsetInv'
    BY <1>1, <1>2 DEF WindowInv, LoopInv, OffsetInv, fetcherVars, consumerVars
  <1>5. DeliveredInv'
    BY <1>1, <1>2 DEF DeliveredInv, Done, consumerVars
  <1> QED BY <1>3, <1>4, <1>5

\* With the goroutines gone only the types and the row are left to check.
LEMMA StoppedInv ==
    ASSUME Inv, Stopped, row' \in Int \cup {NoRow}, row' # NoRow => row' <= logEnd,
           part' \in Partition, leaked' \in BOOLEAN,
           UNCHANGED <<logEnd, next, start, perr, graceful, out>>
    PROVE  Inv'
  <1> USE DEF Inv, Stopped
  <1>1. msgCh' = <<>> /\ msgCh' \in Seq(Message) /\ Len(msgCh') = 0 /\ ~(Running')
    BY DEF Running
  <1>2. TypeOK'
    BY <1>1, NoMessageType, BatchSizeAssumption DEF TypeOK
  <1>3. WindowInv' /\ LoopInv' /\ OffsetInv' /\ DeliveredInv'
    BY <1>1, BatchSizeAssumption DEF WindowInv, LoopInv, OffsetInv, DeliveredInv, Running
  <1> QED BY <1>2, <1>3

LEMMA CloseConsumerInv == Inv /\ CloseConsumer => Inv'
  <1> SUFFICES ASSUME Inv, CloseConsumer PROVE Inv'
    OBVIOUS
  <1>1. Stopped /\ UNCHANGED <<logEnd, next, start, perr, graceful, out>>
    BY DEF CloseConsumer
  <1>2. Running /\ next <= logEnd /\ (row # NoRow => row <= logEnd)
        /\ perr \in BOOLEAN /\ part \in Partition /\ row \in Int \cup {NoRow}
    <2>1. Running /\ start <= BatchLow /\ next <= logEnd /\ (row # NoRow => row <= logEnd)
      BY DEF CloseConsumer, Inv, OffsetInv, Running
    <2> QED BY <2>1 DEF Inv, TypeOK
  <1>3. CASE graceful
    <2>1. PICK failed, closeFailed \in BOOLEAN :
              /\ CommitPartitionOffsets(failed)
              /\ leaked' = (failed \/ perr \/ closeFailed)
      BY <1>3 DEF CloseConsumer
    <2>2. part' \in Partition /\ row' \in Int \cup {NoRow} /\ (row' = row \/ row' = next)
      BY <1>2, <2>1, SavedRow
    <2>3. leaked' \in BOOLEAN
      BY <1>2, <2>1
    <2>4. row' # NoRow => row' <= logEnd
      BY <1>2, <2>2
    <2> QED BY <1>1, <2>2, <2>3, <2>4, StoppedInv
  <1>4. CASE ~graceful
    <2>1. leaked' \in BOOLEAN /\ UNCHANGED <<part, row>>
      BY <1>4 DEF CloseConsumer
    <2> QED BY <1>1, <1>2, <2>1, StoppedInv
  <1> QED BY <1>3, <1>4

LEMMA CrashInv == Inv /\ Crash => Inv'
  <1> SUFFICES ASSUME Inv, Crash PROVE Inv'
    OBVIOUS
  <1>1. Stopped /\ leaked' = FALSE
        /\ UNCHANGED <<logEnd, row, part, next, start, perr, graceful, out>>
    BY DEF Crash, consumerVars
  <1>2. (row # NoRow => row <= logEnd) /\ part \in Partition /\ row \in Int \cup {NoRow}
    BY DEF Inv, TypeOK, OffsetInv
  <1> QED BY <1>1, <1>2, StoppedInv

\* A consumer opens with an empty window, at an offset the topic has reached.
LEMMA OpenConsumerInv == Inv /\ OpenConsumer => Inv'
  <1> SUFFICES ASSUME Inv, OpenConsumer PROVE Inv'
    OBVIOUS
  <1> USE DEF Inv
  <1>1. /\ pc' = "select" /\ fetcher' = "fetch" /\ graceful' = TRUE /\ perr' = FALSE
        /\ start' = next' /\ part' = FreshPartition /\ next' = StartOffset(row, logEnd)
        /\ UNCHANGED <<logEnd, row, held, msgCh, cur, b, batch, leaked, out>>
    BY DEF OpenConsumer
  <1>2. msgCh = <<>> /\ Len(msgCh) = 0 /\ b = 0 /\ batch = {} /\ Running'
    BY DEF OpenConsumer, LoopInv, Running
  <1>3. next' \in Nat /\ next' <= logEnd
    BY <1>1 DEF StartOffset, TypeOK, OffsetInv
  <1>4. HeldCount' = 0 /\ CurCount' = 0 /\ ChannelLow' = next' /\ BatchLow' = next'
    BY <1>1, <1>2, <1>3 DEF HeldCount, CurCount, ChannelLow, BatchLow, InFlight
  <1>5. part' \in Partition /\ part'.offset = InitialOffset
    BY <1>1 DEF FreshPartition, Partition, InitialOffset
  <1>6. TypeOK'
    BY <1>1, <1>3, <1>5 DEF TypeOK
  <1>7. WindowInv' /\ LoopInv' /\ OffsetInv'
    BY <1>1, <1>2, <1>3, <1>4, <1>5, BatchSizeAssumption
       DEF WindowInv, LoopInv, OffsetInv
  <1>8. DeliveredInv'
    BY <1>1, <1>2, <1>3, <1>4, BatchSizeAssumption DEF DeliveredInv
  <1> QED BY <1>6, <1>7, <1>8

LEMMA AppendToTopicInv == Inv /\ AppendToTopic => Inv'
  <1> SUFFICES ASSUME Inv, AppendToTopic PROVE Inv'
    OBVIOUS
  <1> USE DEF Inv
  <1>1. /\ logEnd' = logEnd + 1 /\ logEnd < MaxLog
        /\ UNCHANGED <<row, consumerVars, fetcherVars, msgCh, mainVars, leaked, out>>
    BY DEF AppendToTopic
  <1>2. ChannelLow' = ChannelLow /\ BatchLow' = BatchLow /\ HeldCount' = HeldCount
    BY <1>1 DEF ChannelLow, BatchLow, InFlight, HeldCount, CurCount, fetcherVars,
                consumerVars, mainVars
  <1>3. TypeOK'
    BY <1>1 DEF TypeOK, fetcherVars, consumerVars, mainVars
  <1>4. WindowInv' /\ LoopInv'
    BY <1>1, <1>2 DEF WindowInv, LoopInv, Running, fetcherVars, consumerVars, mainVars
  <1>5. OffsetInv'
    BY <1>1, <1>2 DEF OffsetInv, TypeOK, Running, consumerVars, mainVars
  <1>6. DeliveredInv'
    BY <1>1, <1>2 DEF DeliveredInv, Done, Running, consumerVars, mainVars
  <1> QED BY <1>3, <1>4, <1>5, <1>6

LEMMA StutterInv == Inv /\ UNCHANGED vars => Inv'
  BY DEF Inv, TypeOK, WindowInv, LoopInv, OffsetInv, DeliveredInv, Done, Running,
         ChannelLow, BatchLow, InFlight, HeldCount, CurCount,
         vars, consumerVars, fetcherVars, mainVars

\* The inductive invariant holds in every reachable state.
THEOREM Invariance == Spec => []Inv
  <1>1. Init => Inv
    BY InitInv
  <1>2. Inv /\ [Next]_vars => Inv'
    BY AppendToTopicInv, FetchNextInv, SendToMainInv, BeginBatchInv, ProduceEventInv,
       TakeMoreInv, CommitBatchInv, SaveOffsetInv, StopStreamingInv, CloseConsumerInv,
       OpenConsumerInv, CrashInv, StutterInv DEF Next
  <1> QED BY <1>1, <1>2, PTL DEF Spec

\* The streamer's state keeps its types (streamer/buffer.go, pipe/kafka.go).
THEOREM TypeCorrect == Spec => []TypeOK
  BY Invariance, PTL DEF Inv

\* For every batch size at most 2*BatchSize+1 events are in flight, what
\* main.go:134 sizes the input pipe by.
THEOREM BoundedInFlight == Spec => []InFlightBound
  BY Invariance, InvImpliesBound, PTL

\* No row ever points past the end of the topic (kafka.go:374-386).
THEOREM RowStaysWithinTopic == Spec => []RowWithinTopic
  <1>1. Inv => RowWithinTopic
    BY DEF Inv, TypeOK, OffsetInv, RowWithinTopic, StartOffset
  <1> QED BY <1>1, Invariance, PTL

-----------------------------------------------------------------------------
(* No message is dropped between the hand-offs. *)

\* Until a batch fails, a fetched message is delivered or in the hands of
\* the batch, the main loop, the channel or the fetcher.
THEOREM NothingIsDropped == Spec => []NothingDropped
  <1>1. Inv => NothingDropped
    <2> SUFFICES ASSUME Inv, Running, graceful
                 PROVE  /\ \A m \in start .. next - InFlight - 1 : Done(m)
                        /\ \A m \in next - InFlight .. next - 1 :
                              \/ Done(m) \/ m \in batch
                              \/ CurCount = 1 /\ m = cur.off
                              \/ \E i \in 1 .. Len(msgCh) : msgCh[i].off = m
                              \/ HeldCount = 1 /\ m = held.off
      BY DEF NothingDropped
    <2> USE DEF Inv
    <2>1. /\ HeldCount \in {0, 1} /\ CurCount \in {0, 1} /\ Len(msgCh) \in Nat
          /\ next \in Nat /\ b \in Nat
          /\ BatchLow + b + CurCount = ChannelLow
          /\ ChannelLow + Len(msgCh) + HeldCount = next
          /\ BatchLow \in Int /\ ChannelLow \in Int
      BY DEF HeldCount, CurCount, TypeOK, BatchLow, ChannelLow, InFlight
    <2>2. \A m \in start .. next - InFlight - 1 : Done(m)
      BY DEF DeliveredInv, BatchLow
    <2>3. ASSUME NEW m \in BatchLow .. next - 1
          PROVE  \/ Done(m) \/ m \in batch
                 \/ CurCount = 1 /\ m = cur.off
                 \/ \E i \in 1 .. Len(msgCh) : msgCh[i].off = m
                 \/ HeldCount = 1 /\ m = held.off
      <3>1. CASE m < BatchLow + b
        BY <2>1, <3>1 DEF DeliveredInv
      <3>2. CASE BatchLow + b <= m /\ m < ChannelLow
        <4>1. CurCount = 1 /\ m = ChannelLow - 1
          BY <2>1, <3>2
        <4> QED BY <4>1 DEF CurCount, WindowInv
      <3>3. CASE ChannelLow <= m /\ m < ChannelLow + Len(msgCh)
        <4>1. m - ChannelLow + 1 \in 1 .. Len(msgCh)
          BY <2>1, <3>3
        <4>2. msgCh[m - ChannelLow + 1].off = m
          BY <2>1, <4>1 DEF WindowInv
        <4> QED BY <4>1, <4>2
      <3>4. CASE ChannelLow + Len(msgCh) <= m
        <4>1. HeldCount = 1 /\ m = next - 1
          BY <2>1, <3>4
        <4> QED BY <4>1 DEF HeldCount, WindowInv
      <3> QED BY <2>1, <3>1, <3>2, <3>3, <3>4
    <2> QED BY <2>2, <2>3 DEF BatchLow
  <1> QED BY <1>1, Invariance, PTL

-----------------------------------------------------------------------------
(* What a write of the row covers. *)

\* What is fetched and not delivered is at most one pipe batch.
LEMMA UnfinishedBound ==
    ASSUME Inv, Running
    PROVE  /\ Unfinished(next) \subseteq next - PipeBatch .. next - 1
           /\ Cardinality(Unfinished(next)) <= PipeBatch
  <1> DEFINE lo == ChannelLow - BatchSize
  <1>1. lo \in Int /\ next \in Int /\ next - lo <= PipeBatch /\ lo <= next - 1
    BY DEF Inv, TypeOK, WindowInv, ChannelLow, HeldCount, PipeBatch
  <1>2. Unfinished(next) \subseteq lo .. next - 1
    <2> SUFFICES ASSUME NEW m \in start .. next - 1, m < lo PROVE Done(m)
      BY <1>1 DEF Unfinished, Inv, TypeOK
    <2> QED BY <1>1 DEF Inv, DeliveredInv, TypeOK
  <1>3. IsFiniteSet(lo .. next - 1) /\ Cardinality(lo .. next - 1) = next - lo
    <2>1. next - 1 \in Int /\ next - 1 - lo + 1 = next - lo
      BY <1>1
    <2> QED BY <1>1, <2>1, FS_Interval
  <1>4. IsFiniteSet(Unfinished(next)) /\ Cardinality(Unfinished(next)) <= Cardinality(lo .. next - 1)
    BY <1>2, <1>3, FS_Subset
  <1>5. Cardinality(Unfinished(next)) \in Nat
    BY <1>4, FS_CardinalityType
  <1> HIDE DEF lo
  <1> QED BY <1>1, <1>2, <1>3, <1>4, <1>5, BatchSizeAssumption DEF PipeBatch

\* A write of the row by FetchNext covers delivered messages only.
LEMMA FetchWrite ==
    ASSUME Inv, FetchNext, row' # row
    PROVE  /\ row' \in Int /\ row' <= next
           /\ \A m \in start .. row' - 1 : Done(m)
  <1>1. part \in Partition /\ row \in Int \cup {NoRow} /\ next \in Int /\ Interval \in Nat
    BY DEF Inv, TypeOK
  <1>2. row' = PersistedOffset(next, Interval)
    BY <1>1, CommitOffsetEffect DEF FetchNext
  <1>3. row' = next - 2 * BatchSize
    BY <1>1, <1>2 DEF PersistedOffset, PipeBatch
  <1>4. Running /\ row' <= ChannelLow - BatchSize /\ ChannelLow \in Int
    BY <1>1, <1>3 DEF FetchNext, Inv, LoopInv, WindowInv, TypeOK, ChannelLow, HeldCount
  <1> QED BY <1>1, <1>3, <1>4 DEF Inv, DeliveredInv, TypeOK

\* Only these three actions write the row, and they leave the topic, the
\* start and the output alone.
LEMMA RowWriters ==
    ASSUME Inv, [Next]_vars, row' # row
    PROVE  FetchNext \/ (row' = next /\ Running /\ UNCHANGED <<logEnd, next, start, out>>)
  <1>1. CASE SaveOffset
    <2>1. Running
      BY <1>1 DEF SaveOffset, Running
    <2> QED BY <1>1, <2>1, SavedRow DEF SaveOffset
  <1>2. CASE CloseConsumer
    <2>1. Running
      BY <1>2 DEF CloseConsumer, Running
    <2> QED BY <1>2, <2>1, SavedRow DEF CloseConsumer
  <1> QED BY <1>1, <1>2 DEF Next, vars, AppendToTopic, SendToMain, BeginBatch, ProduceEvent,
          TakeMore, CommitBatch, StopStreaming, OpenConsumer, Crash

\* For every batch size and interval, a periodic write is safe: a crash
\* right after it resends everything that was not delivered (kafka.go:45).
THEOREM FetchPersistIsSafe == Spec => FetchPersistsSafely
  <1>1. Inv /\ [Next]_vars =>
            [next' = next + 1 /\ row' # row => \A m \in start .. row' - 1 : Done(m)]_vars
    <2> SUFFICES ASSUME Inv, [Next]_vars, next' = next + 1, row' # row
                 PROVE  \A m \in start .. row' - 1 : Done(m)
      OBVIOUS
    <2>1. FetchNext
      BY RowWriters DEF Inv, TypeOK
    <2> QED BY <2>1, FetchWrite
  <1> QED BY <1>1, Invariance, PTL DEF Spec, FetchPersistsSafely

\* No write of the row gives up more than one pipe batch (buffer.go:248).
THEOREM LossPerWriteIsBounded == Spec => BoundedLossPerWrite
  <1>1. Inv /\ [Next]_vars => [row' # row => Cardinality(Unfinished(row')) <= PipeBatch]_vars
    <2> SUFFICES ASSUME Inv, [Next]_vars, row' # row
                 PROVE  Cardinality(Unfinished(row')) <= PipeBatch
      OBVIOUS
    <2>1. CASE FetchNext
      <3>1. Unfinished(row') = {}
        BY <2>1, FetchWrite DEF Unfinished
      <3> QED BY <3>1, FS_EmptySet DEF PipeBatch
    <2>2. CASE row' = next /\ Running
      BY <2>2, UnfinishedBound
    <2> QED BY <2>1, <2>2, RowWriters
  <1> QED BY <1>1, Invariance, PTL DEF Spec, BoundedLossPerWrite

-----------------------------------------------------------------------------
(* How far the row falls behind.  Between two writes of the row less than  *)
(* Interval messages are fetched, or Interval and the fetcher ends: its    *)
(* last message carries the error of the write (LagInv).                   *)

Fetching == fetcher = "fetch" \/ (fetcher = "send" /\ ~held.err)

LagInv ==
    Running =>
        /\ row # NoRow => row <= next
        /\ row # NoRow /\ next = start => next = StartOffset(row, logEnd)
        /\ next # start =>
              /\ part.savedOffset \in Nat /\ part.savedOffset <= next - 1
              /\ next - 1 - part.savedOffset <= Interval
              /\ Fetching => next - 1 - part.savedOffset < Interval
              /\ row # NoRow => StartOffset(row, logEnd) >= part.savedOffset - PipeBatch + 1
              /\ row # NoRow /\ Fetching /\ pc # "close" => row <= part.savedOffset + 1

\* commitOffset, with the reference of the interval it works with.
LEMMA CommitOffsetCases ==
    ASSUME NEW o, NEW interval, NEW failed \in BOOLEAN, NEW saved,
           Noted(part, o) = [offset |-> o, savedOffset |-> saved],
           CommitOffset(o, interval, failed)
    PROVE  \/ /\ ~failed /\ (o = InitialOffset \/ ~(o - saved >= interval))
              /\ part'.savedOffset = saved /\ row' = row
           \/ /\ ~failed /\ o # InitialOffset /\ o - saved >= interval
              /\ part'.savedOffset = o /\ row' = PersistedOffset(o, interval)
           \/ /\ failed /\ o # InitialOffset /\ o - saved >= interval
              /\ part'.savedOffset = saved /\ row' \in {row, PersistedOffset(o, interval)}
  <1> DEFINE tp == Noted(part, o)
  <1>1. tp = [offset |-> o, savedOffset |-> saved]
    OBVIOUS
  <1>2. PersistDue(tp, interval) <=> o - saved >= interval
    BY <1>1 DEF PersistDue
  <1> HIDE DEF tp
  <1>3. \/ (o = InitialOffset \/ ~PersistDue(tp, interval)) /\ ~failed /\ part' = tp /\ row' = row
        \/ /\ o # InitialOffset /\ PersistDue(tp, interval) /\ ~failed
           /\ part' = [tp EXCEPT !.savedOffset = o] /\ row' = PersistedOffset(o, interval)
        \/ /\ o # InitialOffset /\ PersistDue(tp, interval) /\ failed
           /\ part' = tp /\ row' \in {row, PersistedOffset(o, interval)}
    BY DEF CommitOffset, tp
  <1> QED BY <1>1, <1>2, <1>3

\* What the step of the fetcher does to the row, and to the reference.
LEMMA FetchLag ==
    ASSUME Inv, LagInv, FetchNext
    PROVE  /\ LagInv'
           /\ row # NoRow /\ pc # "close"
                 => row' >= row \/ row' >= row - (PipeBatch - Interval)
  <1>1. /\ part \in Partition /\ row \in Int \cup {NoRow} /\ next \in Nat /\ start \in Nat
        /\ start <= next /\ logEnd \in Nat
    BY DEF Inv, TypeOK, OffsetInv, FetchNext, LoopInv, BatchLow, InFlight, HeldCount, CurCount
  <1>2. PICK failed \in BOOLEAN : CommitOffset(next, Interval, failed) /\ held' = [off |-> next, err |-> failed]
    BY DEF FetchNext
  <1>3. /\ next' = next + 1 /\ fetcher' = "send" /\ held'.err = failed /\ fetcher = "fetch"
        /\ UNCHANGED <<start, logEnd, pc>> /\ Running /\ next' # start'
    BY <1>1, <1>2 DEF FetchNext, mainVars, Inv, LoopInv, Running
  <1> DEFINE saved == IF next = start THEN next ELSE part.savedOffset
  <1>4. Noted(part, next) = [offset |-> next, savedOffset |-> saved]
    BY <1>1, <1>3 DEF Noted, Inv, OffsetInv, InitialOffset
  <1>5. /\ saved \in Nat /\ saved <= next /\ next - saved <= Interval
        /\ row # NoRow => StartOffset(row, logEnd) >= saved - PipeBatch + 1
        /\ row # NoRow /\ pc # "close" => row <= saved + 1
    BY <1>1, <1>3 DEF LagInv, Fetching, StartOffset, PipeBatch
  <1> HIDE DEF saved
  <1>6. row # NoRow => row <= next
    BY <1>3 DEF LagInv
  <1>7. CASE next - saved < Interval
    <2>1. part'.savedOffset = saved /\ row' = row /\ ~failed
      <3>1. ~(next - saved >= Interval)
        BY <1>1, <1>5, <1>7
      <3> QED BY <1>2, <1>4, <3>1, CommitOffsetCases
    <2>2. LagInv'
      BY <1>1, <1>3, <1>5, <1>6, <1>7, <2>1 DEF LagInv, Fetching, Running, StartOffset
    <2> QED BY <1>1, <2>1, <2>2
  <1>8. CASE next - saved = Interval
    <2>1. PersistedOffset(next, Interval) = next - PipeBatch + 1
      BY DEF PersistedOffset
    <2>2. /\ \/ part'.savedOffset = next /\ row' = next - PipeBatch + 1
             \/ part'.savedOffset = saved /\ failed /\ row' \in {row, next - PipeBatch + 1}
      <3>1. next - saved >= Interval /\ next # InitialOffset
        BY <1>1, <1>8 DEF InitialOffset
      <3> QED BY <1>2, <1>4, <2>1, <3>1, CommitOffsetCases
    <2>3. PipeBatch \in Nat
      BY DEF PipeBatch
    <2>4. row' # NoRow => StartOffset(row', logEnd') >= part'.savedOffset - PipeBatch + 1
      BY <1>1, <1>3, <1>5, <2>2, <2>3 DEF StartOffset
    <2>5. LagInv'
      BY <1>1, <1>3, <1>5, <1>6, <1>8, <2>2, <2>3, <2>4 DEF LagInv, Fetching, Running, PipeBatch
    <2>6. row # NoRow /\ pc # "close" => row' >= row \/ row' >= row - (PipeBatch - Interval)
      BY <1>1, <1>5, <1>8, <2>2, <2>3
    <2> QED BY <2>5, <2>6
  <1> QED BY <1>1, <1>5, <1>7, <1>8

\* A save writes the next offset, if it writes.
LEMMA SaveLag ==
    ASSUME Inv, LagInv, SaveOffset
    PROVE  /\ LagInv'
           /\ row # NoRow => row' >= row
  <1>1. /\ part \in Partition /\ row \in Int \cup {NoRow} /\ next \in Nat /\ start \in Nat
        /\ logEnd \in Nat
    BY DEF Inv, TypeOK
  <1>2. PICK failed \in BOOLEAN : /\ CommitOffset(part.offset, 0, failed)
                                  /\ (failed => pc' = "close")
    BY DEF SaveOffset, CommitPartitionOffsets
  <1>3. /\ UNCHANGED <<logEnd, next, start, fetcher, held>> /\ pc = "select" /\ Running
        /\ Fetching' = Fetching
    BY DEF SaveOffset, fetcherVars, Fetching, Running
  <1>4. CASE next = start
    <2>1. part.offset = InitialOffset
      BY <1>3, <1>4 DEF Inv, OffsetInv
    <2>2. row' = row
      <3>1. Noted(part, InitialOffset) = [offset |-> InitialOffset, savedOffset |-> InitialOffset]
        BY <2>1 DEF Noted
      <3>2. CommitOffset(InitialOffset, 0, failed)
        BY <1>2, <2>1
      <3> QED BY <3>1, <3>2, CommitOffsetCases
    <2>3. LagInv'
      BY <1>1, <1>3, <1>4, <2>2 DEF LagInv
    <2> QED BY <1>1, <2>2, <2>3
  <1>5. CASE next # start
    <2>1. part.offset = next - 1 /\ part.offset # InitialOffset /\ part.savedOffset <= next - 1
      BY <1>1, <1>3, <1>5 DEF Inv, OffsetInv, LagInv, InitialOffset, BatchLow, InFlight, HeldCount, CurCount, TypeOK
    <2>2. part.savedOffset \in Nat
      BY <1>3, <1>5 DEF LagInv
    <2>3. Noted(part, part.offset) = [offset |-> next - 1, savedOffset |-> part.savedOffset]
      BY <2>1 DEF Noted
    <2>4. PersistedOffset(part.offset, 0) = next
      BY <1>1, <2>1 DEF PersistedOffset
    <2>5. \/ ~failed /\ part'.savedOffset = next - 1 /\ row' = next
          \/ failed /\ part'.savedOffset = part.savedOffset /\ row' \in {row, next}
      <3>1. part.offset - part.savedOffset >= 0
        BY <1>1, <2>1, <2>2
      <3>2. Noted(part, part.offset) = [offset |-> part.offset, savedOffset |-> part.savedOffset]
        BY <2>1, <2>3
      <3>3. \/ ~failed /\ part'.savedOffset = part.offset /\ row' = PersistedOffset(part.offset, 0)
            \/ /\ failed /\ part'.savedOffset = part.savedOffset
               /\ row' \in {row, PersistedOffset(part.offset, 0)}
        BY <1>2, <2>1, <3>1, <3>2, CommitOffsetCases
      <3> QED BY <2>1, <2>4, <3>3
    <2>6. row # NoRow => row <= next
      BY <1>3 DEF LagInv
    <2>7. PipeBatch \in Nat /\ PipeBatch >= 1
      BY DEF PipeBatch
    <2>8. row' # NoRow => StartOffset(row', logEnd') >= part'.savedOffset - PipeBatch + 1
      BY <1>1, <1>3, <1>5, <2>1, <2>2, <2>5, <2>7 DEF LagInv, StartOffset
    <2>9. LagInv'
      <3>1. part'.savedOffset \in Nat /\ part'.savedOffset <= next - 1
            /\ part'.savedOffset >= part.savedOffset
        BY <1>1, <1>5, <2>1, <2>2, <2>5
      <3>2. /\ next - 1 - part'.savedOffset <= Interval
            /\ Fetching => next - 1 - part'.savedOffset < Interval
        BY <1>1, <1>3, <1>5, <2>2, <3>1 DEF LagInv
      <3>3. row' # NoRow => row' <= next
        BY <1>1, <2>5, <2>6
      <3>4. row' # NoRow /\ pc' # "close" => row' = next /\ part'.savedOffset = next - 1
        BY <1>2, <2>5
      <3> QED BY <1>1, <1>3, <1>5, <2>8, <3>1, <3>2, <3>3, <3>4 DEF LagInv
    <2> QED BY <1>1, <2>5, <2>6, <2>9
  <1> QED BY <1>4, <1>5

LEMMA LagStep == Inv /\ LagInv /\ [Next]_vars => LagInv'
  <1> SUFFICES ASSUME Inv, LagInv, [Next]_vars PROVE LagInv'
    OBVIOUS
  <1>1. CASE FetchNext
    BY <1>1, FetchLag
  <1>2. CASE SaveOffset
    BY <1>2, SaveLag
  <1>3. CASE OpenConsumer
    BY <1>3 DEF OpenConsumer, LagInv, StartOffset, Inv, TypeOK
  <1>4. CASE CloseConsumer \/ Crash
    BY <1>4 DEF CloseConsumer, Crash, Stopped, LagInv, Running
  <1>5. CASE AppendToTopic
    BY <1>5 DEF AppendToTopic, consumerVars, fetcherVars, mainVars, LagInv, Running, Fetching, StartOffset
  <1>6. CASE SendToMain
    BY <1>6 DEF SendToMain, consumerVars, mainVars, LagInv, Running, Fetching, StartOffset
  <1>7. CASE BeginBatch \/ ProduceEvent \/ TakeMore \/ CommitBatch \/ StopStreaming \/ UNCHANGED vars
    <2>1. /\ UNCHANGED <<logEnd, row, part, next, start, fetcher, held>>
          /\ Running' => Running /\ (pc' # "close" => pc # "close")
      BY <1>7 DEF BeginBatch, ProduceEvent, TakeMore, CommitBatch, StopStreaming, vars,
                  consumerVars, fetcherVars, mainVars, Running
    <2> QED BY <2>1 DEF LagInv, Fetching
  <1> QED BY <1>1, <1>2, <1>3, <1>4, <1>5, <1>6, <1>7 DEF Next

LEMMA LagAlways == Spec => []LagInv
  <1>1. Init => LagInv
    BY DEF Init, LagInv, Running
  <1> QED BY <1>1, LagStep, Invariance, PTL DEF Spec

\* For every batch size and interval, a crash at any moment resends at most
\* Interval messages and one pipe batch (kafka.go:42-48).
THEOREM ResendIsBounded == Spec => []ResendBound
  <1>1. Inv /\ LagInv => ResendBound
    <2> SUFFICES ASSUME Inv, LagInv, Running, row # NoRow
                 PROVE  next - StartOffset(row, logEnd) <= Interval + PipeBatch
      BY DEF ResendBound
    <2>1. next \in Nat /\ row \in Int /\ PipeBatch \in Nat /\ StartOffset(row, logEnd) \in Int
      BY DEF Inv, TypeOK, PipeBatch, StartOffset
    <2> QED BY <2>1 DEF LagInv
  <1> QED BY <1>1, Invariance, LagAlways, PTL

\* While the streamer streams, a periodic write sets the row back by no more than
\* the interval falls short of a pipe batch (kafka.go:374-386).
THEOREM RowStaysAhead == Spec => RowNeverRegresses
  <1>1. Inv /\ LagInv /\ [Next]_vars =>
            [row # NoRow /\ pc # "close"
                => row' >= row \/ row' >= row - (PipeBatch - Interval)]_vars
    <2> SUFFICES ASSUME Inv, LagInv, [Next]_vars, row # NoRow, pc # "close"
                 PROVE  row' >= row \/ row' >= row - (PipeBatch - Interval)
      OBVIOUS
    <2>1. row \in Int
      BY DEF Inv, TypeOK
    <2>2. CASE row' = row
      BY <2>1, <2>2
    <2>3. CASE FetchNext
      BY <2>3, FetchLag
    <2>4. CASE SaveOffset
      BY <2>4, SaveLag
    <2>5. ~CloseConsumer
      BY DEF CloseConsumer
    <2> QED BY <2>2, <2>3, <2>4, <2>5 DEF Next, vars, AppendToTopic, SendToMain, BeginBatch,
            ProduceEvent, TakeMore, CommitBatch, StopStreaming, OpenConsumer, Crash
  <1> QED BY <1>1, Invariance, LagAlways, PTL DEF Spec, RowNeverRegresses

-----------------------------------------------------------------------------
(* TableStream implements Delivery. *)

\* Whatever a step of the main loop sends was fetched by this consumer.
LEMMA SendsWhatItFetched ==
    ASSUME Inv, ProduceEvent \/ CommitBatch
    PROVE  \E some \in SUBSET (start .. next - 1) : out' = out \cup some
  <1> USE DEF Inv
  <1>1. /\ Running /\ graceful /\ pc \in {"produce", "commit"}
    BY DEF ProduceEvent, CommitBatch, Running, LoopInv, TypeOK
  <1>2. /\ start \in Nat /\ next \in Nat /\ b \in Nat /\ Len(msgCh) \in Nat /\ HeldCount \in Nat
        /\ start <= BatchLow /\ BatchLow + b + CurCount = ChannelLow /\ ChannelLow <= next
        /\ CurCount \in {0, 1} /\ BatchLow \in Int /\ ChannelLow \in Int
    BY <1>1 DEF TypeOK, OffsetInv, BatchLow, ChannelLow, InFlight, HeldCount, CurCount
  <1>3. batch \subseteq start .. next - 1
    BY <1>1, <1>2 DEF DeliveredInv
  <1>4. CASE CommitBatch
    BY <1>3, <1>4 DEF CommitBatch, Delivered, PartlyDelivered
  <1>5. CASE ProduceEvent
    <2>1. pc = "produce" /\ cur.off \in start .. next - 1
      <3>1. pc = "produce" /\ cur.off = ChannelLow - 1 /\ CurCount = 1
        BY <1>5 DEF ProduceEvent, WindowInv, CurCount
      <3> QED BY <1>2, <3>1
    <2>2. CASE UNCHANGED out
      <3>1. {} \in SUBSET (start .. next - 1) /\ out' = out \cup {}
        BY <2>2
      <3> QED BY <3>1
    <2>3. CASE PushEvent
      <3>1. batch \cup {cur.off} \subseteq start .. next - 1
        BY <1>3, <2>1
      <3>2. CASE UNCHANGED out
        BY <2>2, <3>2
      <3>3. CASE Delivered(batch \cup {cur.off})
        BY <3>1, <3>3 DEF Delivered
      <3>4. CASE PartlyDelivered(batch \cup {cur.off})
        BY <3>1, <3>4 DEF PartlyDelivered
      <3> QED BY <2>3, <3>2, <3>3, <3>4 DEF PushEvent
    <2> QED BY <1>5, <2>2, <2>3 DEF ProduceEvent, RejectEvent, SkipEvent
  <1> QED BY <1>4, <1>5

\* The detailed streamer implements the abstract one: every step is a step
\* of Delivery or changes nothing Delivery sees.
THEOREM StreamImplementsDelivery == Spec => Implements
  <1>1. Init => Abstract!Init
    BY DEF Init, Abstract!Init
  <1>2. Inv /\ [Next]_vars => [Abstract!Next]_(Abstract!vars)
    <2> SUFFICES ASSUME Inv, [Next]_vars PROVE [Abstract!Next]_(Abstract!vars)
      OBVIOUS
    <2> USE DEF Abstract!vars, consumerVars
    <2>1. CASE AppendToTopic
      BY <2>1 DEF AppendToTopic, Abstract!Next, Abstract!Produce
    <2>2. CASE FetchNext
      <3>1. /\ next < logEnd /\ next' = next + 1 /\ UNCHANGED <<logEnd, start, out>>
        BY <2>2 DEF FetchNext
      <3>2. CASE row' = row
        BY <3>1, <3>2 DEF Abstract!Next, Abstract!Take
      <3>3. CASE row' # row
        <4>1. row' \in Int /\ row' <= next /\ \A m \in start .. row' - 1 : Done(m)
          BY <2>2, <3>3, FetchWrite
        <4>2. Abstract!Owed(row') = {}
          BY <4>1 DEF Abstract!Owed, Done
        <4> QED BY <3>1, <4>1, <4>2 DEF Abstract!Next, Abstract!Take
      <3> QED BY <3>2, <3>3
    <2>3. CASE SendToMain \/ BeginBatch \/ TakeMore \/ StopStreaming \/ Crash \/ UNCHANGED vars
      BY <2>3 DEF SendToMain, BeginBatch, TakeMore, StopStreaming, Crash, vars
    <2>4. CASE ProduceEvent \/ CommitBatch
      <3>1. UNCHANGED <<logEnd, start, next, row>>
        BY <2>4 DEF ProduceEvent, CommitBatch
      <3> QED BY <2>4, <3>1, SendsWhatItFetched DEF Abstract!Next, Abstract!Deliver
    <2>5. CASE SaveOffset \/ CloseConsumer
      <3>1. UNCHANGED <<logEnd, next, start, out>>
        BY <2>5 DEF SaveOffset, CloseConsumer
      <3>2. CASE row' = row
        BY <3>1, <3>2
      <3>3. CASE row' # row
        <4>1. ~FetchNext
          BY <2>5 DEF SaveOffset, CloseConsumer, FetchNext, Inv, TypeOK
        <4>2. row' = next /\ Running
          BY <3>3, <4>1, RowWriters
        <4>3. Abstract!Owed(next) = Unfinished(next)
          BY DEF Abstract!Owed, Unfinished, Done
        <4> QED BY <3>1, <4>2, <4>3, UnfinishedBound DEF Abstract!Next, Abstract!Save
      <3> QED BY <3>2, <3>3
    <2>6. CASE OpenConsumer
      BY <2>6 DEF OpenConsumer, StartOffset, Abstract!Next, Abstract!Reopen
    <2> QED BY <2>1, <2>2, <2>3, <2>4, <2>5, <2>6 DEF Next
  <1> QED BY <1>1, <1>2, Invariance, PTL DEF Spec, Implements, Abstract!Spec
=============================================================================
