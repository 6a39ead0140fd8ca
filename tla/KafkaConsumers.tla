------------------------------ MODULE KafkaConsumers ------------------------------
(***************************************************************************)
(* pipe/kafka.go, consumer side: several consumers of one topic in a       *)
(* process.  Every partition has a goroutine that takes messages from the  *)
(* broker and hands them to the consumer the partition belongs to; when a  *)
(* consumer joins or leaves, the goroutines are stopped, the partitions    *)
(* distributed anew, and the goroutines started again.  A message a        *)
(* goroutine could not hand over stays in nextMsg.                         *)
(*                                                                         *)
(* NewConsumer and closeConsumer hold the lock of the pipe; FetchNext      *)
(* receives without it, and takes it to note the offset.  A consumer whose *)
(* close fails is closed for its streamer and stays in the slice: nobody   *)
(* closes it again, and the goroutines hand to it what nobody fetches.     *)
(* TableStream has a single consumer and what its caller does with the     *)
(* messages.                                                               *)
(***************************************************************************)
EXTENDS Integers, Sequences, FiniteSets, SequencesExt

CONSTANTS
    Consumers,   \* streamers that may consume the topic
    NumParts,    \* partitions of the topic
    MaxParts,    \* bound on partitions, for the distribution on its own
    MaxMsgs,     \* bound on the messages of a partition
    MaxOpens,    \* bound on consumers opened
    None

ASSUME NumPartsAssumption == NumParts \in Nat \ {0}
ASSUME MaxPartsAssumption == MaxParts \in Nat
ASSUME NoneAssumption == None \notin Consumers

VARIABLES
    end,         \* messages of each partition
    opened,      \* the topic is in KafkaPipe.consumers
    consumers,   \* topicConsumer.consumers, a slice
    part,        \* topicConsumer.partitions
    gone,        \* consumers of the slice whose close failed
    shut,        \* a partition's consumer was closed, and the topic was not
    got,         \* per consumer: the message FetchNext received and has not noted
    rows,        \* kafka_offsets: the offset of each partition, or NoOffset
    session,     \* how often the topic was opened (history)
    start,       \* where each partition's consumer began (history)
    fetched,     \* what FetchNext returned of this session, per partition (history)
    handed,      \* messages ever handed to a consumer, per partition (history)
    opens

vars == <<end, opened, consumers, part, gone, shut, got, rows,
          session, start, fetched, handed, opens>>

Partitions == 0 .. NumParts - 1

\* InitialOffset, which also says that nothing was fetched from a partition.
NoOffset == -1
NoMessage == -1
Nothing == [part |-> None, msg |-> NoMessage, session |-> 0]

FreshPartition(at) == [child |-> None, read |-> at, nextMsg |-> NoMessage, offset |-> NoOffset]

Active == Range(consumers)

-----------------------------------------------------------------------------
(* redistributeConsumers. *)

\* Wrong: every consumer gets the share of the first.
DistributionFixed(n, k) ==
    [i \in 0 .. n - 1 |-> i \div (n \div k)]

\* The loop over n partitions and k consumers: the consumer of every partition.
\* A consumer is full when the number of partitions left is a multiple of its
\* share; the share of the next is computed from what is left.
Distribution(n, k) ==
    LET state[i \in 0 .. n] ==
            IF i = 0 THEN [j |-> 0, share |-> n \div k]
            ELSE LET p    == state[i - 1]
                     full == (n - i) % p.share = 0
                 IN  IF ~full THEN p
                     ELSE [j     |-> p.j + 1,
                           share |-> IF p.j + 1 = k THEN p.share
                                     ELSE (n - i) \div (k - (p.j + 1))]
    IN  [i \in 0 .. n - 1 |-> state[i].j]

\* Wrong: the message a stopped goroutine holds is dropped.
RedistributedAnew(ps, cs) ==
    LET to == Distribution(NumParts, Len(cs))
    IN  [p \in Partitions |-> [ps[p] EXCEPT !.child = cs[to[p] + 1], !.nextMsg = NoMessage]]

\* The partitions, distributed over the consumers cs; each keeps its nextMsg.
Redistributed(ps, cs) ==
    LET to == Distribution(NumParts, Len(cs))
    IN  [p \in Partitions |-> [ps[p] EXCEPT !.child = cs[to[p] + 1]]]

-----------------------------------------------------------------------------
(* The broker and the goroutines of the partitions. *)

Produce(p) ==
    /\ end[p] < MaxMsgs
    /\ end' = [end EXCEPT ![p] = @ + 1]
    /\ UNCHANGED <<opened, consumers, part, gone, shut, got, rows, session, start, fetched, handed, opens>>

\* The goroutine takes a message from the broker ...
Receive(p) ==
    /\ opened /\ ~shut /\ part[p].nextMsg = NoMessage
    /\ part[p].read < end[p]
    /\ part' = [part EXCEPT ![p].nextMsg = part[p].read, ![p].read = @ + 1]
    /\ UNCHANGED <<end, opened, consumers, gone, shut, got, rows, session, start, fetched, handed, opens>>

\* ... and hands it to a consumer that is in FetchNext.  One that was closed may
\* still take it: select prefers none of the channel and the canceled context.
Hand(p) ==
    LET c == part[p].child
    IN  /\ opened /\ ~shut /\ part[p].nextMsg # NoMessage
        /\ c \in Active /\ got[c] = Nothing
        /\ got' = [got EXCEPT ![c] = [part |-> p, msg |-> part[p].nextMsg, session |-> session]]
        /\ part' = [part EXCEPT ![p].nextMsg = NoMessage]
        /\ handed' = [handed EXCEPT ![p] = IF part[p].read > @ THEN part[p].read ELSE @]
        /\ UNCHANGED <<end, opened, consumers, gone, shut, rows, session, start, fetched, opens>>

\* FetchNext gets the lock, notes the offset and returns.  A consumer that was
\* closed meanwhile still returns what it received, and notes its offset in the
\* topic even if that was opened again.
FetchNext(c) ==
    LET p == got[c].part
        o == got[c].msg
    IN  /\ got[c] # Nothing
        /\ part' = IF opened THEN [part EXCEPT ![p].offset = o] ELSE part
        /\ fetched' = IF got[c].session = session
                      THEN [fetched EXCEPT ![p] = @ \cup {o}] ELSE fetched
        /\ got' = [got EXCEPT ![c] = Nothing]
        /\ UNCHANGED <<end, opened, consumers, gone, shut, rows, session, start, handed, opens>>

-----------------------------------------------------------------------------
(* Consumers come and go. *)

\* The first consumer opens the topic, every partition where its row says, or
\* at the newest message.
InitTopicConsumer ==
    LET at == [p \in Partitions |-> IF rows[p] = NoOffset THEN end[p] ELSE rows[p]]
    IN  IF opened
        THEN part' = Redistributed(part, consumers') /\ UNCHANGED <<session, start, fetched>>
        ELSE /\ session' = session + 1
             /\ start' = at
             /\ fetched' = [p \in Partitions |-> {}]
             /\ part' = Redistributed([p \in Partitions |-> FreshPartition(at[p])], consumers')

\* A consumer that returned its last message may be opened again.  If the topic
\* is shut, a goroutine takes nil from the closed partition and the process
\* panics: that is Crash.
NewConsumer(c) ==
    /\ c \notin Active /\ got[c] = Nothing /\ ~shut
    /\ Len(consumers) < NumParts
    /\ opens < MaxOpens
    /\ opens' = opens + 1
    /\ opened' = TRUE
    /\ consumers' = Append(consumers, c)
    /\ InitTopicConsumer
    /\ UNCHANGED <<end, gone, shut, got, rows, handed>>

\* Wrong: one message more than was fetched.
CommittedNext(c, k) ==
    [p \in Partitions |-> IF p < k /\ part[p].child = c /\ part[p].offset # NoOffset
                          THEN part[p].offset + 2 ELSE rows[p]]

\* commitConsumerPartitionOffsets, the first k partitions: whoever fetched the
\* last message, the owner of a partition saves its offset.
Committed(c, k) ==
    [p \in Partitions |-> IF p < k /\ part[p].child = c /\ part[p].offset # NoOffset
                          THEN part[p].offset + 1 ELSE rows[p]]

\* What it may have done when it returns: all, or less if a query failed.  It
\* also returns an error after all of them if the last FetchNext met one.
CommitsSome(c) == \E k \in 0 .. NumParts : rows' = Committed(c, k)

SaveOffset(c) ==
    /\ c \in Active \ gone
    /\ CommitsSome(c)
    /\ UNCHANGED <<end, opened, consumers, part, gone, shut, got, session, start, fetched, handed, opens>>

\* The slice without c: the last element takes its place.
Removed(cs, c) ==
    LET i == CHOOSE k \in DOMAIN cs : cs[k] = c
    IN  [k \in 1 .. Len(cs) - 1 |-> IF k = i THEN cs[Len(cs)] ELSE cs[k]]

\* The commit of closeConsumer, if it is to be graceful.
CommitOnClose(c, graceful) == rows' = IF graceful THEN Committed(c, NumParts) ELSE rows

\* closeConsumer: the others get the partitions; the last one closes the topic.
Leave(c, graceful) ==
    /\ CommitOnClose(c, graceful)
    /\ consumers' = Removed(consumers, c)
    /\ opened' = (Len(consumers) > 1)
    /\ part' = IF opened' THEN Redistributed(part, consumers') ELSE part
    /\ UNCHANGED <<gone, shut>>

\* closeConsumer returns an error: of the commit, or when the goroutines are
\* stopped and a partition's consumer does not close.  The slice stays.
StayBehind(c, graceful) ==
    /\ \/ graceful /\ CommitsSome(c) /\ UNCHANGED shut
       \/ Len(consumers) = 1 /\ CommitOnClose(c, graceful) /\ shut' = TRUE
    /\ gone' = gone \cup {c}
    /\ UNCHANGED <<opened, consumers, part>>

CloseConsumer(c, graceful) ==
    /\ c \in Active \ gone
    /\ Leave(c, graceful) \/ StayBehind(c, graceful)
    /\ UNCHANGED <<end, got, session, start, fetched, handed, opens>>

Close(c) == CloseConsumer(c, TRUE)
CloseOnFailure(c) == CloseConsumer(c, FALSE)

\* The process ends; the rows and the topic stay.
Crash ==
    /\ opened
    /\ opened' = FALSE /\ consumers' = <<>>
    /\ part' = [p \in Partitions |-> FreshPartition(0)]
    /\ gone' = {} /\ shut' = FALSE
    /\ got' = [c \in Consumers |-> Nothing]
    /\ UNCHANGED <<end, rows, session, start, fetched, handed, opens>>

-----------------------------------------------------------------------------

Init ==
    /\ end = [p \in Partitions |-> 0]
    /\ opened = FALSE /\ consumers = <<>>
    /\ part = [p \in Partitions |-> FreshPartition(0)]
    /\ gone = {} /\ shut = FALSE
    /\ got = [c \in Consumers |-> Nothing]
    /\ rows = [p \in Partitions |-> NoOffset]
    /\ session = 0 /\ start = [p \in Partitions |-> 0]
    /\ fetched = [p \in Partitions |-> {}]
    /\ handed = [p \in Partitions |-> 0]
    /\ opens = 0

Next ==
    \/ \E p \in Partitions : Produce(p) \/ Receive(p) \/ Hand(p)
    \/ \E c \in Consumers :
          \/ FetchNext(c) \/ NewConsumer(c) \/ SaveOffset(c)
          \/ Close(c) \/ CloseOnFailure(c)
    \/ Crash

Spec == Init /\ [][Next]_vars

\* The goroutines run, and a consumer that is not closed calls FetchNext again
\* and again; of one whose close failed nothing is assumed.
FairSpec ==
    /\ Spec
    /\ \A p \in Partitions : /\ WF_vars(Receive(p))
                            /\ SF_vars(part[p].child \notin gone /\ Hand(p))
    /\ \A c \in Consumers : WF_vars(FetchNext(c))

-----------------------------------------------------------------------------
(* Properties. *)

\* The offsets of p that calls of FetchNext of this session have received.
InHand(p) ==
    {got[c].msg : c \in {c \in Consumers : got[c].part = p /\ got[c].session = session}}

\* However the partitions move between consumers, every message taken from the
\* broker was returned by FetchNext, or is in the hands of one consumer, or is
\* its partition's nextMsg, and no two of these (kafka.go:208-284).
NothingSkipped ==
    opened => \A p \in Partitions :
        LET waiting == {part[p].nextMsg} \ {NoMessage}
        IN  /\ start[p] .. part[p].read - 1 \subseteq fetched[p] \cup InHand(p) \cup waiting
            /\ waiting \cap (fetched[p] \cup InHand(p)) = {}

\* The index of redistributeConsumers stays within the slice and passes no
\* consumer by, for any number of partitions and of consumers that the check in
\* NewConsumer admits.
SharesOut ==
    \A n \in 1 .. MaxParts : \A k \in 1 .. n :
        {Distribution(n, k)[i] : i \in 0 .. n - 1} = 0 .. k - 1

\* However consumers come and go, while the topic is open every partition is
\* read for a consumer of the slice, and every consumer of the slice is given a
\* partition, whatever their numbers (kafka.go:246-284, 337).  One whose close
\* failed is among them, with the partitions it keeps from the others.
EveryConsumerWorks ==
    opened => SharesOut /\ {part[p].child : p \in Partitions} = Active

\* No consumer saves an offset beyond the messages that some consumer received.
\* It does cover what another one received and has not returned, and what one of
\* an earlier session noted late (kafka.go:358-406, 556-570).
SavesOnlyHanded == \A p \in Partitions : rows[p] <= handed[p]

\* While the consumers of a topic stay, all its messages are fetched, but for
\* the partitions that were given to a consumer whose close failed
\* (kafka.go:206-284, 416-449).
AllFetched ==
    []<>(~opened \/ \A p \in Partitions :
            part[p].child \in gone \/ start[p] .. end[p] - 1 \subseteq fetched[p])

=============================================================================
