-------------------------- MODULE KafkaConsumersProofs --------------------------
(***************************************************************************)
(* For any number of partitions, consumers and messages, and however the   *)
(* loop of redistributeConsumers shares the partitions out: no message is  *)
(* skipped while the partitions move, and no offset is saved beyond what   *)
(* was handed to a consumer.  The invariant adds that a waiting message is *)
(* the last one taken from the broker, that those fetched or in hand are   *)
(* before it, and that whatever is noted or in hand has been handed over.  *)
(*                                                                         *)
(* And of that loop: it comes to an end, and at every partition what is    *)
(* left is enough for the consumers after the current one (TurnOk), so     *)
(* that the last partition goes to the last consumer.  With it, every      *)
(* consumer has a partition and every partition a consumer (WorkInv).      *)
(***************************************************************************)
EXTENDS KafkaConsumers, WellFoundedInduction, TLAPS

\* A partition's record; its consumer is whatever the distribution gives.
IsPartition(s) ==
    s \in [child : {s.child}, read : Nat, nextMsg : Nat \cup {NoMessage}, offset : Nat \cup {NoOffset}]

Received == [part : Partitions, msg : Nat, session : Nat]

TypeInv ==
    /\ end \in [Partitions -> Nat]
    /\ opened \in BOOLEAN /\ consumers \in Seq(Consumers) /\ (Len(consumers) > 0 => opened)
    /\ part = [p \in Partitions |-> part[p]] /\ \A p \in Partitions : IsPartition(part[p])
    /\ got \in [Consumers -> Received \cup {Nothing}]
    /\ rows \in [Partitions -> Nat \cup {NoOffset}]
    /\ session \in Nat /\ start \in [Partitions -> Nat]
    /\ fetched \in [Partitions -> SUBSET Nat]
    /\ handed \in [Partitions -> Nat]

\* What waits, is noted, in hand or saved.
HandedInv ==
    /\ \A p \in Partitions :
          /\ part[p].nextMsg # NoMessage => part[p].nextMsg + 1 = part[p].read
          /\ part[p].offset + 1 <= handed[p]
          /\ rows[p] <= handed[p]
    /\ \A c \in Consumers : got[c] # Nothing =>
          got[c].msg + 1 <= handed[got[c].part] /\ got[c].session <= session

\* Of this session, in p: o was fetched or is in a consumer's hands.
Has(p, o) ==
    \/ o \in fetched[p]
    \/ \E c \in Consumers : got[c] # Nothing /\ got[c].part = p /\ got[c].session = session /\ got[c].msg = o

SessionInv ==
    opened =>
        /\ session > 0
        /\ \A p \in Partitions :
              /\ start[p] <= part[p].read
              /\ \A o \in Nat : start[p] <= o /\ o < part[p].read => Has(p, o) \/ o = part[p].nextMsg
              /\ \A o \in Nat : Has(p, o) => o < part[p].read /\ o # part[p].nextMsg

Inv == TypeInv /\ HandedInv /\ SessionInv

-----------------------------------------------------------------------------
LEMMA InitInv == Init => Inv
<1> SUFFICES ASSUME Init PROVE Inv
  OBVIOUS
<1>1. \A p \in Partitions : part[p] = FreshPartition(0)
  BY DEF Init
<1>2. IsPartition(FreshPartition(0)) /\ FreshPartition(0).nextMsg = NoMessage /\ FreshPartition(0).offset = NoOffset
  BY DEF FreshPartition, IsPartition, NoMessage, NoOffset
<1>3. TypeInv
  <2>1. part = [p \in Partitions |-> part[p]]
    BY DEF Init
  <2>2. consumers \in Seq(Consumers) /\ rows \in [Partitions -> Nat \cup {NoOffset}]
    BY DEF Init
  <2>3. ~(Len(consumers) > 0)
    BY DEF Init
  <2> QED
    BY <1>1, <1>2, <2>1, <2>2, <2>3 DEF Init, TypeInv
<1>4. HandedInv
  BY <1>1, <1>2 DEF Init, HandedInv, NoOffset
<1>5. SessionInv
  BY DEF Init, SessionInv
<1> QED
  BY <1>3, <1>4, <1>5 DEF Inv

\* A partition keeps all but its consumer.
LEMMA MovedPartition ==
    ASSUME NEW s, IsPartition(s), NEW c
    PROVE  LET t == [s EXCEPT !.child = c]
           IN  IsPartition(t) /\ t.read = s.read /\ t.nextMsg = s.nextMsg /\ t.offset = s.offset
  BY DEF IsPartition

LEMMA MovedPartitions ==
    ASSUME NEW ps, \A p \in Partitions : IsPartition(ps[p]), NEW cs
    PROVE  /\ Redistributed(ps, cs) = [p \in Partitions |-> Redistributed(ps, cs)[p]]
           /\ \A p \in Partitions : LET t == Redistributed(ps, cs)[p]
                 IN  IsPartition(t) /\ t.read = ps[p].read /\ t.nextMsg = ps[p].nextMsg /\ t.offset = ps[p].offset
<1> DEFINE to == Distribution(NumParts, Len(cs))
           new == [p \in Partitions |-> [ps[p] EXCEPT !.child = cs[to[p] + 1]]]
<1>1. Redistributed(ps, cs) = new
  BY DEF Redistributed
<1>2. \A p \in Partitions : new[p] = [ps[p] EXCEPT !.child = cs[to[p] + 1]]
  OBVIOUS
<1>3. new = [p \in Partitions |-> new[p]]
  OBVIOUS
<1> HIDE DEF new, to
<1>4. \A p \in Partitions : IsPartition(new[p]) /\ new[p].read = ps[p].read /\ new[p].nextMsg = ps[p].nextMsg
                            /\ new[p].offset = ps[p].offset
  <2> TAKE p \in Partitions
  <2> DEFINE c == cs[to[p] + 1]
  <2>1. IsPartition(ps[p]) /\ new[p] = [ps[p] EXCEPT !.child = c]
    BY <1>2
  <2> HIDE DEF c
  <2>2. LET t == [ps[p] EXCEPT !.child = c]
        IN  IsPartition(t) /\ t.read = ps[p].read /\ t.nextMsg = ps[p].nextMsg /\ t.offset = ps[p].offset
    BY <2>1, MovedPartition
  <2> QED
    BY <2>1, <2>2
<1> QED
  BY <1>1, <1>3, <1>4

\* The fields of a partition's record.
LEMMA TakenNext ==
    ASSUME NEW s, IsPartition(s), NEW r \in Nat, NEW m \in Nat
    PROVE  LET t == [s EXCEPT !.nextMsg = m, !.read = r]
           IN  IsPartition(t) /\ t.read = r /\ t.nextMsg = m /\ t.offset = s.offset
  BY DEF IsPartition

LEMMA NoneNext ==
    ASSUME NEW s, IsPartition(s)
    PROVE  LET t == [s EXCEPT !.nextMsg = NoMessage]
           IN  IsPartition(t) /\ t.read = s.read /\ t.nextMsg = NoMessage /\ t.offset = s.offset
  BY DEF IsPartition

LEMMA NotedOffset ==
    ASSUME NEW s, IsPartition(s), NEW o \in Nat
    PROVE  LET t == [s EXCEPT !.offset = o]
           IN  IsPartition(t) /\ t.read = s.read /\ t.nextMsg = s.nextMsg /\ t.offset = o
  BY DEF IsPartition

LEMMA ReceiveInv == ASSUME Inv, NEW p \in Partitions, Receive(p) PROVE Inv'
<1> DEFINE s == [part[p] EXCEPT !.nextMsg = part[p].read, !.read = @ + 1]
<1>1. /\ opened /\ part[p].nextMsg = NoMessage /\ IsPartition(part[p])
      /\ part' = [part EXCEPT ![p] = s]
      /\ UNCHANGED <<end, opened, consumers, got, rows, session, start, fetched, handed>>
  BY DEF Receive, Inv, TypeInv
<1>2. /\ IsPartition(s) /\ s.read = part[p].read + 1 /\ s.nextMsg = part[p].read /\ s.offset = part[p].offset
  <2> DEFINE a == part[p]
             b == part[p].read + 1
             d == part[p].read
  <2>1. IsPartition(a) /\ b \in Nat /\ d \in Nat
    BY <1>1 DEF IsPartition
  <2>2. s = [a EXCEPT !.nextMsg = d, !.read = b]
    OBVIOUS
  <2> HIDE DEF a, b, d, s
  <2>3. LET t == [a EXCEPT !.nextMsg = d, !.read = b]
        IN  IsPartition(t) /\ t.read = b /\ t.nextMsg = d /\ t.offset = a.offset
    BY <2>1, TakenNext
  <2> QED
    BY <2>2, <2>3 DEF a, b, d
<1> HIDE DEF s
<1>3. part' = [q \in Partitions |-> part'[q]] /\ part'[p] = s /\ \A q \in Partitions : q # p => part'[q] = part[q]
  BY <1>1 DEF Inv, TypeInv
<1>4. TypeInv'
  BY <1>1, <1>2, <1>3 DEF Inv, TypeInv
<1>5. HandedInv'
  BY <1>1, <1>2, <1>3 DEF Inv, HandedInv
<1>6. \A q, o : Has(q, o)' <=> Has(q, o)
  BY <1>1 DEF Has
<1>7. SessionInv'
  <2> SUFFICES ASSUME NEW q \in Partitions
               PROVE  /\ start[q] <= part'[q].read
                      /\ \A o \in Nat : start[q] <= o /\ o < part'[q].read => Has(q, o) \/ o = part'[q].nextMsg
                      /\ \A o \in Nat : Has(q, o) => o < part'[q].read /\ o # part'[q].nextMsg
    BY <1>1, <1>6 DEF Inv, SessionInv
  <2>1. /\ start[q] <= part[q].read
        /\ \A o \in Nat : start[q] <= o /\ o < part[q].read => Has(q, o) \/ o = part[q].nextMsg
        /\ \A o \in Nat : Has(q, o) => o < part[q].read /\ o # part[q].nextMsg
    BY <1>1 DEF Inv, SessionInv
  <2>2. part[q].read \in Nat /\ start[q] \in Nat /\ NoMessage \notin Nat
    BY DEF Inv, TypeInv, IsPartition, NoMessage
  <2>3. CASE q = p
    BY <1>1, <1>2, <1>3, <2>1, <2>2, <2>3
  <2>4. CASE q # p
    BY <1>3, <2>1, <2>4
  <2> QED
    BY <2>3, <2>4
<1> QED
  BY <1>4, <1>5, <1>7 DEF Inv

LEMMA HandInv == ASSUME Inv, NEW p \in Partitions, Hand(p) PROVE Inv'
<1> DEFINE c == part[p].child
           s == [part[p] EXCEPT !.nextMsg = NoMessage]
           g == [part |-> p, msg |-> part[p].nextMsg, session |-> session]
           h == IF part[p].read > handed[p] THEN part[p].read ELSE handed[p]
<1>1. /\ opened /\ part[p].nextMsg # NoMessage /\ IsPartition(part[p]) /\ got[c] = Nothing
      /\ part' = [part EXCEPT ![p] = s]
      /\ got' = [got EXCEPT ![c] = g]
      /\ handed' = [handed EXCEPT ![p] = h]
      /\ UNCHANGED <<end, opened, consumers, rows, session, start, fetched>>
  BY DEF Hand, Inv, TypeInv
<1>0. c \in Consumers
  BY DEF Hand, Active, Range, Inv, TypeInv
<1>2. /\ IsPartition(s) /\ s.read = part[p].read /\ s.nextMsg = NoMessage /\ s.offset = part[p].offset
  <2> DEFINE a == part[p]
  <2>1. IsPartition(a) /\ s = [a EXCEPT !.nextMsg = NoMessage]
    BY <1>1
  <2> HIDE DEF a, s
  <2>2. LET t == [a EXCEPT !.nextMsg = NoMessage]
        IN  IsPartition(t) /\ t.read = a.read /\ t.nextMsg = NoMessage /\ t.offset = a.offset
    BY <2>1, NoneNext
  <2> QED
    BY <2>1, <2>2 DEF a
<1>3. g \in Received /\ g.part = p /\ g.msg = part[p].nextMsg /\ g.session = session /\ g # Nothing
  <2>1. g \in Received
    BY <1>1 DEF Received, IsPartition, Inv, TypeInv
  <2>2. g.msg # Nothing.msg
    BY <1>1 DEF Nothing
  <2> QED
    BY <2>1, <2>2
<1>4. h \in Nat /\ h >= handed[p] /\ h >= part[p].read
  BY <1>1 DEF Inv, TypeInv, IsPartition
<1> HIDE DEF c, s, g, h
<1>5. /\ part' = [q \in Partitions |-> part'[q]] /\ part'[p] = s /\ \A q \in Partitions : q # p => part'[q] = part[q]
      /\ got'[c] = g /\ \A d \in Consumers : d # c => got'[d] = got[d]
      /\ handed'[p] = h /\ \A q \in Partitions : q # p => handed'[q] = handed[q]
  BY <1>0, <1>1 DEF Inv, TypeInv
<1>6. TypeInv'
  <2>1. got' \in [Consumers -> Received \cup {Nothing}]
    BY <1>1, <1>3 DEF Inv, TypeInv
  <2>2. handed' \in [Partitions -> Nat]
    BY <1>1, <1>4 DEF Inv, TypeInv
  <2>3. \A q \in Partitions : IsPartition(part'[q])
    BY <1>2, <1>5 DEF Inv, TypeInv
  <2> QED
    BY <1>1, <1>5, <2>1, <2>2, <2>3 DEF Inv, TypeInv
<1>7. HandedInv'
  <2>1. ASSUME NEW q \in Partitions
        PROVE  /\ part'[q].nextMsg # NoMessage => part'[q].nextMsg + 1 = part'[q].read
               /\ part'[q].offset + 1 <= handed'[q]
               /\ rows'[q] <= handed'[q]
    <3>1. /\ part[q].nextMsg # NoMessage => part[q].nextMsg + 1 = part[q].read
          /\ part[q].offset + 1 <= handed[q]
          /\ rows[q] <= handed[q]
      BY DEF Inv, HandedInv
    <3>2. handed[q] \in Nat /\ part[q].offset \in Int /\ rows[q] \in Int
      BY DEF Inv, TypeInv, IsPartition, NoOffset
    <3>3. CASE q = p
      BY <1>1, <1>2, <1>4, <1>5, <3>1, <3>2, <3>3
    <3>4. CASE q # p
      BY <1>1, <1>5, <3>1, <3>4
    <3> QED
      BY <3>3, <3>4
  <2>2. ASSUME NEW d \in Consumers, got'[d] # Nothing
        PROVE  got'[d].msg + 1 <= handed'[got'[d].part] /\ got'[d].session <= session'
    <3>1. CASE d = c
      <4>1. part[p].nextMsg + 1 = part[p].read
        BY <1>1 DEF Inv, HandedInv
      <4> QED
        BY <1>1, <1>3, <1>4, <1>5, <3>1, <4>1 DEF Inv, TypeInv, IsPartition
    <3>2. CASE d # c
      <4>1. got'[d] = got[d] /\ got[d] # Nothing
        BY <1>5, <2>2, <3>2
      <4>2. got[d].msg \in Nat /\ got[d].part \in Partitions
        BY <4>1 DEF Inv, TypeInv, Received
      <4>3. got[d].msg + 1 <= handed[got[d].part] /\ got[d].session <= session
        BY <4>1 DEF Inv, HandedInv
      <4>4. handed[got[d].part] \in Nat /\ handed'[got[d].part] \in Nat /\ handed'[got[d].part] >= handed[got[d].part]
        <5>1. handed \in [Partitions -> Nat]
          BY DEF Inv, TypeInv
        <5> QED
          BY <1>4, <1>5, <4>2, <5>1
      <4> QED
        BY <1>1, <4>1, <4>2, <4>3, <4>4
    <3> QED
      BY <3>1, <3>2
  <2> QED
    BY <2>1, <2>2 DEF HandedInv
<1>8. ASSUME NEW q \in Partitions, NEW o \in Nat
      PROVE  Has(q, o)' <=> Has(q, o) \/ (q = p /\ o = part[p].nextMsg)
  <2>1. (o \in fetched[q])' <=> o \in fetched[q]
    BY <1>1
  <2>2. (\E d \in Consumers : got'[d] # Nothing /\ got'[d].part = q /\ got'[d].session = session /\ got'[d].msg = o)
        <=> \/ \E d \in Consumers : got[d] # Nothing /\ got[d].part = q /\ got[d].session = session /\ got[d].msg = o
            \/ q = p /\ o = part[p].nextMsg
    BY <1>0, <1>1, <1>3, <1>5
  <2> QED
    BY <1>1, <2>1, <2>2 DEF Has
<1>9. SessionInv'
  <2> SUFFICES ASSUME NEW q \in Partitions
               PROVE  /\ start[q] <= part'[q].read
                      /\ \A o \in Nat : start[q] <= o /\ o < part'[q].read => Has(q, o)' \/ o = part'[q].nextMsg
                      /\ \A o \in Nat : Has(q, o)' => o < part'[q].read /\ o # part'[q].nextMsg
    BY <1>1 DEF Inv, SessionInv
  <2>1. /\ start[q] <= part[q].read
        /\ \A o \in Nat : start[q] <= o /\ o < part[q].read => Has(q, o) \/ o = part[q].nextMsg
        /\ \A o \in Nat : Has(q, o) => o < part[q].read /\ o # part[q].nextMsg
    BY <1>1 DEF Inv, SessionInv
  <2>2. part[p].nextMsg + 1 = part[p].read /\ part[p].read \in Nat /\ part[p].nextMsg \in Nat /\ NoMessage \notin Nat
    <3>1. part[p].nextMsg + 1 = part[p].read
      BY <1>1 DEF Inv, HandedInv
    <3>2. part[p].read \in Nat /\ part[p].nextMsg \in Nat
      BY <1>1 DEF IsPartition
    <3> QED
      BY <3>1, <3>2 DEF NoMessage
  <2>3. CASE q = p
    BY <1>2, <1>5, <1>8, <2>1, <2>2, <2>3
  <2>4. CASE q # p
    BY <1>5, <1>8, <2>1, <2>4
  <2> QED
    BY <2>3, <2>4
<1> QED
  BY <1>6, <1>7, <1>9 DEF Inv

\* FetchNext notes and returns what its consumer has in hand.
LEMMA FetchNextInv == ASSUME Inv, NEW c \in Consumers, FetchNext(c) PROVE Inv'
<1> DEFINE p == got[c].part
           o == got[c].msg
           s == [part[p] EXCEPT !.offset = o]
<1>1. /\ got[c] # Nothing /\ got[c] \in Received
      /\ got' = [got EXCEPT ![c] = Nothing]
      /\ part' = IF opened THEN [part EXCEPT ![p] = s] ELSE part
      /\ fetched' = IF got[c].session = session THEN [fetched EXCEPT ![p] = @ \cup {o}] ELSE fetched
      /\ UNCHANGED <<end, opened, consumers, rows, session, start, handed>>
  BY DEF FetchNext, Inv, TypeInv
<1>2. p \in Partitions /\ o \in Nat /\ o + 1 <= handed[p] /\ IsPartition(part[p])
  BY <1>1 DEF Received, Inv, HandedInv, TypeInv
<1>3. IsPartition(s) /\ s.read = part[p].read /\ s.nextMsg = part[p].nextMsg /\ s.offset = o
  <2> DEFINE a == part[p]
  <2>1. IsPartition(a) /\ s = [a EXCEPT !.offset = o]
    BY <1>2
  <2> HIDE DEF a, o, s
  <2>2. LET t == [a EXCEPT !.offset = o]
        IN  IsPartition(t) /\ t.read = a.read /\ t.nextMsg = a.nextMsg /\ t.offset = o
    BY <1>2, <2>1, NotedOffset
  <2> QED
    BY <2>1, <2>2 DEF a
<1> HIDE DEF s, p, o
<1>4. /\ part' = [q \in Partitions |-> part'[q]]
      /\ \A q \in Partitions : IsPartition(part'[q]) /\ part'[q].read = part[q].read /\ part'[q].nextMsg = part[q].nextMsg
      /\ \A q \in Partitions : part'[q].offset = part[q].offset \/ (q = p /\ part'[q].offset = o)
  BY <1>1, <1>2, <1>3 DEF Inv, TypeInv
<1>5. TypeInv'
  <2>1. got' \in [Consumers -> Received \cup {Nothing}]
    BY <1>1 DEF Inv, TypeInv
  <2>2. fetched' \in [Partitions -> SUBSET Nat]
    BY <1>1, <1>2 DEF Inv, TypeInv
  <2> QED
    BY <1>1, <1>4, <2>1, <2>2 DEF Inv, TypeInv
<1>6. HandedInv'
  <2>1. \A q \in Partitions : part'[q].offset + 1 <= handed'[q]
    BY <1>1, <1>2, <1>4 DEF Inv, HandedInv
  <2>2. \A d \in Consumers : got'[d] # Nothing => got'[d] = got[d]
    BY <1>1 DEF Inv, TypeInv
  <2> QED
    BY <1>1, <1>4, <2>1, <2>2 DEF Inv, HandedInv
<1>7. ASSUME NEW q \in Partitions, NEW k \in Nat PROVE Has(q, k)' <=> Has(q, k)
  <2>1. fetched \in [Partitions -> SUBSET Nat] /\ got \in [Consumers -> Received \cup {Nothing}]
    BY DEF Inv, TypeInv
  <2>2. got'[c] = Nothing /\ \A d \in Consumers : d # c => got'[d] = got[d]
    BY <1>1, <2>1
  <2>3. CASE got[c].session = session /\ q = p /\ k = o
    <3>1. k \in fetched'[q]
      BY <1>1, <1>2, <2>1, <2>3
    <3>2. got[c] # Nothing /\ got[c].part = q /\ got[c].session = session /\ got[c].msg = k
      BY <1>1, <2>3 DEF p, o
    <3> QED
      BY <3>1, <3>2 DEF Has
  <2>4. CASE ~(got[c].session = session /\ q = p /\ k = o)
    <3>1. k \in fetched'[q] <=> k \in fetched[q]
      BY <1>1, <1>2, <2>1, <2>4
    <3>2. ~(got[c].part = q /\ got[c].session = session /\ got[c].msg = k)
      BY <2>4 DEF p, o
    <3> QED
      BY <1>1, <2>2, <3>1, <3>2 DEF Has
  <2> QED
    BY <2>3, <2>4
<1>8. SessionInv'
  BY <1>1, <1>4, <1>7 DEF Inv, SessionInv
<1> QED
  BY <1>5, <1>6, <1>8 DEF Inv

\* A consumer joins.
LEMMA NewConsumerInv == ASSUME Inv, NEW c \in Consumers, NewConsumer(c) PROVE Inv'
<1> DEFINE at == [p \in Partitions |-> IF rows[p] = NoOffset THEN end[p] ELSE rows[p]]
           fresh == [p \in Partitions |-> FreshPartition(at[p])]
<1>1. opened' /\ UNCHANGED <<end, got, rows, handed>> /\ consumers' = Append(consumers, c) /\ InitTopicConsumer
  BY DEF NewConsumer
<1>2. consumers' \in Seq(Consumers)
  BY <1>1 DEF Inv, TypeInv
<1>3. CASE opened
  <2>1. part' = Redistributed(part, consumers') /\ UNCHANGED <<session, start, fetched>>
    BY <1>1, <1>3 DEF InitTopicConsumer
  <2>2. /\ part' = [p \in Partitions |-> part'[p]]
        /\ \A p \in Partitions : /\ IsPartition(part'[p]) /\ part'[p].read = part[p].read
                                 /\ part'[p].nextMsg = part[p].nextMsg /\ part'[p].offset = part[p].offset
    <3>1. \A p \in Partitions : IsPartition(part[p])
      BY DEF Inv, TypeInv
    <3> QED
      BY <2>1, <3>1, MovedPartitions
  <2>3. TypeInv'
    BY <1>1, <1>2, <1>3, <2>1, <2>2 DEF Inv, TypeInv
  <2>4. HandedInv'
    BY <1>1, <2>1, <2>2 DEF Inv, HandedInv
  <2>5. SessionInv'
    BY <1>1, <1>3, <2>1, <2>2 DEF Inv, SessionInv, Has
  <2> QED
    BY <2>3, <2>4, <2>5 DEF Inv
<1>4. CASE ~opened
  <2>1. /\ session' = session + 1 /\ start' = at /\ fetched' = [p \in Partitions |-> {}]
        /\ part' = Redistributed(fresh, consumers')
    BY <1>1, <1>4 DEF InitTopicConsumer
  <2>2. at \in [Partitions -> Nat]
    BY DEF Inv, TypeInv
  <2>3. ASSUME NEW p \in Partitions
        PROVE  IsPartition(fresh[p]) /\ fresh[p].read = at[p] /\ fresh[p].nextMsg = NoMessage /\ fresh[p].offset = NoOffset
    <3>1. fresh[p] = FreshPartition(at[p]) /\ at[p] \in Nat
      BY <2>2
    <3> HIDE DEF at, fresh
    <3> QED
      BY <3>1 DEF FreshPartition, IsPartition
  <2> HIDE DEF at, fresh
  <2>4. /\ part' = [p \in Partitions |-> part'[p]]
        /\ \A p \in Partitions : /\ IsPartition(part'[p]) /\ part'[p].read = at[p]
                                 /\ part'[p].nextMsg = NoMessage /\ part'[p].offset = NoOffset
    BY <2>1, <2>3, MovedPartitions
  <2>5. session \in Nat /\ session' \in Nat /\ session' > session
    BY <2>1 DEF Inv, TypeInv
  <2>6. TypeInv'
    BY <1>1, <1>2, <2>1, <2>2, <2>4, <2>5 DEF Inv, TypeInv
  <2>7. HandedInv'
    <3>1. \A p \in Partitions : part'[p].offset + 1 <= handed'[p]
      BY <1>1, <2>4 DEF Inv, TypeInv, NoOffset
    <3>2. \A d \in Consumers : got[d] # Nothing => got[d].session <= session'
      BY <2>5 DEF Inv, TypeInv, HandedInv, Received
    <3> QED
      BY <1>1, <2>4, <3>1, <3>2 DEF Inv, HandedInv
  <2>8. \A d \in Consumers : got[d] # Nothing => got[d].session # session'
    BY <2>5 DEF Inv, TypeInv, HandedInv, Received
  <2>9. \A p \in Partitions, o \in Nat : ~Has(p, o)'
    BY <1>1, <2>1, <2>8 DEF Has
  <2>10. SessionInv'
    BY <2>1, <2>2, <2>4, <2>5, <2>9 DEF SessionInv
  <2> QED
    BY <2>6, <2>7, <2>10 DEF Inv
<1> QED
  BY <1>3, <1>4

\* An owner saves the offsets of its partitions.
LEMMA CommittedType ==
    ASSUME Inv, NEW c, NEW k
    PROVE  /\ Committed(c, k) \in [Partitions -> Nat \cup {NoOffset}]
           /\ \A p \in Partitions : Committed(c, k)[p] <= handed[p]
<1> SUFFICES ASSUME NEW p \in Partitions
             PROVE  Committed(c, k)[p] \in Nat \cup {NoOffset} /\ Committed(c, k)[p] <= handed[p]
  BY DEF Committed
<1>1. IsPartition(part[p]) /\ rows[p] \in Nat \cup {NoOffset} /\ rows[p] <= handed[p] /\ part[p].offset + 1 <= handed[p]
  BY DEF Inv, TypeInv, HandedInv
<1>2. part[p].offset \in Nat \cup {NoOffset}
  BY <1>1 DEF IsPartition
<1>3. Committed(c, k)[p] \in {part[p].offset + 1, rows[p]}
      /\ (part[p].offset = NoOffset => Committed(c, k)[p] = rows[p])
  BY DEF Committed
<1> QED
  BY <1>1, <1>2, <1>3

\* A step that does nothing but save offsets.
LEMMA RowsInv ==
    ASSUME Inv, UNCHANGED <<end, opened, consumers, part, got, session, start, fetched, handed>>,
           rows' = rows \/ \E c, k : rows' = Committed(c, k)
    PROVE  Inv'
<1>1. rows' \in [Partitions -> Nat \cup {NoOffset}] /\ \A p \in Partitions : rows'[p] <= handed[p]
  BY CommittedType DEF Inv, TypeInv, HandedInv
<1> QED
  BY <1>1 DEF Inv, TypeInv, HandedInv, SessionInv, Has

LEMMA SaveOffsetInv == ASSUME Inv, NEW c \in Consumers, SaveOffset(c) PROVE Inv'
<1>1. UNCHANGED <<end, opened, consumers, part, got, session, start, fetched, handed>>
      /\ \E k : rows' = Committed(c, k)
  BY DEF SaveOffset, CommitsSome
<1> QED
  BY <1>1, RowsInv

\* A consumer leaves.
LEMMA RemovedType == ASSUME NEW cs \in Seq(Consumers), NEW c, Len(cs) > 0 PROVE Removed(cs, c) \in Seq(Consumers) /\ Len(Removed(cs, c)) = Len(cs) - 1
<1> DEFINE i == CHOOSE k \in DOMAIN cs : cs[k] = c
           new == [k \in 1 .. Len(cs) - 1 |-> IF k = i THEN cs[Len(cs)] ELSE cs[k]]
<1> HIDE DEF i
<1>1. Len(cs) - 1 \in Nat /\ \A k \in 1 .. Len(cs) - 1 : cs[k] \in Consumers /\ cs[Len(cs)] \in Consumers
  OBVIOUS
<1>2. new \in Seq(Consumers) /\ Len(new) = Len(cs) - 1
  BY <1>1
<1> QED
  BY <1>2 DEF Removed, i

LEMMA LeaveInv ==
    ASSUME Inv, NEW c \in Consumers, NEW b \in BOOLEAN, c \in Active, Leave(c, b),
           UNCHANGED <<end, got, session, start, fetched, handed>>
    PROVE  Inv'
<1>1. /\ consumers' = Removed(consumers, c) /\ opened' = (Len(consumers) > 1)
      /\ rows' = IF b THEN Committed(c, NumParts) ELSE rows
      /\ part' = IF opened' THEN Redistributed(part, consumers') ELSE part
  BY DEF Leave, CommitOnClose
<1>2. consumers' \in Seq(Consumers) /\ Len(consumers') = Len(consumers) - 1 /\ Len(consumers) \in Nat /\ opened
  <2>1. consumers \in Seq(Consumers) /\ Len(consumers) > 0 /\ opened
    BY DEF Active, Range, Inv, TypeInv
  <2> QED
    BY <1>1, <2>1, RemovedType
<1>3. rows' \in [Partitions -> Nat \cup {NoOffset}] /\ \A p \in Partitions : rows'[p] <= handed[p]
  BY <1>1, CommittedType DEF Inv, TypeInv, HandedInv
<1>4. /\ part' = [p \in Partitions |-> part'[p]]
      /\ \A p \in Partitions : /\ IsPartition(part'[p]) /\ part'[p].read = part[p].read
                               /\ part'[p].nextMsg = part[p].nextMsg /\ part'[p].offset = part[p].offset
  <2>1. CASE opened'
    <3>1. \A p \in Partitions : IsPartition(part[p])
      BY DEF Inv, TypeInv
    <3> QED
      BY <1>1, <2>1, <3>1, MovedPartitions
  <2>2. CASE ~opened'
    BY <1>1, <2>2 DEF Inv, TypeInv
  <2> QED
    BY <2>1, <2>2
<1>5. opened' \in BOOLEAN /\ (opened' => opened)
  <2>1. opened' \in BOOLEAN
    BY <1>1
  <2>2. opened
    BY <1>2
  <2> QED
    BY <2>1, <2>2
<1>6. TypeInv'
  <2>1. Len(consumers') > 0 => opened'
    <3>1. opened' <=> Len(consumers) > 1
      BY <1>1
    <3> QED
      BY <1>2, <3>1
  <2> QED
    BY <1>1, <1>2, <1>3, <1>4, <1>5, <2>1 DEF Inv, TypeInv
<1>7. HandedInv'
  BY <1>1, <1>3, <1>4 DEF Inv, HandedInv
<1>8. SessionInv'
  BY <1>1, <1>4, <1>5 DEF Inv, SessionInv, Has
<1> QED
  BY <1>6, <1>7, <1>8 DEF Inv

\* Or its close fails, and it saves offsets at most.
LEMMA CloseConsumerInv ==
    ASSUME Inv, NEW c \in Consumers, NEW b \in BOOLEAN, CloseConsumer(c, b)
    PROVE  Inv'
<1>1. c \in Active /\ UNCHANGED <<end, got, session, start, fetched, handed>>
  BY DEF CloseConsumer
<1>2. CASE Leave(c, b)
  BY <1>1, <1>2, LeaveInv
<1>3. CASE StayBehind(c, b)
  <2>1. UNCHANGED <<opened, consumers, part>> /\ (rows' = rows \/ \E d, k : rows' = Committed(d, k))
    BY <1>3 DEF StayBehind, CommitsSome, CommitOnClose
  <2> QED
    BY <1>1, <2>1, RowsInv
<1> QED
  BY <1>2, <1>3 DEF CloseConsumer

LEMMA CrashInv == ASSUME Inv, Crash PROVE Inv'
<1>1. /\ ~opened' /\ consumers' = <<>> /\ part' = [p \in Partitions |-> FreshPartition(0)]
      /\ got' = [c \in Consumers |-> Nothing]
      /\ UNCHANGED <<end, rows, session, start, fetched, handed>>
  BY DEF Crash
<1>2. IsPartition(FreshPartition(0)) /\ FreshPartition(0).nextMsg = NoMessage /\ FreshPartition(0).offset = NoOffset
  BY DEF FreshPartition, IsPartition, NoMessage, NoOffset
<1>3. part' = [p \in Partitions |-> part'[p]] /\ \A p \in Partitions : part'[p] = FreshPartition(0)
  BY <1>1
<1>4. TypeInv'
  <2>1. opened' \in BOOLEAN
    BY DEF Crash
  <2>2. consumers' \in Seq(Consumers) /\ ~(Len(consumers') > 0)
    BY <1>1
  <2> QED
    BY <1>1, <1>2, <1>3, <2>1, <2>2 DEF Inv, TypeInv
<1>5. HandedInv'
  BY <1>1, <1>2, <1>3 DEF Inv, TypeInv, HandedInv, NoOffset
<1>6. SessionInv'
  BY <1>1 DEF SessionInv
<1> QED
  BY <1>4, <1>5, <1>6 DEF Inv

-----------------------------------------------------------------------------
LEMMA NextInv == Inv /\ [Next]_vars => Inv'
<1> SUFFICES ASSUME Inv, [Next]_vars PROVE Inv'
  OBVIOUS
<1>1. ASSUME NEW p \in Partitions, Produce(p) PROVE Inv'
  <2>1. end' \in [Partitions -> Nat]
    BY <1>1 DEF Produce, Inv, TypeInv
  <2> QED
    BY <1>1, <2>1 DEF Produce, Inv, TypeInv, HandedInv, SessionInv, Has
<1>2. CASE UNCHANGED vars
  BY <1>2 DEF vars, Inv, TypeInv, HandedInv, SessionInv, Has
<1>3. ASSUME NEW c \in Consumers, Close(c) \/ CloseOnFailure(c) PROVE Inv'
  BY <1>3, CloseConsumerInv DEF Close, CloseOnFailure
<1> QED
  BY <1>1, <1>2, <1>3, ReceiveInv, HandInv, FetchNextInv, NewConsumerInv, SaveOffsetInv, CrashInv DEF Next

LEMMA InvAlways == Spec => []Inv
  BY InitInv, NextInv, PTL DEF Spec

\* Whatever consumer saves an offset, and whenever FetchNext notes it, every
\* message before it was handed to a consumer (kafka.go:358-406, 556-570).
THEOREM OffsetsAreHanded == Spec => []SavesOnlyHanded
<1>1. Inv => SavesOnlyHanded
  BY DEF Inv, HandedInv, SavesOnlyHanded
<1> QED
  BY <1>1, InvAlways, PTL

\* While consumers join and leave, the message a stopped goroutine keeps in
\* nextMsg is neither lost nor handed out twice (kafka.go:206-284).
THEOREM NothingIsSkipped == Spec => []NothingSkipped
<1>1. ASSUME Inv, opened, NEW p \in Partitions
      PROVE  LET waiting == {part[p].nextMsg} \ {NoMessage}
             IN  /\ start[p] .. part[p].read - 1 \subseteq fetched[p] \cup InHand(p) \cup waiting
                 /\ waiting \cap (fetched[p] \cup InHand(p)) = {}
  <2>1. /\ start[p] \in Nat /\ part[p].read \in Nat /\ part[p].nextMsg \in Nat \cup {NoMessage} /\ NoMessage \notin Nat
        /\ fetched[p] \subseteq Nat /\ session > 0
        /\ \A o \in Nat : start[p] <= o /\ o < part[p].read => Has(p, o) \/ o = part[p].nextMsg
        /\ \A o \in Nat : Has(p, o) => o < part[p].read /\ o # part[p].nextMsg
    BY <1>1 DEF Inv, TypeInv, SessionInv, IsPartition, NoMessage
  <2>2. \A o : o \in fetched[p] \cup InHand(p) <=> o \in Nat /\ Has(p, o)
    <3>1. \A d \in Consumers : got[d].session = session => got[d] # Nothing /\ got[d].msg \in Nat
      <4>1. Nothing.session = 0
        BY DEF Nothing
      <4> QED
        BY <1>1, <2>1, <4>1 DEF Inv, TypeInv, Received
    <3> QED
      BY <2>1, <3>1 DEF InHand, Has
  <2> HIDE DEF InHand
  <2> QED
    BY <2>1, <2>2
<1>2. Inv => NothingSkipped
  BY <1>1 DEF NothingSkipped
<1> QED
  BY <1>2, InvAlways, PTL

-----------------------------------------------------------------------------
(* The loop of redistributeConsumers. *)

\* One turn of it: the consumer and the share it goes on with.
Turn(n, k, p, i) ==
    IF (n - i) % p.share # 0 THEN p
    ELSE [j     |-> p.j + 1,
          share |-> IF p.j + 1 = k THEN p.share ELSE (n - i) \div (k - (p.j + 1))]

First(n, k) == [j |-> 0, share |-> n \div k]

\* f has what the loop is at for each of the n partitions.
Loop(n, k, f) == f = [i \in 0 .. n |-> IF i = 0 THEN First(n, k) ELSE Turn(n, k, f[i - 1], i)]

LEMMA DistributionIs ==
    ASSUME NEW n, NEW k
    PROVE  Distribution(n, k) = [i \in 0 .. n - 1 |-> (CHOOSE f : Loop(n, k, f))[i].j]
BY DEF Distribution, Loop, Turn, First

\* A set of numbers that is not empty has a least one.
LEMMA LeastNat ==
    ASSUME NEW T \in SUBSET Nat, T # {}
    PROVE  \E m \in T : \A k \in T : m <= k
<1> DEFINE R == OpToRel(<, Nat)
<1>1. IsWellFoundedOn(R, Nat)
  BY NatLessThanWellFounded
<1>2. \A x, y \in Nat : <<y, x>> \in R <=> y < x
  BY DEF OpToRel
<1> HIDE DEF R
<1>3. \E x \in T : \A y \in T : ~ (<<y, x>> \in R)
  BY <1>1, WFMin
<1>4. PICK x \in T : \A y \in T : ~ (<<y, x>> \in R)
  BY <1>3
<1>5. \A y \in T : x \in Nat /\ y \in Nat /\ ~(y < x)
  BY <1>2, <1>4
<1> QED
  BY <1>5

\* The loop comes to an end: its turns up to m are a function.
LEMMA LoopIs ==
    ASSUME NEW n \in Nat, NEW k
    PROVE  Loop(n, k, CHOOSE f : Loop(n, k, f))
<1> DEFINE upto(m, f) == f = [i \in 0 .. m |-> IF i = 0 THEN First(n, k) ELSE Turn(n, k, f[i - 1], i)]
           stuck == {m \in Nat : ~ \E f : upto(m, f)}
<1>1. \E f : upto(0, f)
  <2> DEFINE f == [i \in 0 .. 0 |-> First(n, k)]
  <2>1. \A i \in 0 .. 0 : i = 0
    OBVIOUS
  <2>2. f = [i \in 0 .. 0 |-> IF i = 0 THEN First(n, k) ELSE Turn(n, k, f[i - 1], i)]
    BY <2>1
  <2> QED
    BY <2>2
<1>2. ASSUME NEW m \in Nat, \E f : upto(m, f)
      PROVE  \E f : upto(m + 1, f)
  <2>1. PICK f : upto(m, f)
    BY <1>2
  <2> DEFINE g == [i \in 0 .. m + 1 |-> IF i = m + 1 THEN Turn(n, k, f[m], i) ELSE f[i]]
  <2>2. ASSUME NEW i \in 0 .. m + 1
        PROVE  g[i] = IF i = 0 THEN First(n, k) ELSE Turn(n, k, g[i - 1], i)
    <3>1. CASE i = m + 1
      <4>1. g[i] = Turn(n, k, f[m], i) /\ g[m] = f[m] /\ i # 0 /\ i - 1 = m
        BY <3>1
      <4> HIDE DEF g
      <4> QED
        BY <4>1
    <3>2. CASE i # m + 1
      <4>1. i \in 0 .. m /\ g[i] = f[i]
        BY <3>2
      <4>2. f[i] = IF i = 0 THEN First(n, k) ELSE Turn(n, k, f[i - 1], i)
        BY <2>1, <4>1
      <4>3. i # 0 => g[i - 1] = f[i - 1]
        BY <4>1
      <4> HIDE DEF g
      <4> QED
        BY <4>1, <4>2, <4>3
    <3> QED
      BY <3>1, <3>2
  <2>3. g = [i \in 0 .. m + 1 |-> g[i]]
    OBVIOUS
  <2> HIDE DEF g
  <2>4. upto(m + 1, g)
    BY <2>2, <2>3
  <2> QED
    BY <2>4
<1> HIDE DEF upto
<1>3. stuck = {}
  <2> SUFFICES ASSUME stuck # {} PROVE FALSE
    OBVIOUS
  <2>1. PICK m \in stuck : \A x \in stuck : m <= x
    BY LeastNat
  <2>2. m \in Nat /\ ~ \E f : upto(m, f)
    BY <2>1
  <2>3. CASE m = 0
    BY <1>1, <2>2, <2>3
  <2>4. CASE m # 0
    <3>1. m - 1 \in Nat /\ m - 1 + 1 = m /\ ~(m <= m - 1)
      BY <2>2, <2>4
    <3>2. m - 1 \notin stuck
      BY <2>1, <3>1
    <3>3. \E f : upto(m - 1, f)
      BY <3>1, <3>2
    <3>4. \E f : upto(m - 1 + 1, f)
      BY <1>2, <3>1, <3>3
    <3> QED
      BY <2>2, <3>1, <3>4
  <2> QED
    BY <2>3, <2>4
<1>4. \E f : upto(n, f)
  BY <1>3
<1> QED
  BY <1>4 DEF upto, Loop

\* Division.
LEMMA DivMod ==
    ASSUME NEW a \in Nat, NEW d \in Nat \ {0}
    PROVE  a \div d \in Nat /\ a % d \in 0 .. d - 1 /\ a = d * (a \div d) + (a % d)
OBVIOUS

LEMMA NoFactor == ASSUME NEW a \in Int, NEW b \in Nat \ {0}, b * a >= 0, b * a < b PROVE b * a = 0
<1>1. CASE a >= 1
  <2>1. b * a >= b
    BY <1>1
  <2> QED
    BY <2>1
<1>2. CASE a <= -1
  <2>1. b * a < 0
    BY <1>2
  <2> QED
    BY <2>1
<1>3. CASE a = 0
  BY <1>3
<1> QED
  BY <1>1, <1>2, <1>3

LEMMA MultipleMod == ASSUME NEW q \in Nat, NEW d \in Nat \ {0} PROVE (d * q) % d = 0
<1> DEFINE a == d * q
           e == a \div d
           r == a % d
           x == q - e
<1>1. a \in Nat
  OBVIOUS
<1>2. e \in Nat /\ r \in 0 .. d - 1 /\ a = d * e + r
  BY <1>1, DivMod
<1> HIDE DEF e, r
<1>3. x \in Int /\ d * x = d * q - d * e /\ d * e \in Int /\ d * q \in Int
  BY <1>2
<1>4. r = d * x /\ d * x >= 0 /\ d * x < d
  BY <1>2, <1>3
<1> HIDE DEF x
<1>5. d * x = 0
  BY <1>3, <1>4, NoFactor
<1>6. r = 0
  BY <1>4, <1>5
<1> QED
  BY <1>6 DEF r

LEMMA DivAtLeast ==
    ASSUME NEW a \in Nat, NEW d \in Nat \ {0}, a >= d
    PROVE  a \div d >= 1
<1> DEFINE q == a \div d
<1>1. q \in Nat /\ a % d \in 0 .. d - 1 /\ a = d * q + (a % d)
  BY DivMod
<1> HIDE DEF q
<1>2. CASE q = 0
  <2>1. d * q = 0
    BY <1>2
  <2> QED
    BY <1>1, <2>1
<1>3. CASE q # 0
  BY <1>1, <1>3 DEF q
<1> QED
  BY <1>2, <1>3

\* What holds at partition i of n, with k consumers: the consumers after this one
\* are served by the partitions left, and the last one takes what is left.
TurnOk(n, k, p, i) ==
    /\ p.j \in 0 .. k - 1 /\ p.share \in Nat \ {0}
    /\ n - i > p.share * (k - p.j - 1)
    /\ p.j = k - 1 => n - i <= p.share

LEMMA FirstOk ==
    ASSUME NEW n \in Nat, NEW k \in 1 .. n
    PROVE  TurnOk(n, k, First(n, k), 0)
<1> DEFINE s == n \div k
<1>1. k \in Nat \ {0} /\ n >= k
  OBVIOUS
<1>2. s \in Nat /\ n % k \in 0 .. k - 1 /\ n = k * s + (n % k) /\ s >= 1
  BY <1>1, DivMod, DivAtLeast
<1>3. First(n, k).j = 0 /\ First(n, k).share = s
  BY DEF First
<1> HIDE DEF s
<1>4. s * (k - 1) = k * s - s /\ k * s \in Int /\ s * (k - 1) \in Int
  BY <1>1, <1>2
<1>5. n > s * (k - 1)
  BY <1>1, <1>2, <1>4
<1>6. k = 1 => n <= s
  <2> SUFFICES ASSUME k = 1 PROVE n <= s
    OBVIOUS
  <2>1. k * s = s /\ n % k = 0
    BY <1>2
  <2> QED
    BY <1>2, <2>1
<1>7. k - 0 - 1 = k - 1 /\ n - 0 = n /\ 0 \in 0 .. k - 1 /\ (0 = k - 1 => k = 1)
  BY <1>1
<1>8. s \in Nat \ {0}
  BY <1>2
<1> QED
  BY <1>3, <1>5, <1>6, <1>7, <1>8 DEF TurnOk

LEMMA TurnIsOk ==
    ASSUME NEW n \in Nat, NEW k \in 1 .. n, NEW i \in 1 .. n - 1, NEW p, TurnOk(n, k, p, i - 1)
    PROVE  /\ TurnOk(n, k, Turn(n, k, p, i), i)
           /\ Turn(n, k, p, i).j \in {p.j, p.j + 1}
<1> DEFINE j == p.j
           s == p.share
           c == k - j - 1
           l == n - i
<1>1. /\ j \in 0 .. k - 1 /\ s \in Nat \ {0} /\ c \in Nat /\ l \in Nat \ {0}
      /\ l + 1 > s * c /\ (c = 0 => l + 1 <= s)
  <2>1. j \in 0 .. k - 1 /\ s \in Nat \ {0} /\ n - (i - 1) > s * c /\ (j = k - 1 => n - (i - 1) <= s)
    BY DEF TurnOk
  <2>2. c \in Nat /\ l \in Nat \ {0} /\ n - (i - 1) = l + 1 /\ (c = 0 => j = k - 1)
    BY <2>1
  <2> QED
    BY <2>1, <2>2
<1>2. s * c \in Nat
  BY <1>1
<1>3. CASE l % s # 0
  <2>1. Turn(n, k, p, i) = p
    BY <1>3 DEF Turn
  <2>2. l # s * c
    BY <1>1, <1>3, MultipleMod
  <2> HIDE DEF c, l
  <2>3. l > s * c /\ (c = 0 => l <= s)
    BY <1>1, <1>2, <2>2
  <2> USE DEF c, l
  <2>4. p.j = k - 1 => c = 0
    BY <1>1
  <2> QED
    BY <1>1, <2>1, <2>3, <2>4 DEF TurnOk
<1>4. CASE l % s = 0
  <2>1. c # 0
    <3> SUFFICES ASSUME c = 0 PROVE FALSE
      OBVIOUS
    <3> HIDE DEF c, l, s
    <3>1. l < s
      BY <1>1
    <3>2. l % s = l
      <4> DEFINE q == l \div s
      <4>1. q \in Nat /\ l % s \in 0 .. s - 1 /\ l = s * q + (l % s)
        BY <1>1, DivMod
      <4> HIDE DEF q
      <4>2. CASE q = 0
        <5>1. s * q = 0
          BY <1>1, <4>2
        <5> QED
          BY <4>1, <5>1
      <4>3. CASE q # 0
        <5>1. s * q >= s /\ s * q \in Int
          BY <1>1, <4>1, <4>3
        <5> QED
          BY <1>1, <3>1, <4>1, <5>1
      <4> QED
        BY <4>2, <4>3
    <3> QED
      BY <1>1, <1>4, <3>2
  <2> DEFINE t == l \div c
  <2>2. c \in Nat \ {0} /\ l >= c
    <3> HIDE DEF c, l, s
    <3>1. c \in Nat \ {0}
      BY <1>1, <2>1
    <3>2. s * c >= c
      BY <1>1, <3>1
    <3> QED
      BY <1>1, <1>2, <3>1, <3>2
  <2>3. Turn(n, k, p, i).j = j + 1 /\ Turn(n, k, p, i).share = t
    <3>1. j + 1 # k /\ k - (j + 1) = c
      BY <1>1, <2>1
    <3>2. Turn(n, k, p, i) = [j |-> j + 1, share |-> t]
      BY <1>4, <3>1 DEF Turn
    <3> QED
      BY <3>2
  <2>4. t \in Nat /\ t >= 1 /\ l % c \in 0 .. c - 1 /\ l = c * t + (l % c)
    <3> HIDE DEF c, l
    <3> QED
      BY <1>1, <2>2, DivMod, DivAtLeast
  <2> HIDE DEF t
  <2>5. l > t * (c - 1) /\ (c = 1 => l <= t)
    <3> HIDE DEF c, l
    <3>1. t * (c - 1) = c * t - t /\ c * t \in Int /\ t * (c - 1) \in Int
      BY <2>2, <2>4
    <3>2. l > t * (c - 1)
      BY <2>2, <2>4, <3>1
    <3>3. ASSUME c = 1 PROVE l <= t
      <4>1. c * t = t /\ l % c = 0
        BY <2>4, <3>3
      <4> QED
        BY <2>4, <4>1
    <3> QED
      BY <3>2, <3>3
  <2>6. k - (j + 1) - 1 = c - 1 /\ j + 1 \in 0 .. k - 1 /\ (j + 1 = k - 1 => c = 1) /\ t \in Nat \ {0}
    <3>1. t \in Nat \ {0}
      BY <2>4
    <3> QED
      BY <1>1, <2>1, <3>1
  <2> QED
    BY <2>3, <2>5, <2>6 DEF TurnOk
<1> QED
  BY <1>3, <1>4

\* Every one of the k consumers gets some of the n partitions, and nobody else.
LEMMA DistributionOk ==
    ASSUME NEW n \in Nat, NEW k \in 1 .. n
    PROVE  /\ \A i \in 0 .. n - 1 : Distribution(n, k)[i] \in 0 .. k - 1
           /\ {Distribution(n, k)[i] : i \in 0 .. n - 1} = 0 .. k - 1
<1> DEFINE f == CHOOSE g : Loop(n, k, g)
           d(i) == f[i].j
<1>1. Loop(n, k, f)
  BY LoopIs
<1>2. \A i \in 0 .. n - 1 : Distribution(n, k)[i] = d(i)
  BY DistributionIs
<1> HIDE DEF f
<1>3. f[0] = First(n, k) /\ \A i \in 1 .. n : f[i] = Turn(n, k, f[i - 1], i)
  BY <1>1 DEF Loop
<1>4. \A i \in 0 .. n - 1 : TurnOk(n, k, f[i], i)
  <2> DEFINE bad == {i \in 0 .. n - 1 : ~TurnOk(n, k, f[i], i)}
  <2> SUFFICES ASSUME bad # {} PROVE FALSE
    OBVIOUS
  <2>1. PICK i \in bad : \A x \in bad : i <= x
    <3>1. bad \in SUBSET Nat
      OBVIOUS
    <3> HIDE DEF bad
    <3> QED
      BY <3>1, LeastNat
  <2>2. i \in 0 .. n - 1 /\ ~TurnOk(n, k, f[i], i)
    BY <2>1
  <2>3. i # 0
    BY <1>3, <2>2, FirstOk
  <2>4. i \in 1 .. n - 1 /\ i - 1 \in 0 .. n - 1 /\ ~(i <= i - 1)
    BY <2>2, <2>3
  <2>5. TurnOk(n, k, f[i - 1], i - 1)
    BY <2>1, <2>4
  <2>6. f[i] = Turn(n, k, f[i - 1], i)
    BY <1>3, <2>4
  <2> QED
    BY <2>2, <2>4, <2>5, <2>6, TurnIsOk
<1>5. \A i \in 0 .. n - 1 : d(i) \in 0 .. k - 1
  BY <1>4 DEF TurnOk
<1>6. \A i \in 1 .. n - 1 : d(i) \in {d(i - 1), d(i - 1) + 1}
  <2> TAKE i \in 1 .. n - 1
  <2>1. i - 1 \in 0 .. n - 1 /\ f[i] = Turn(n, k, f[i - 1], i)
    BY <1>3
  <2>2. TurnOk(n, k, f[i - 1], i - 1)
    BY <1>4, <2>1
  <2> QED
    BY <2>1, <2>2, TurnIsOk
<1>7. d(0) = 0
  BY <1>3 DEF First
<1>8. d(n - 1) = k - 1
  <2> DEFINE s == f[n - 1].share
             c == k - d(n - 1) - 1
  <2>1. n - 1 \in 0 .. n - 1 /\ n - (n - 1) = 1
    OBVIOUS
  <2>2. s \in Nat \ {0} /\ d(n - 1) \in 0 .. k - 1 /\ 1 > s * c
    BY <1>4, <2>1 DEF TurnOk
  <2>3. c \in Nat
    BY <2>2
  <2>4. c = 0
    <3> HIDE DEF s, c
    <3> SUFFICES ASSUME c >= 1 PROVE FALSE
      BY <2>3
    <3>1. s * c >= 1 /\ s * c \in Nat
      BY <2>2, <2>3
    <3> QED
      BY <2>2, <3>1
  <2> QED
    BY <2>2, <2>4
<1> HIDE DEF d
<1>9. ASSUME NEW v \in 0 .. k - 1
      PROVE  \E i \in 0 .. n - 1 : d(i) = v
  <2> DEFINE T == {i \in 0 .. n - 1 : d(i) >= v}
  <2>1. n - 1 \in T
    BY <1>8
  <2>2. PICK i \in T : \A x \in T : i <= x
    <3>1. T \in SUBSET Nat
      OBVIOUS
    <3> HIDE DEF T
    <3> QED
      BY <2>1, <3>1, LeastNat
  <2>3. i \in 0 .. n - 1 /\ d(i) >= v
    BY <2>2
  <2>4. CASE i = 0
    BY <1>7, <2>3, <2>4
  <2>5. CASE i # 0
    <3>1. i \in 1 .. n - 1 /\ i - 1 \in 0 .. n - 1 /\ ~(i <= i - 1)
      BY <2>3, <2>5
    <3>2. ~(d(i - 1) >= v)
      BY <2>2, <3>1
    <3>3. d(i) \in {d(i - 1), d(i - 1) + 1} /\ d(i) \in Int /\ d(i - 1) \in Int
      BY <1>5, <1>6, <2>3, <3>1
    <3>4. d(i) = v
      BY <2>3, <3>2, <3>3
    <3> QED
      BY <2>3, <3>4
  <2> QED
    BY <2>4, <2>5
<1>10. \A i \in 0 .. n - 1 : Distribution(n, k)[i] \in 0 .. k - 1
  BY <1>2, <1>5
<1>11. {Distribution(n, k)[i] : i \in 0 .. n - 1} = 0 .. k - 1
  <2>1. \A v \in 0 .. k - 1 : \E i \in 0 .. n - 1 : Distribution(n, k)[i] = v
    BY <1>2, <1>9
  <2> QED
    BY <1>10, <2>1
<1> QED
  BY <1>10, <1>11

-----------------------------------------------------------------------------
(* Who works. *)

WorkInv ==
    /\ ~opened => Len(consumers) = 0
    /\ opened => /\ Len(consumers) \in 1 .. NumParts
                 /\ {part[p].child : p \in Partitions} = Active

\* The partitions shared out among the consumers cs belong to them, and each has one.
LEMMA SharedOut ==
    ASSUME NEW ps, \A p \in Partitions : IsPartition(ps[p]),
           NEW cs \in Seq(Consumers), Len(cs) \in 1 .. NumParts
    PROVE  {Redistributed(ps, cs)[p].child : p \in Partitions} = Range(cs)
<1> DEFINE k == Len(cs)
           to == Distribution(NumParts, k)
<1>1. NumParts \in Nat /\ k \in 1 .. NumParts /\ Partitions = 0 .. NumParts - 1
  BY NumPartsAssumption DEF Partitions
<1>2. /\ \A p \in Partitions : to[p] \in 0 .. k - 1
      /\ {to[p] : p \in Partitions} = 0 .. k - 1
  BY <1>1, DistributionOk
<1> HIDE DEF to
<1>3. \A p \in Partitions : Redistributed(ps, cs)[p].child = cs[to[p] + 1]
  <2>1. \A p \in Partitions : Redistributed(ps, cs)[p] = [ps[p] EXCEPT !.child = cs[to[p] + 1]]
    BY DEF Redistributed, to
  <2> QED
    BY <2>1 DEF IsPartition
<1>4. \A v \in 1 .. k : \E p \in Partitions : to[p] + 1 = v
  <2> TAKE v \in 1 .. k
  <2>1. v - 1 \in 0 .. k - 1 /\ v - 1 + 1 = v
    BY <1>1
  <2>2. PICK p \in Partitions : to[p] = v - 1
    BY <1>2, <2>1
  <2> QED
    BY <2>1, <2>2
<1>5. \A p \in Partitions : to[p] + 1 \in 1 .. k
  BY <1>1, <1>2
<1>6. Range(cs) = {cs[v] : v \in 1 .. k}
  BY DEF Range
<1> QED
  BY <1>3, <1>4, <1>5, <1>6

\* Nobody joins or leaves.
LEMMA WorkSame ==
    ASSUME Inv, WorkInv, UNCHANGED <<opened, consumers>>,
           \A p \in Partitions : part'[p].child = part[p].child
    PROVE  WorkInv'
<1>1. {part'[p].child : p \in Partitions} = {part[p].child : p \in Partitions}
  OBVIOUS
<1> QED
  BY <1>1 DEF WorkInv, Active

LEMMA WorkNext == Inv /\ WorkInv /\ [Next]_vars => WorkInv'
<1> SUFFICES ASSUME Inv, WorkInv, [Next]_vars PROVE WorkInv'
  OBVIOUS
<1>1. /\ part = [p \in Partitions |-> part[p]] /\ \A p \in Partitions : IsPartition(part[p])
      /\ consumers \in Seq(Consumers) /\ Len(consumers) \in Nat /\ NumParts \in Nat
  BY NumPartsAssumption DEF Inv, TypeInv
<1>2. CASE UNCHANGED <<opened, consumers, part>>
  BY <1>2, WorkSame
<1>3. ASSUME NEW p \in Partitions, Receive(p)
      PROVE  WorkInv'
  <2>1. /\ part' = [part EXCEPT ![p] = [part[p] EXCEPT !.nextMsg = part[p].read, !.read = @ + 1]]
        /\ UNCHANGED <<opened, consumers>>
    BY <1>1, <1>3 DEF Receive
  <2>2. [part[p] EXCEPT !.nextMsg = part[p].read, !.read = @ + 1].child = part[p].child
    BY <1>1 DEF IsPartition
  <2>3. \A q \in Partitions : part'[q].child = part[q].child
    BY <1>1, <2>1, <2>2
  <2> QED
    BY <2>1, <2>3, WorkSame
<1>4. ASSUME NEW p \in Partitions, Hand(p)
      PROVE  WorkInv'
  <2>1. part' = [part EXCEPT ![p] = [part[p] EXCEPT !.nextMsg = NoMessage]] /\ UNCHANGED <<opened, consumers>>
    BY <1>1, <1>4 DEF Hand
  <2>2. [part[p] EXCEPT !.nextMsg = NoMessage].child = part[p].child
    BY <1>1 DEF IsPartition
  <2>3. \A q \in Partitions : part'[q].child = part[q].child
    BY <1>1, <2>1, <2>2
  <2> QED
    BY <2>1, <2>3, WorkSame
<1>5. ASSUME NEW c \in Consumers, FetchNext(c)
      PROVE  WorkInv'
  <2> DEFINE p == got[c].part
             o == got[c].msg
  <2>1. part' = (IF opened THEN [part EXCEPT ![p] = [part[p] EXCEPT !.offset = o]] ELSE part)
        /\ UNCHANGED <<opened, consumers>>
    BY <1>1, <1>5 DEF FetchNext
  <2>2. p \in Partitions
    BY <1>5 DEF FetchNext, Inv, TypeInv, Received
  <2> HIDE DEF p, o
  <2>3. [part[p] EXCEPT !.offset = o].child = part[p].child
    BY <1>1, <2>2 DEF IsPartition
  <2>4. \A q \in Partitions : part'[q].child = part[q].child
    BY <1>1, <2>1, <2>2, <2>3
  <2> QED
    BY <2>1, <2>4, WorkSame
<1>6. ASSUME NEW c \in Consumers, NewConsumer(c)
      PROVE  WorkInv'
  <2> DEFINE at == [p \in Partitions |-> IF rows[p] = NoOffset THEN end[p] ELSE rows[p]]
             fresh == [p \in Partitions |-> FreshPartition(at[p])]
  <2>1. opened' /\ consumers' = Append(consumers, c) /\ Len(consumers) < NumParts /\ InitTopicConsumer
    BY <1>6 DEF NewConsumer
  <2>2. consumers' \in Seq(Consumers) /\ Len(consumers') \in 1 .. NumParts
    <3>1. consumers' \in Seq(Consumers) /\ Len(consumers') = Len(consumers) + 1
      BY <1>1, <2>1
    <3> QED
      BY <1>1, <2>1, <3>1
  <2>3. part' = Redistributed(part, consumers') \/ part' = Redistributed(fresh, consumers')
    BY <2>1 DEF InitTopicConsumer
  <2>4. \A p \in Partitions : IsPartition(fresh[p])
    <3>1. at \in [Partitions -> Nat]
      BY DEF Inv, TypeInv
    <3> HIDE DEF at
    <3> QED
      BY <3>1 DEF FreshPartition, IsPartition, NoMessage, NoOffset
  <2> HIDE DEF fresh
  <2>5. {part'[p].child : p \in Partitions} = Range(consumers')
    <3> DEFINE cs == consumers'
    <3>1. cs \in Seq(Consumers) /\ Len(cs) \in 1 .. NumParts
      BY <2>2
    <3>2. part' = Redistributed(part, cs) \/ part' = Redistributed(fresh, cs)
      BY <2>3
    <3> HIDE DEF cs
    <3>3. {Redistributed(part, cs)[p].child : p \in Partitions} = Range(cs)
      BY <1>1, <3>1, SharedOut
    <3>4. {Redistributed(fresh, cs)[p].child : p \in Partitions} = Range(cs)
      BY <2>4, <3>1, SharedOut
    <3>5. {part'[p].child : p \in Partitions} = Range(cs)
      BY <3>2, <3>3, <3>4
    <3> QED
      BY <3>5 DEF cs
  <2> QED
    BY <2>1, <2>2, <2>5 DEF WorkInv, Active
<1>7. ASSUME NEW c \in Consumers, NEW b \in BOOLEAN, c \in Active, Leave(c, b)
      PROVE  WorkInv'
  <2>1. /\ c \in Active /\ consumers' = Removed(consumers, c) /\ (opened' <=> Len(consumers) > 1)
        /\ part' = IF opened' THEN Redistributed(part, consumers') ELSE part
    BY <1>7 DEF Leave
  <2>2. Len(consumers) > 0
    BY <1>1, <2>1 DEF Active, Range
  <2>3. consumers' \in Seq(Consumers) /\ Len(consumers') = Len(consumers) - 1
    BY <1>1, <2>1, <2>2, RemovedType
  <2>4. opened /\ Len(consumers) \in 1 .. NumParts
    BY <2>2 DEF WorkInv
  <2>5. CASE opened'
    <3>1. Len(consumers') \in 1 .. NumParts
      BY <1>1, <2>1, <2>3, <2>4, <2>5
    <3>2. {part'[p].child : p \in Partitions} = Range(consumers')
      <4> DEFINE cs == consumers'
      <4>1. cs \in Seq(Consumers) /\ Len(cs) \in 1 .. NumParts /\ part' = Redistributed(part, cs)
        BY <2>1, <2>3, <2>5, <3>1
      <4> HIDE DEF cs
      <4>2. {Redistributed(part, cs)[p].child : p \in Partitions} = Range(cs)
        BY <1>1, <4>1, SharedOut
      <4>3. {part'[p].child : p \in Partitions} = Range(cs)
        BY <4>1, <4>2
      <4> QED
        BY <4>3 DEF cs
    <3> QED
      BY <2>5, <3>1, <3>2 DEF WorkInv, Active
  <2>6. CASE ~opened'
    <3>1. Len(consumers') = 0
      BY <1>1, <2>1, <2>2, <2>3, <2>6
    <3> QED
      BY <2>6, <3>1 DEF WorkInv
  <2> QED
    BY <2>5, <2>6
<1>8. ASSUME NEW p \in Partitions, Produce(p)
      PROVE  WorkInv'
  BY <1>2, <1>8 DEF Produce
<1>9. ASSUME NEW c \in Consumers, SaveOffset(c)
      PROVE  WorkInv'
  BY <1>2, <1>9 DEF SaveOffset
<1>10. CASE UNCHANGED vars
  BY <1>2, <1>10 DEF vars
<1>11. ASSUME NEW c \in Consumers, NEW b \in BOOLEAN, CloseConsumer(c, b)
       PROVE  WorkInv'
  <2>1. c \in Active /\ (Leave(c, b) \/ StayBehind(c, b))
    BY <1>11 DEF CloseConsumer
  <2>2. CASE StayBehind(c, b)
    BY <1>2, <2>2 DEF StayBehind
  <2> QED
    BY <1>7, <2>1, <2>2
<1>12. ASSUME Crash
       PROVE  WorkInv'
  <2>1. ~opened' /\ Len(consumers') = 0
    BY <1>12 DEF Crash
  <2> QED
    BY <2>1 DEF WorkInv
<1>13. ASSUME NEW c \in Consumers, Close(c) \/ CloseOnFailure(c)
       PROVE  WorkInv'
  BY <1>11, <1>13 DEF Close, CloseOnFailure
<1> QED
  BY <1>3, <1>4, <1>5, <1>6, <1>8, <1>9, <1>10, <1>12, <1>13 DEF Next

LEMMA InitWork == Init => WorkInv
<1> SUFFICES ASSUME Init PROVE WorkInv
  OBVIOUS
<1>1. Len(consumers) = 0 /\ ~opened
  BY DEF Init
<1> QED
  BY <1>1 DEF WorkInv

\* However consumers join and leave, the loop leaves none of them without a
\* partition and gives no partition to nobody, for any number of partitions
\* (kafka.go, redistributeConsumers, with NewConsumer and closeConsumer).
THEOREM EveryoneWorks == Spec => []EveryConsumerWorks
<1>1. SharesOut
  <2> SUFFICES ASSUME NEW n \in 1 .. MaxParts, NEW k \in 1 .. n
               PROVE  {Distribution(n, k)[i] : i \in 0 .. n - 1} = 0 .. k - 1
    BY DEF SharesOut
  <2>1. n \in Nat
    BY MaxPartsAssumption
  <2> QED
    BY <2>1, DistributionOk
<1>2. WorkInv => EveryConsumerWorks
  BY <1>1 DEF WorkInv, EveryConsumerWorks
<1>3. Inv /\ WorkInv /\ [Next]_vars => (Inv /\ WorkInv)'
  BY NextInv, WorkNext
<1>4. Init => Inv /\ WorkInv
  BY InitInv, InitWork
<1> QED
  BY <1>2, <1>3, <1>4, PTL DEF Spec

=============================================================================
