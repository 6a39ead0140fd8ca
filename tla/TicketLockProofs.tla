---------------------------- MODULE TicketLockProofs ----------------------------
(***************************************************************************)
(* Mutual exclusion of the ticket lock, for any number of clients, names,  *)
(* tickets and sessions.  The invariant adds to BeliefIsTrue that clients  *)
(* never share a session and that only sessions the server knows own       *)
(* tickets; NoHiddenTicket is inductive with it, and says that a session   *)
(* owns nothing while its client is still in the loop of Lock, which is    *)
(* what makes the loop's re-entrant GET_LOCK harmless.                     *)
(***************************************************************************)
EXTENDS TicketLock, TLAPS

SessionsInv ==
    /\ \A c, d \in Clients : c # d /\ sess[c] # None => sess[c] # sess[d]
    /\ \A key \in Keys : owner[key] # None => owner[key] \in alive

\* A client that holds the lock or is in the loop has named it.
NameInv == \A c \in Clients : pc[c] = "lock" \/ held[c] => name[c] \in Names

Inv == TypeOK /\ SessionsInv /\ NoHiddenTicket /\ BeliefIsTrue /\ NameInv

USE NTicketsAssumption, NoneAssumption

LEMMA InitInv == Init => Inv
  BY DEF Init, Inv, TypeOK, SessionsInv, NoHiddenTicket, BeliefIsTrue, NameInv, Valid, Holds, Keys

\* The session a query runs on is known to the server, is nobody else's, and
\* if it was opened for the query it owns nothing.
LEMMA OnSessionFacts ==
    ASSUME TypeOK, SessionsInv, NEW c \in Clients, NEW s \in Sessions, OnSession(c, s)
    PROVE  /\ sess' = [sess EXCEPT ![c] = s] /\ sess' \in [Clients -> Sessions \cup {None}]
           /\ sess'[c] = s /\ \A d \in Clients : d # c => sess'[d] = sess[d] /\ sess[d] # s
           /\ alive' \subseteq Sessions /\ alive \subseteq alive' /\ s \in alive'
           /\ \A d \in Clients : d # c => (sess[d] \in alive' <=> sess[d] \in alive)
           /\ s # sess[c] => \A key \in Keys : owner[key] # s
           /\ Valid(c) => s = sess[c]
           /\ \A d, e \in Clients : d # e /\ sess'[d] # None => sess'[d] # sess'[e]
  <1>1. sess' = [sess EXCEPT ![c] = s] /\ sess \in [Clients -> Sessions \cup {None}]
        /\ alive \subseteq Sessions
    BY DEF OnSession, TypeOK
  <1>2. sess' \in [Clients -> Sessions \cup {None}] /\ sess'[c] = s
        /\ \A d \in Clients : d # c => sess'[d] = sess[d]
    BY <1>1
  <1>3. CASE Valid(c) /\ s = sess[c] /\ UNCHANGED alive
    BY <1>1, <1>2, <1>3 DEF SessionsInv, Valid
  <1>4. CASE /\ ~Valid(c)
             /\ s \in Sessions \ (alive \cup {sess[d] : d \in Clients})
             /\ alive' = alive \cup {s}
    BY <1>1, <1>2, <1>4 DEF SessionsInv, Valid
  <1> QED BY <1>3, <1>4 DEF OnSession

\* While c is in the loop its live session owns nothing.
LEMMA LoopOwnsNothing ==
    ASSUME Inv, NEW c \in Clients, pc[c] = "lock", Valid(c), NEW key \in Keys
    PROVE  owner[key] # sess[c]
  BY DEF Inv, NoHiddenTicket

LEMMA GrantedInv ==
    ASSUME Inv, NEW c \in Clients, pc[c] = "lock", n[c] < NTickets, Granted(c) PROVE Inv'
  <1> USE DEF Inv
  <1> DEFINE k == <<name[c], n[c]>>
  <1>1. PICK s \in Sessions :
            /\ OnSession(c, s)
            /\ Grantable(k, s)
            /\ owner' = [owner EXCEPT ![k] = s]
            /\ connected' = [connected EXCEPT ![c] = TRUE]
            /\ Return(c, TRUE)
            /\ UNCHANGED <<name, n>>
    BY DEF Granted
  <1>2. k \in Keys /\ n[c] \in Tickets
    BY DEF TypeOK, NameInv, Keys, Tickets
  <1>3. /\ sess' \in [Clients -> Sessions \cup {None}]
        /\ sess'[c] = s /\ \A d \in Clients : d # c => sess'[d] = sess[d] /\ sess[d] # s
        /\ alive' \subseteq Sessions /\ alive \subseteq alive' /\ s \in alive'
        /\ \A d \in Clients : d # c => (sess[d] \in alive' <=> sess[d] \in alive)
        /\ s # sess[c] => \A key \in Keys : owner[key] # s
        /\ Valid(c) => s = sess[c]
        /\ \A d, e \in Clients : d # e /\ sess'[d] # None => sess'[d] # sess'[e]
    BY <1>1, OnSessionFacts
  <1>4. /\ owner' \in [Keys -> Sessions \cup {None}] /\ owner'[k] = s
        /\ \A key \in Keys : key # k => owner'[key] = owner[key]
    BY <1>1, <1>2 DEF TypeOK
  <1>5. /\ pc' = [pc EXCEPT ![c] = "idle"] /\ held' = [held EXCEPT ![c] = TRUE]
        /\ name' = name /\ n' = n
    BY <1>1 DEF Return
  <1>6. /\ pc'[c] = "idle" /\ held'[c]
        /\ \A d \in Clients : d # c => pc'[d] = pc[d] /\ held'[d] = held[d]
    BY <1>5 DEF TypeOK
  <1>8. \A key \in Keys : owner[key] # s
    <2> SUFFICES ASSUME NEW key \in Keys, owner[key] = s PROVE FALSE
      OBVIOUS
    <2>1. s = sess[c] /\ s \in alive
      BY <1>3, NoneAssumption DEF SessionsInv
    <2> QED BY <2>1, LoopOwnsNothing DEF Valid
  <1>9. owner[k] = None
    BY <1>1, <1>2, <1>8 DEF Grantable
  <1>10. TypeOK'
    <2>1. connected' \in [Clients -> BOOLEAN]
      BY <1>1 DEF TypeOK
    <2>2. pc' \in [Clients -> {"idle", "lock", "dropped"}] /\ held' \in [Clients -> BOOLEAN]
      BY <1>5 DEF TypeOK
    <2> QED BY <2>1, <2>2, <1>3, <1>4, <1>5 DEF TypeOK
  <1>11. SessionsInv'
    BY <1>3, <1>4 DEF SessionsInv
  <1>12. NoHiddenTicket'
    BY <1>2, <1>3, <1>4, <1>5, <1>6, <1>8 DEF NoHiddenTicket, Valid
  <1>13. BeliefIsTrue'
    <2> SUFFICES ASSUME NEW d \in Clients, Holds(d)'
                 PROVE  n'[d] < NTickets /\ owner'[<<name'[d], n'[d]>>] = sess'[d]
      BY DEF BeliefIsTrue
    <2>1. CASE d = c
      BY <2>1, <1>3, <1>4, <1>5
    <2>2. CASE d # c
      <3>1. Holds(d) /\ sess'[d] = sess[d] /\ sess[d] \in alive
        BY <2>2, <1>3, <1>6 DEF Holds, Valid
      <3>2. n[d] < NTickets /\ owner[<<name[d], n[d]>>] = sess[d]
        BY <3>1 DEF BeliefIsTrue
      <3>3. owner[k] # sess[d]
        BY <1>9, <3>1, NoneAssumption DEF TypeOK
      <3>4. <<name[d], n[d]>> # k
        BY <3>2, <3>3
      <3>5. <<name[d], n[d]>> \in Keys
        BY <3>1, <3>2 DEF TypeOK, Keys, Tickets, NameInv, Holds
      <3> QED BY <3>1, <3>2, <3>4, <3>5, <1>4, <1>5
    <2> QED BY <2>1, <2>2
  <1>14. NameInv'
    BY <1>5, <1>6 DEF NameInv
  <1> QED BY <1>10, <1>11, <1>12, <1>13, <1>14

\* A step that leaves the server's table and every other client alone, and
\* after which c either holds nothing new or is in the loop.
LEMMA QuietInv ==
    ASSUME Inv, NEW c \in Clients, TypeOK', UNCHANGED owner,
           alive \subseteq alive',
           \A d \in Clients : d # c =>
               /\ sess'[d] = sess[d] /\ (sess[d] \in alive' <=> sess[d] \in alive)
               /\ name'[d] = name[d] /\ n'[d] = n[d] /\ held'[d] = held[d] /\ pc'[d] = pc[d],
           \A d \in Clients : d # c /\ sess'[c] # None => sess'[c] # sess'[d],
           \A key \in Keys : Valid(c)' => owner[key] # sess'[c],
           ~Holds(c)',
           pc'[c] = "lock" \/ held'[c] => name'[c] \in Names
    PROVE  Inv'
  <1> USE DEF Inv
  <1>1. SessionsInv'
    BY DEF SessionsInv
  <1>2. NoHiddenTicket'
    BY DEF NoHiddenTicket, Valid
  <1>3. BeliefIsTrue'
    <2> SUFFICES ASSUME NEW d \in Clients, Holds(d)'
                 PROVE  n'[d] < NTickets /\ owner'[<<name'[d], n'[d]>>] = sess'[d]
      BY DEF BeliefIsTrue
    <2>1. d # c
      OBVIOUS
    <2>2. Holds(d)
      BY <2>1 DEF Holds, Valid
    <2> QED BY <2>1, <2>2 DEF BeliefIsTrue
  <1>4. NameInv'
    BY DEF NameInv
  <1> QED BY <1>1, <1>2, <1>3, <1>4

LEMMA NotGrantedInv ==
    ASSUME Inv, NEW c \in Clients, pc[c] = "lock", n[c] < NTickets, NotGranted(c) PROVE Inv'
  <1> USE DEF Inv
  <1>1. PICK s \in Sessions :
            /\ OnSession(c, s)
            /\ connected' = [connected EXCEPT ![c] = TRUE]
            /\ NextTicket(c)
            /\ UNCHANGED <<owner, name, held, pc>>
    BY DEF NotGranted
  <1>2. /\ sess' \in [Clients -> Sessions \cup {None}]
        /\ sess'[c] = s /\ \A d \in Clients : d # c => sess'[d] = sess[d] /\ sess[d] # s
        /\ alive' \subseteq Sessions /\ alive \subseteq alive' /\ s \in alive'
        /\ \A d \in Clients : d # c => (sess[d] \in alive' <=> sess[d] \in alive)
        /\ s # sess[c] => \A key \in Keys : owner[key] # s
        /\ Valid(c) => s = sess[c]
        /\ \A d, e \in Clients : d # e /\ sess'[d] # None => sess'[d] # sess'[e]
    BY <1>1, OnSessionFacts
  <1>3. n' \in [Clients -> 0 .. NTickets] /\ \A d \in Clients : d # c => n'[d] = n[d]
    BY <1>1 DEF NextTicket, TypeOK
  <1>4. connected' \in [Clients -> BOOLEAN]
    BY <1>1 DEF TypeOK
  <1>5. TypeOK'
    BY <1>1, <1>2, <1>3, <1>4 DEF TypeOK
  <1>6. \A key \in Keys : owner[key] # s
    <2> SUFFICES ASSUME NEW key \in Keys, owner[key] = s PROVE FALSE
      OBVIOUS
    <2>1. s = sess[c] /\ s \in alive
      BY <1>2, NoneAssumption DEF SessionsInv
    <2> QED BY <2>1, LoopOwnsNothing DEF Valid
  <1>7. ~Holds(c)' /\ (pc'[c] = "lock" \/ held'[c] => name'[c] \in Names)
    BY <1>1 DEF Holds, NameInv
  <1> QED BY <1>1, <1>2, <1>3, <1>5, <1>6, <1>7, QuietInv

\* closeConn leaves the client without a session.
LEMMA CloseConnFacts ==
    ASSUME Inv, NEW c \in Clients, CloseConn(c)
    PROVE  /\ connected' \in [Clients -> BOOLEAN]
           /\ sess' \in [Clients -> Sessions \cup {None}]
           /\ sess'[c] = None /\ \A d \in Clients : d # c => sess'[d] = sess[d]
  BY DEF Inv, TypeOK, CloseConn

LEMMA LockErrorInv ==
    ASSUME Inv, NEW c \in Clients, pc[c] = "lock", n[c] < NTickets, LockError(c) PROVE Inv'
  <1> USE DEF Inv
  <1> DEFINE k == <<name[c], n[c]>>
  <1>1. /\ connected' \in [Clients -> BOOLEAN]
        /\ sess' \in [Clients -> Sessions \cup {None}]
        /\ sess'[c] = None /\ \A d \in Clients : d # c => sess'[d] = sess[d]
    BY CloseConnFacts DEF LockError
  <1>2. n' \in [Clients -> 0 .. NTickets] /\ \A d \in Clients : d # c => n'[d] = n[d]
    BY DEF LockError, NextTicket, TypeOK
  <1>3. UNCHANGED <<alive, name, held, pc>>
    BY DEF LockError
  <1>4. ~Valid(c)' /\ ~Holds(c)'
    BY <1>1, <1>3, NoneAssumption DEF Valid, Holds, TypeOK
  <1>5. CASE UNCHANGED owner
    <2>1. TypeOK'
      BY <1>1, <1>2, <1>3, <1>5 DEF TypeOK
    <2>2. pc'[c] = "lock" \/ held'[c] => name'[c] \in Names
      BY <1>3 DEF NameInv
    <2> QED BY <1>1, <1>2, <1>3, <1>4, <1>5, <2>1, <2>2, QuietInv
  <1>6. CASE /\ Valid(c) /\ Grantable(k, sess[c])
             /\ owner' = [owner EXCEPT ![k] = sess[c]]
    <2>1. k \in Keys
      BY DEF TypeOK, NameInv, Keys, Tickets
    <2>2. owner[k] = None
      BY <1>6, <2>1, LoopOwnsNothing DEF Grantable
    <2>3. /\ owner' \in [Keys -> Sessions \cup {None}] /\ owner'[k] = sess[c]
          /\ \A key \in Keys : key # k => owner'[key] = owner[key]
      BY <1>6, <2>1 DEF TypeOK
    <2>4. TypeOK'
      BY <1>1, <1>2, <1>3, <2>3 DEF TypeOK
    <2>5. SessionsInv'
      BY <1>1, <1>3, <1>6, <2>3 DEF SessionsInv, Valid
    <2>6. NoHiddenTicket'
      <3> SUFFICES ASSUME NEW d \in Clients, NEW key \in Keys, Valid(d)', owner'[key] = sess'[d]
                   PROVE  /\ key = <<name'[d], n'[d]>>
                          /\ (pc'[d] = "idle" /\ held'[d]) \/ pc'[d] = "dropped"
        BY DEF NoHiddenTicket
      <3>1. d # c /\ sess'[d] = sess[d] /\ Valid(d)
        BY <1>1, <1>3, <1>4 DEF Valid
      <3>2. sess[d] # sess[c]
        BY <1>6, <3>1, NoneAssumption DEF SessionsInv, Valid, TypeOK
      <3>3. key # k /\ owner[key] = sess[d]
        BY <2>3, <3>1, <3>2
      <3> QED BY <1>2, <1>3, <3>1, <3>3 DEF NoHiddenTicket
    <2>7. BeliefIsTrue'
      <3> SUFFICES ASSUME NEW d \in Clients, Holds(d)'
                   PROVE  n'[d] < NTickets /\ owner'[<<name'[d], n'[d]>>] = sess'[d]
        BY DEF BeliefIsTrue
      <3>1. d # c /\ sess'[d] = sess[d] /\ Holds(d)
        BY <1>1, <1>3, <1>4 DEF Holds, Valid
      <3>2. n[d] < NTickets /\ owner[<<name[d], n[d]>>] = sess[d] /\ sess[d] # None
        BY <3>1, NoneAssumption DEF BeliefIsTrue, Holds, Valid, TypeOK
      <3>3. <<name[d], n[d]>> \in Keys
        BY <3>1, <3>2 DEF TypeOK, Keys, Tickets, NameInv, Holds
      <3> QED BY <1>2, <1>3, <2>2, <2>3, <3>1, <3>2, <3>3
    <2>8. NameInv'
      BY <1>3 DEF NameInv
    <2> QED BY <2>4, <2>5, <2>6, <2>7, <2>8
  <1> QED BY <1>5, <1>6 DEF LockError

\* A return with FALSE gives up nothing: in the loop c owns nothing.
LEMMA ReturnFalseInv ==
    ASSUME Inv, NEW c \in Clients, pc[c] = "lock", Return(c, FALSE),
           UNCHANGED <<serverVars, connVars, name, n>>
    PROVE  Inv'
  <1> USE DEF Inv
  <1>1. UNCHANGED <<owner, alive, connected, sess, name, n>>
    BY DEF serverVars, connVars
  <1>2. pc' \in [Clients -> {"idle", "lock", "dropped"}] /\ held' \in [Clients -> BOOLEAN]
    BY DEF Return, TypeOK
  <1>3. /\ ~held'[c] /\ pc'[c] = "idle"
        /\ \A d \in Clients : d # c => pc'[d] = pc[d] /\ held'[d] = held[d]
    BY DEF Return, TypeOK
  <1>4. TypeOK'
    BY <1>1, <1>2 DEF TypeOK
  <1>5. \A key \in Keys : Valid(c)' => owner[key] # sess'[c]
    BY <1>1, LoopOwnsNothing DEF Valid
  <1>6. ~Holds(c)'
    BY <1>3 DEF Holds
  <1>7. \A d \in Clients : d # c /\ sess'[c] # None => sess'[c] # sess'[d]
    BY <1>1 DEF SessionsInv
  <1> QED BY <1>1, <1>3, <1>4, <1>5, <1>6, <1>7, QuietInv

LEMMA LockStepInv == ASSUME Inv, NEW c \in Clients, LockStep(c) PROVE Inv'
  BY GrantedInv, NotGrantedInv, LockErrorInv, ReturnFalseInv DEF LockStep

LEMMA TryLockInv == ASSUME Inv, NEW c \in Clients, TryLock(c) PROVE Inv'
  <1> USE DEF Inv
  <1>1. PICK x \in Names : EnterLock(c, x)
    BY DEF TryLock
  <1>2. pc[c] = "idle" /\ ~held[c] /\ UNCHANGED <<owner, alive, connected, sess, held>>
    BY DEF TryLock, serverVars, connVars
  <1>3. /\ name' \in [Clients -> Names \cup {None}] /\ n' \in [Clients -> 0 .. NTickets]
        /\ pc' \in [Clients -> {"idle", "lock", "dropped"}]
    BY <1>1 DEF EnterLock, TypeOK
  <1>4. /\ name'[c] = x /\ pc'[c] = "lock"
        /\ \A d \in Clients : d # c => name'[d] = name[d] /\ n'[d] = n[d] /\ pc'[d] = pc[d]
    BY <1>1 DEF EnterLock, TypeOK
  <1>5. TypeOK'
    BY <1>2, <1>3 DEF TypeOK
  <1>6. \A key \in Keys : Valid(c)' => owner[key] # sess'[c]
    BY <1>2 DEF NoHiddenTicket, Valid
  <1>7. ~Holds(c)'
    BY <1>4 DEF Holds
  <1>8. \A d \in Clients : d # c /\ sess'[c] # None => sess'[c] # sess'[d]
    BY <1>2 DEF SessionsInv
  <1> QED BY <1>2, <1>4, <1>5, <1>6, <1>7, <1>8, QuietInv

\* A client that drops its session and its claim, or goes back to the loop.
LEMMA DropSessionInv ==
    ASSUME Inv, NEW c \in Clients, TypeOK', UNCHANGED <<owner, alive>>,
           sess'[c] = None,
           \A d \in Clients : d # c =>
               /\ sess'[d] = sess[d] /\ name'[d] = name[d] /\ n'[d] = n[d]
               /\ held'[d] = held[d] /\ pc'[d] = pc[d],
           pc'[c] = "lock" \/ held'[c] => name'[c] \in Names
    PROVE  Inv'
  <1>1. ~Valid(c)' /\ ~Holds(c)'
    BY NoneAssumption DEF Valid, Holds, Inv, TypeOK
  <1> QED BY <1>1, QuietInv

LEMMA RefreshInv == ASSUME Inv, NEW c \in Clients, Refresh(c) PROVE Inv'
  <1> USE DEF Inv
  <1>0. pc[c] = "idle" /\ held[c] /\ name[c] \in Names
    BY DEF Refresh, NameInv
  <1>1. ASSUME EnterLock(c, name[c])
        PROVE  /\ name' \in [Clients -> Names \cup {None}] /\ n' \in [Clients -> 0 .. NTickets]
               /\ pc' \in [Clients -> {"idle", "lock", "dropped"}]
               /\ name'[c] = name[c] /\ pc'[c] = "lock"
               /\ \A d \in Clients : d # c => name'[d] = name[d] /\ n'[d] = n[d] /\ pc'[d] = pc[d]
    BY <1>0, <1>1 DEF EnterLock, TypeOK
  <1>2. ASSUME NEW s \in Sessions, OnSession(c, s), UNCHANGED <<owner, connected>>,
               IsMine(c, s), UNCHANGED lockVars
        PROVE  Inv'
    <2>1. <<name[c], n[c]>> \in Keys /\ owner[<<name[c], n[c]>>] = s
      BY <1>0, <1>2 DEF IsMine, Keys, Tickets, TypeOK
    <2>2. s = sess[c]
      BY <1>2, <2>1, OnSessionFacts
    <2>3. sess' = sess /\ alive' = alive
      BY <1>2, <2>2 DEF OnSession, TypeOK
    <2> QED BY <1>2, <2>3
        DEF lockVars, TypeOK, SessionsInv, NoHiddenTicket, BeliefIsTrue, NameInv, Valid, Holds
  <1>3. ASSUME NEW s \in Sessions, OnSession(c, s), UNCHANGED <<owner, connected>>,
               ~IsMine(c, s), EnterLock(c, name[c]), UNCHANGED held
        PROVE  Inv'
    <2>1. /\ sess' \in [Clients -> Sessions \cup {None}]
          /\ sess'[c] = s /\ \A d \in Clients : d # c => sess'[d] = sess[d] /\ sess[d] # s
          /\ alive' \subseteq Sessions /\ alive \subseteq alive' /\ s \in alive'
          /\ \A d \in Clients : d # c => (sess[d] \in alive' <=> sess[d] \in alive)
          /\ s # sess[c] => \A key \in Keys : owner[key] # s
          /\ Valid(c) => s = sess[c]
          /\ \A d, e \in Clients : d # e /\ sess'[d] # None => sess'[d] # sess'[e]
      BY <1>3, OnSessionFacts
    <2>2. TypeOK'
      BY <1>1, <1>3, <2>1 DEF TypeOK
    <2>3. \A key \in Keys : owner[key] # s
      <3> SUFFICES ASSUME NEW key \in Keys, owner[key] = s PROVE FALSE
        OBVIOUS
      <3>1. s = sess[c] /\ s \in alive
        BY <2>1, NoneAssumption DEF SessionsInv
      <3>2. IsMine(c, s)
        BY <1>0, <3>1 DEF BeliefIsTrue, Holds, Valid, IsMine
      <3> QED BY <1>3, <3>2
    <2>4. ~Holds(c)'
      BY <1>1, <1>3 DEF Holds
    <2> QED BY <1>0, <1>1, <1>3, <2>1, <2>2, <2>3, <2>4, QuietInv
  <1>4. ASSUME CloseConn(c), EnterLock(c, name[c]), UNCHANGED <<serverVars, held>>
        PROVE  Inv'
    <2>1. /\ connected' \in [Clients -> BOOLEAN]
          /\ sess' \in [Clients -> Sessions \cup {None}]
          /\ sess'[c] = None /\ \A d \in Clients : d # c => sess'[d] = sess[d]
      BY <1>4, CloseConnFacts
    <2>2. TypeOK'
      BY <1>1, <1>4, <2>1 DEF TypeOK, serverVars
    <2> QED BY <1>0, <1>1, <1>4, <2>1, <2>2, DropSessionInv DEF serverVars
  <1> QED BY <1>2, <1>3, <1>4 DEF Refresh

LEMMA UnlockInv == ASSUME Inv, NEW c \in Clients, Unlock(c) PROVE Inv'
  <1> USE DEF Inv
  <1> DEFINE k == <<name[c], n[c]>>
  <1>1. pc[c] = "idle" /\ held[c] /\ UNCHANGED <<connected, name, n>>
    BY DEF Unlock
  <1>2. /\ held' \in [Clients -> BOOLEAN] /\ ~held'[c]
        /\ \A d \in Clients : d # c => held'[d] = held[d]
    BY DEF Unlock, TypeOK
  <1>4. ASSUME UnlockError(c) PROVE Inv'
    <2>1. /\ sess' \in [Clients -> Sessions \cup {None}]
          /\ sess'[c] \in {sess[c], None} /\ \A d \in Clients : d # c => sess'[d] = sess[d]
      BY <1>4 DEF UnlockError, TypeOK
    <2>2. /\ pc' \in [Clients -> {"idle", "lock", "dropped"}] /\ pc'[c] = "dropped"
          /\ \A d \in Clients : d # c => pc'[d] = pc[d]
      BY <1>4 DEF UnlockError, TypeOK
    <2>3. /\ owner' \in [Keys -> Sessions \cup {None}]
          /\ \A key \in Keys : owner'[key] = owner[key] \/ (owner'[key] = None /\ owner[key] = sess[c])
      <3>1. CASE owner' = owner
        BY <3>1 DEF TypeOK
      <3>2. CASE owner' = Released(c, sess[c])
        BY <3>2 DEF Released, IsMine, TypeOK
      <3> QED BY <1>4, <3>1, <3>2 DEF UnlockError
    <2>4. UNCHANGED alive /\ alive \subseteq Sessions
      BY <1>4 DEF UnlockError, TypeOK
    <2>5. TypeOK'
      BY <1>1, <1>2, <2>1, <2>2, <2>3, <2>4 DEF TypeOK
    <2>6. SessionsInv'
      BY <2>1, <2>3, <2>4 DEF SessionsInv
    <2>7. NoHiddenTicket'
      <3> SUFFICES ASSUME NEW d \in Clients, NEW key \in Keys, Valid(d)', owner'[key] = sess'[d]
                   PROVE  /\ key = <<name'[d], n'[d]>>
                          /\ (pc'[d] = "idle" /\ held'[d]) \/ pc'[d] = "dropped"
        BY DEF NoHiddenTicket
      <3>1. sess'[d] = sess[d] /\ sess[d] # None /\ owner[key] = sess[d] /\ Valid(d)
        BY <2>1, <2>3, <2>4, NoneAssumption DEF Valid
      <3>2. key = <<name'[d], n'[d]>> /\ ((pc[d] = "idle" /\ held[d]) \/ pc[d] = "dropped")
        BY <1>1, <3>1 DEF NoHiddenTicket
      <3> QED BY <1>2, <2>2, <3>2
    <2>8. BeliefIsTrue'
      <3> SUFFICES ASSUME NEW d \in Clients, Holds(d)'
                   PROVE  n'[d] < NTickets /\ owner'[<<name'[d], n'[d]>>] = sess'[d]
        BY DEF BeliefIsTrue
      <3>1. d # c /\ sess'[d] = sess[d] /\ sess[d] # None /\ Holds(d)
        BY <1>2, <2>1, <2>2, <2>4, NoneAssumption DEF Holds, Valid
      <3>2. n[d] < NTickets /\ owner[<<name[d], n[d]>>] = sess[d] /\ sess[d] # sess[c]
        BY <3>1 DEF BeliefIsTrue, SessionsInv
      <3>3. <<name[d], n[d]>> \in Keys
        BY <3>1, <3>2 DEF TypeOK, Keys, Tickets, NameInv, Holds
      <3> QED BY <1>1, <2>3, <3>1, <3>2, <3>3
    <2>9. NameInv'
      BY <1>1, <1>2, <2>2 DEF NameInv
    <2> QED BY <2>5, <2>6, <2>7, <2>8, <2>9
  <1>5. ASSUME NEW s \in Sessions, OnSession(c, s), UNCHANGED pc,
               owner' = Released(c, s)
        PROVE  Inv'
    <2>1. /\ sess' \in [Clients -> Sessions \cup {None}]
          /\ sess'[c] = s /\ \A d \in Clients : d # c => sess'[d] = sess[d] /\ sess[d] # s
          /\ alive' \subseteq Sessions /\ alive \subseteq alive' /\ s \in alive'
          /\ \A d \in Clients : d # c => (sess[d] \in alive' <=> sess[d] \in alive)
          /\ s # sess[c] => \A key \in Keys : owner[key] # s
          /\ Valid(c) => s = sess[c]
          /\ \A d, e \in Clients : d # e /\ sess'[d] # None => sess'[d] # sess'[e]
      BY <1>5, OnSessionFacts
    <2>2. \A key \in Keys : owner[key] = s => key = k /\ IsMine(c, s)
      <3> SUFFICES ASSUME NEW key \in Keys, owner[key] = s PROVE key = k /\ IsMine(c, s)
        OBVIOUS
      <3>1. s = sess[c] /\ Valid(c)
        BY <2>1, NoneAssumption DEF SessionsInv, Valid
      <3>2. key = k
        BY <3>1 DEF NoHiddenTicket
      <3>3. IsMine(c, s)
        BY <1>1, <3>1 DEF BeliefIsTrue, Holds, IsMine
      <3> QED BY <3>2, <3>3
    <2>3. /\ owner' \in [Keys -> Sessions \cup {None}]
          /\ \A key \in Keys : owner'[key] = IF owner[key] = s THEN None ELSE owner[key]
      <3>1. CASE IsMine(c, s)
        <4>1. owner' = [owner EXCEPT ![k] = None] /\ owner[k] = s
          BY <1>5, <3>1 DEF IsMine, Released
        <4> QED BY <2>2, <4>1 DEF TypeOK
      <3>2. CASE ~IsMine(c, s)
        BY <1>5, <2>2, <3>2 DEF TypeOK, Released
      <3> QED BY <3>1, <3>2
    <2>4. TypeOK'
      BY <1>1, <1>2, <1>5, <2>1, <2>3 DEF TypeOK
    <2>5. SessionsInv'
      BY <2>1, <2>3 DEF SessionsInv
    <2>6. NoHiddenTicket'
      <3> SUFFICES ASSUME NEW d \in Clients, NEW key \in Keys, Valid(d)', owner'[key] = sess'[d]
                   PROVE  /\ key = <<name'[d], n'[d]>>
                          /\ (pc'[d] = "idle" /\ held'[d]) \/ pc'[d] = "dropped"
        BY DEF NoHiddenTicket
      <3>1. sess'[d] # None
        BY <2>1, NoneAssumption DEF Valid
      <3>2. d # c /\ owner[key] = sess[d] /\ Valid(d)
        BY <2>1, <2>3, <3>1 DEF Valid
      <3> QED BY <1>1, <1>2, <1>5, <3>2 DEF NoHiddenTicket
    <2>7. BeliefIsTrue'
      <3> SUFFICES ASSUME NEW d \in Clients, Holds(d)'
                   PROVE  n'[d] < NTickets /\ owner'[<<name'[d], n'[d]>>] = sess'[d]
        BY DEF BeliefIsTrue
      <3>1. d # c /\ sess'[d] = sess[d] /\ sess[d] # s /\ Holds(d)
        BY <1>1, <1>2, <1>5, <2>1 DEF Holds, Valid
      <3>2. n[d] < NTickets /\ owner[<<name[d], n[d]>>] = sess[d]
        BY <3>1 DEF BeliefIsTrue
      <3>3. <<name[d], n[d]>> \in Keys
        BY <3>1, <3>2 DEF TypeOK, Keys, Tickets, NameInv, Holds
      <3> QED BY <1>1, <1>5, <2>3, <3>1, <3>2, <3>3
    <2>8. NameInv'
      BY <1>1, <1>2, <1>5 DEF NameInv
    <2> QED BY <2>4, <2>5, <2>6, <2>7, <2>8
  <1> QED BY <1>4, <1>5 DEF Unlock

LEMMA CloseInv == ASSUME Inv, NEW c \in Clients, Close(c) PROVE Inv'
  <1> USE DEF Inv
  <1>1. /\ connected' \in [Clients -> BOOLEAN]
        /\ sess' \in [Clients -> Sessions \cup {None}]
        /\ sess'[c] = None /\ \A d \in Clients : d # c => sess'[d] = sess[d]
    BY CloseConnFacts DEF Close
  <1>2. /\ pc' \in [Clients -> {"idle", "lock", "dropped"}] /\ held' \in [Clients -> BOOLEAN]
        /\ pc'[c] = "idle" /\ ~held'[c]
        /\ \A d \in Clients : d # c => pc'[d] = pc[d] /\ held'[d] = held[d]
    BY DEF Close, Return, TypeOK
  <1>3. UNCHANGED <<owner, alive, name, n>>
    BY DEF Close, serverVars
  <1>4. TypeOK'
    BY <1>1, <1>2, <1>3 DEF TypeOK
  <1> QED BY <1>1, <1>2, <1>3, <1>4, DropSessionInv

LEMMA LoseConnectionInv == ASSUME Inv, NEW c \in Clients, LoseConnection(c) PROVE Inv'
  <1> USE DEF Inv
  <1>1. /\ sess' \in [Clients -> Sessions \cup {None}]
        /\ sess'[c] = None /\ \A d \in Clients : d # c => sess'[d] = sess[d]
    BY DEF LoseConnection, TypeOK
  <1>2. UNCHANGED <<owner, alive, connected, name, n, held, pc>>
    BY DEF LoseConnection, serverVars, lockVars
  <1>3. TypeOK'
    BY <1>1, <1>2 DEF TypeOK
  <1>4. pc'[c] = "lock" \/ held'[c] => name'[c] \in Names
    BY <1>2 DEF NameInv
  <1> QED BY <1>1, <1>2, <1>3, <1>4, DropSessionInv

LEMMA EndSessionInv == ASSUME Inv, NEW s \in Sessions, EndSession(s) PROVE Inv'
  <1> USE DEF Inv
  <1>1. /\ alive' = alive \ {s}
        /\ owner' = [key \in Keys |-> IF owner[key] = s THEN None ELSE owner[key]]
        /\ UNCHANGED <<connected, sess, name, n, held, pc>>
    BY DEF EndSession, connVars, lockVars
  <1>2. TypeOK'
    BY <1>1 DEF TypeOK
  <1>3. SessionsInv'
    BY <1>1 DEF SessionsInv
  <1>4. NoHiddenTicket'
    BY <1>1, NoneAssumption DEF NoHiddenTicket, Valid, TypeOK
  <1>5. BeliefIsTrue'
    <2> SUFFICES ASSUME NEW d \in Clients, Holds(d)'
                 PROVE  n'[d] < NTickets /\ owner'[<<name'[d], n'[d]>>] = sess'[d]
      BY DEF BeliefIsTrue
    <2>1. Holds(d) /\ sess[d] # s
      BY <1>1 DEF Holds, Valid
    <2>2. n[d] < NTickets /\ owner[<<name[d], n[d]>>] = sess[d]
      BY <2>1 DEF BeliefIsTrue
    <2>3. <<name[d], n[d]>> \in Keys
      BY <2>1, <2>2 DEF TypeOK, Keys, Tickets, NameInv, Holds
    <2> QED BY <1>1, <2>1, <2>2, <2>3
  <1>6. NameInv'
    BY <1>1 DEF NameInv
  <1> QED BY <1>2, <1>3, <1>4, <1>5, <1>6

\* The inductive invariant of the ticket lock holds in every reachable state.
THEOREM Invariance == Spec => []Inv
  <1>1. Init => Inv
    BY InitInv
  <1>2. Inv /\ [Next]_vars => Inv'
    <2> SUFFICES ASSUME Inv, [Next]_vars PROVE Inv'
      OBVIOUS
    <2>1. CASE UNCHANGED vars
      BY <2>1 DEF Inv, TypeOK, SessionsInv, NoHiddenTicket, BeliefIsTrue, NameInv, Valid, Holds,
                  vars, serverVars, connVars, lockVars
    <2>2. CASE Next
      BY <2>2, TryLockInv, LockStepInv, RefreshInv, UnlockInv, CloseInv, LoseConnectionInv,
         EndSessionInv DEF Next
    <2> QED BY <2>1, <2>2
  <1> QED BY <1>1, <1>2, PTL DEF Spec

\* Type correctness of the lock (lock.go).
THEOREM TypeCorrect == Spec => []TypeOK
  BY Invariance, PTL DEF Inv

\* A client that was told it has a ticket, and whose session lives, owns it at
\* the server (lock.go:97-150).
THEOREM BeliefsAreTrue == Spec => []BeliefIsTrue
  BY Invariance, PTL DEF Inv

\* For any number of clients, names, tickets and sessions, two clients on
\* live sessions never believe in the same ticket (lock.go:97-141).
THEOREM TicketsAreExclusive == Spec => []ExclusiveTickets
  <1>1. Inv => ExclusiveTickets
    <2> SUFFICES ASSUME Inv, NEW c \in Clients, NEW d \in Clients, c # d,
                        Holds(c), Holds(d), <<name[c], n[c]>> = <<name[d], n[d]>>
                 PROVE  FALSE
      BY DEF ExclusiveTickets
    <2>1. sess[c] = sess[d]
      BY DEF Inv, BeliefIsTrue
    <2> QED BY <2>1, NoneAssumption DEF Inv, SessionsInv, Holds, Valid, TypeOK
  <1> QED BY <1>1, Invariance, PTL

\* Whatever a live session owns is the ticket its client has, or the one it
\* failed to give back (lock.go:97-117, 156-159).
THEOREM NoTicketIsHidden == Spec => []NoHiddenTicket
  BY Invariance, PTL DEF Inv

-----------------------------------------------------------------------------
(* The lock implements NamedLock.  A step is about one client, c: what the *)
(* others have, and what they believe, stays (Same), and c has no ticket   *)
(* after it unless it was granted one.                                     *)

HasNow == {<<c, <<name[c], n[c]>>>> : c \in {d \in Clients : Holds(d)}}
Believers == {c \in Clients : held[c]}

Same(d) ==
    /\ Holds(d)' <=> Holds(d)
    /\ Holds(d) => name'[d] = name[d] /\ n'[d] = n[d]

LEMMA AbstractLose ==
    ASSUME NEW c \in Clients, ~Holds(c)', \A d \in Clients \ {c} : Same(d), UNCHANGED held
    PROVE  Abstract!Lose(c)
  <1>1. HasNow' = {h \in HasNow : h[1] # c}
    BY DEF HasNow, Same
  <1>2. UNCHANGED Believers
    BY DEF Believers
  <1> QED BY <1>1, <1>2 DEF Abstract!Lose, Abstract!Without, HasNow, Believers

LEMMA AbstractGiveUp ==
    ASSUME Inv, NEW c \in Clients, ~Holds(c)', \A d \in Clients \ {c} : Same(d), held' = [held EXCEPT ![c] = FALSE]
    PROVE  Abstract!GiveUp(c)
  <1>1. HasNow' = {h \in HasNow : h[1] # c}
    BY DEF HasNow, Same
  <1>2. Believers' = Believers \ {c}
    BY DEF Believers, Inv, TypeOK
  <1> QED BY <1>1, <1>2 DEF Abstract!GiveUp, Abstract!Without, HasNow, Believers

LEMMA AbstractStays ==
    ASSUME \A d \in Clients : Same(d), UNCHANGED held
    PROVE  UNCHANGED Abstract!vars
  <1>1. UNCHANGED HasNow
    BY DEF HasNow, Same
  <1>2. UNCHANGED Believers
    BY DEF Believers
  <1> QED BY <1>1, <1>2 DEF Abstract!vars, HasNow, Believers

\* A query of c changes nothing for the others, whatever session it runs on.
LEMMA QueryKeeps ==
    ASSUME Inv, NEW c \in Clients, NEW s \in Sessions, OnSession(c, s), NEW d \in Clients, d # c,
           held'[d] = held[d], pc'[d] = pc[d], name'[d] = name[d], n'[d] = n[d]
    PROVE  Same(d)
  <1>1. sess'[d] = sess[d] /\ (sess[d] \in alive' <=> sess[d] \in alive)
    BY OnSessionFacts DEF Inv
  <1> QED BY <1>1 DEF Same, Holds, Valid

\* GET_LOCK is granted by the server only if nobody on a live session has it.
LEMMA GrantedTakes ==
    ASSUME Inv, NEW c \in Clients, pc[c] = "lock", n[c] < NTickets, Granted(c)
    PROVE  Abstract!Take(c)
  <1> DEFINE k == <<name[c], n[c]>>
  <1>1. PICK s \in Sessions :
            /\ OnSession(c, s)
            /\ Grantable(k, s)
            /\ owner' = [owner EXCEPT ![k] = s]
            /\ connected' = [connected EXCEPT ![c] = TRUE]
            /\ Return(c, TRUE)
            /\ UNCHANGED <<name, n>>
    BY DEF Granted
  <1>2. k \in Keys
    BY DEF Inv, TypeOK, NameInv, Keys, Tickets
  <1>3. sess'[c] = s /\ s \in alive' /\ \A d \in Clients : d # c => sess[d] # s
    BY <1>1, OnSessionFacts DEF Inv
  <1>4. /\ held'[c] /\ pc'[c] = "idle" /\ held' = [held EXCEPT ![c] = TRUE]
        /\ \A d \in Clients : d # c => pc'[d] = pc[d] /\ held'[d] = held[d]
    BY <1>1 DEF Return, Inv, TypeOK
  <1>5. \A d \in Clients \ {c} : Same(d)
    BY <1>1, <1>4, QueryKeeps
  <1>6. Holds(c)' /\ ~Holds(c) /\ UNCHANGED <<name, n>>
    BY <1>1, <1>3, <1>4 DEF Holds, Valid
  <1>7. ASSUME NEW d \in Clients, Holds(d), <<name[d], n[d]>> = k PROVE FALSE
    <2>1. d # c /\ owner[k] = sess[d] /\ sess[d] \in Sessions
      BY <1>6, <1>7 DEF Inv, BeliefIsTrue, Holds, Valid, TypeOK
    <2> QED BY <2>1, <1>1, <1>3, NoneAssumption DEF Grantable
  <1> HIDE DEF k
  <1>8. HasNow' = HasNow \cup {<<c, k>>}
    BY <1>5, <1>6 DEF HasNow, Same, k
  <1>9. Believers' = Believers \cup {c}
    BY <1>4 DEF Believers, Inv, TypeOK
  <1>10. \A h \in HasNow : h[1] # c /\ h[2] # k
    BY <1>6, <1>7 DEF HasNow
  <1> QED
    BY <1>2, <1>8, <1>9, <1>10 DEF Abstract!Take, Abstract!HasNone, Abstract!Free, HasNow, Believers

LEMMA LockStepMaps ==
    ASSUME Inv, NEW c \in Clients, LockStep(c)
    PROVE  Abstract!Next
  <1>1. CASE n[c] < NTickets /\ Granted(c)
    BY <1>1, GrantedTakes DEF LockStep, Abstract!Next
  <1>2. CASE n[c] < NTickets /\ NotGranted(c)
    <2>1. PICK s \in Sessions : OnSession(c, s) /\ NextTicket(c) /\ UNCHANGED <<owner, name, held, pc>>
      BY <1>2 DEF NotGranted
    <2>2. \A d \in Clients : d # c => n'[d] = n[d]
      BY <2>1 DEF NextTicket, Inv, TypeOK
    <2>3. ~Holds(c)' /\ \A d \in Clients \ {c} : Same(d)
      BY <2>1, <2>2, QueryKeeps DEF LockStep, Holds
    <2> QED BY <2>1, <2>3, AbstractLose DEF Abstract!Next
  <1>3. CASE n[c] < NTickets /\ LockError(c)
    <2>1. CloseConn(c) /\ NextTicket(c) /\ UNCHANGED <<alive, name, held, pc>>
      BY <1>3 DEF LockError
    <2>2. ~Holds(c)' /\ \A d \in Clients \ {c} : Same(d)
      BY <2>1 DEF LockStep, CloseConn, NextTicket, Holds, Valid, Same, Inv, TypeOK
    <2> QED BY <2>1, <2>2, AbstractLose DEF Abstract!Next
  <1>4. CASE Return(c, FALSE) /\ UNCHANGED <<serverVars, connVars, name, n>>
    <2>1. ~Holds(c)' /\ \A d \in Clients \ {c} : Same(d)
      BY <1>4 DEF Return, Holds, Valid, Same, Inv, TypeOK, serverVars, connVars
    <2>2. held' = [held EXCEPT ![c] = FALSE]
      BY <1>4 DEF Return
    <2> QED BY <2>1, <2>2, AbstractGiveUp DEF Abstract!Next
  <1> QED BY <1>1, <1>2, <1>3, <1>4 DEF LockStep

LEMMA RefreshMaps ==
    ASSUME Inv, NEW c \in Clients, Refresh(c)
    PROVE  Abstract!Next \/ UNCHANGED Abstract!vars
  <1>1. ASSUME NEW s \in Sessions, OnSession(c, s), IsMine(c, s), UNCHANGED lockVars
        PROVE  UNCHANGED Abstract!vars
    <2>1. name[c] \in Names /\ <<name[c], n[c]>> \in Keys
      BY <1>1 DEF Refresh, Inv, NameInv, TypeOK, IsMine, Keys, Tickets
    <2>2. s = sess[c] /\ sess'[c] = s /\ s \in alive' /\ s \in Sessions
      BY <1>1, <2>1, OnSessionFacts DEF Inv, IsMine
    <2>3. s \in alive
      BY <2>1, <2>2, <1>1, NoneAssumption DEF IsMine, Inv, SessionsInv
    <2>4. \A d \in Clients : Same(d)
      BY <1>1, <2>2, <2>3, QueryKeeps DEF lockVars, Same, Holds, Valid
    <2> QED BY <1>1, <2>4, AbstractStays DEF lockVars
  <1>2. ASSUME NEW s \in Sessions, OnSession(c, s), EnterLock(c, name[c]), UNCHANGED held
        PROVE  Abstract!Lose(c)
    <2>1. pc'[c] = "lock" /\ \A d \in Clients : d # c => name'[d] = name[d] /\ n'[d] = n[d] /\ pc'[d] = pc[d]
      BY <1>2 DEF EnterLock, Inv, TypeOK
    <2>2. ~Holds(c)' /\ \A d \in Clients \ {c} : Same(d)
      BY <1>2, <2>1, QueryKeeps DEF Holds
    <2> QED BY <1>2, <2>2, AbstractLose
  <1>3. ASSUME CloseConn(c), EnterLock(c, name[c]), UNCHANGED <<serverVars, held>>
        PROVE  Abstract!Lose(c)
    <2>1. ~Holds(c)' /\ \A d \in Clients \ {c} : Same(d)
      BY <1>3 DEF CloseConn, EnterLock, serverVars, Holds, Valid, Same, Inv, TypeOK
    <2> QED BY <1>3, <2>1, AbstractLose
  <1> QED BY <1>1, <1>2, <1>3 DEF Refresh, Abstract!Next

LEMMA UnlockMaps ==
    ASSUME Inv, NEW c \in Clients, Unlock(c)
    PROVE  Abstract!Next
  <1>1. held' = [held EXCEPT ![c] = FALSE] /\ UNCHANGED <<name, n>>
    BY DEF Unlock
  <1>2. ~held'[c] /\ \A d \in Clients : d # c => held'[d] = held[d]
    BY <1>1 DEF Inv, TypeOK
  <1>3. ~Holds(c)'
    BY <1>2 DEF Holds
  <1>4. \A d \in Clients \ {c} : Same(d)
    <2>1. CASE (\E s \in Sessions : OnSession(c, s)) /\ UNCHANGED pc
      BY <2>1, <1>1, <1>2, QueryKeeps
    <2>2. CASE UnlockError(c)
      <3>1. UNCHANGED alive /\ \A d \in Clients : d # c => sess'[d] = sess[d] /\ pc'[d] = pc[d]
        BY <2>2 DEF UnlockError, Inv, TypeOK
      <3> QED BY <3>1, <1>1, <1>2 DEF Same, Holds, Valid
    <2> QED BY <2>1, <2>2 DEF Unlock
  <1> QED BY <1>1, <1>3, <1>4, AbstractGiveUp DEF Abstract!Next

LEMMA NextMaps ==
    ASSUME Inv, Next
    PROVE  Abstract!Next \/ UNCHANGED Abstract!vars
  <1>1. ASSUME NEW c \in Clients, TryLock(c) PROVE Abstract!Next
    <2>1. ~Holds(c)' /\ \A d \in Clients \ {c} : Same(d)
      BY <1>1 DEF TryLock, EnterLock, serverVars, connVars, Holds, Valid, Same, Inv, TypeOK
    <2> QED BY <1>1, <2>1, AbstractLose DEF TryLock, Abstract!Next
  <1>2. ASSUME NEW c \in Clients, Close(c) PROVE Abstract!Next
    <2>1. ~Holds(c)' /\ \A d \in Clients \ {c} : Same(d)
      BY <1>2 DEF Close, CloseConn, Return, serverVars, Holds, Valid, Same, Inv, TypeOK
    <2> QED BY <1>2, <2>1, AbstractGiveUp DEF Close, Return, Abstract!Next
  <1>3. ASSUME NEW c \in Clients, LoseConnection(c) PROVE Abstract!Next
    <2>1. ~Holds(c)' /\ \A d \in Clients \ {c} : Same(d)
      BY <1>3, NoneAssumption DEF LoseConnection, serverVars, lockVars, Holds, Valid, Same, Inv, TypeOK
    <2> QED BY <1>3, <2>1, AbstractLose DEF LoseConnection, lockVars, Abstract!Next
  <1>4. ASSUME NEW s \in Sessions, EndSession(s) PROVE Abstract!Next \/ UNCHANGED Abstract!vars
    <2>1. UNCHANGED <<sess, name, n, held, pc>> /\ alive' = alive \ {s} /\ s # None
      BY <1>4, NoneAssumption DEF EndSession, connVars, lockVars
    <2>2. \A d \in Clients : sess[d] # s => Same(d)
      BY <2>1 DEF Same, Holds, Valid
    <2>3. CASE \A d \in Clients : sess[d] # s
      BY <2>1, <2>2, <2>3, AbstractStays
    <2>4. ASSUME NEW c \in Clients, sess[c] = s PROVE Abstract!Lose(c)
      <3>1. ~Holds(c)' /\ \A d \in Clients \ {c} : Same(d)
        BY <2>1, <2>2, <2>4 DEF Holds, Valid, Inv, SessionsInv
      <3> QED BY <2>1, <3>1, AbstractLose
    <2> QED BY <2>3, <2>4 DEF Abstract!Next
  <1> QED BY <1>1, <1>2, <1>3, <1>4, LockStepMaps, RefreshMaps, UnlockMaps DEF Next

\* Whatever the server, the sessions and the queries do, to its users the lock
\* is a NamedLock, for any number of clients, names, tickets and sessions
\* (lock.go:97-185).
THEOREM TicketLockImplements == Spec => Implements
  <1>1. Init => Abstract!Init
    BY DEF Init, Abstract!Init, Holds
  <1>2. Inv /\ [Next]_vars => [Abstract!Next]_Abstract!vars
    <2> SUFFICES ASSUME Inv, [Next]_vars PROVE Abstract!Next \/ UNCHANGED Abstract!vars
      OBVIOUS
    <2>1. CASE UNCHANGED vars
      <3>1. UNCHANGED held /\ \A d \in Clients : Same(d)
        BY <2>1 DEF vars, serverVars, connVars, lockVars, Same, Holds, Valid
      <3> QED BY <3>1, AbstractStays
    <2> QED BY <2>1, NextMaps
  <1> QED BY <1>1, <1>2, Invariance, PTL DEF Spec, Implements, Abstract!Spec

\* So two clients never have the same ticket, none has two, and none has one
\* unknowingly: what NamedLock promises follows from its steps alone, and those
\* of the lock are such steps (lock.go:97-150).
THEOREM LockIsSound == Spec => []Abstract!Sound
  <1>1. Abstract!Init => Abstract!Sound
    BY DEF Abstract!Init, Abstract!Sound
  <1>2. Abstract!Sound /\ [Abstract!Next]_Abstract!vars => Abstract!Sound'
    BY DEF Abstract!Sound, Abstract!Next, Abstract!vars, Abstract!Take, Abstract!GiveUp, Abstract!Lose,
           Abstract!Without, Abstract!HasNone, Abstract!Free
  <1> QED BY <1>1, <1>2, TicketLockImplements, PTL DEF Implements, Abstract!Spec
=============================================================================
