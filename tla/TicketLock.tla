------------------------------- MODULE TicketLock -------------------------------
(***************************************************************************)
(* The distributed lock of lock/lock.go: a lock object holds one of        *)
(* NTickets named MySQL locks (GET_LOCK) on a connection of its own.  The  *)
(* server releases a session's locks when it notices that the session is   *)
(* gone; the object learns of a lost session from its next query, and      *)
(* database/sql may answer that query on a new session.                    *)
(*                                                                         *)
(* A client here is one lock object together with the thread that uses it: *)
(* TryLock over some names until one is granted, Refresh while it works,   *)
(* Close (or Unlock) when it stops.  An object whose Unlock failed is      *)
(* dropped without a Close (streamer.go:161, 210): its connection stays    *)
(* open, and its session may go on owning the ticket.                      *)
(***************************************************************************)
EXTENDS Integers, FiniteSets

CONSTANTS
    Clients,     \* lock objects, in any number of processes
    Names,       \* lock names: "cluster.<c>", "table_id.<i>"
    NTickets,    \* how many holders a name may have
    Sessions,    \* MySQL connection ids
    None         \* no session, no name

ASSUME NTicketsAssumption == NTickets \in Nat \ {0}
ASSUME NoneAssumption == None \notin Sessions \cup Names

VARIABLES
    owner,       \* server: the session that holds <<name, ticket>>, or None
    alive,       \* server: the sessions it knows
    connected,   \* myLock.conn # nil
    sess,        \* the session behind conn, or None before its first query
    name,        \* myLock.name
    n,           \* myLock.n, the ticket
    held,        \* the last TryLock or Refresh said TRUE
    pc           \* the client: "idle", in the loop of Lock, or "dropped"

serverVars == <<owner, alive>>
connVars   == <<connected, sess>>
lockVars   == <<name, n, held, pc>>
vars == <<serverVars, connVars, lockVars>>

Tickets == 0 .. NTickets - 1
Keys == Names \X Tickets

\* A usable connection: the server still knows the session behind it.
Valid(c) == sess[c] \in alive

\* The session a query of c runs on: its own or, when that is gone, one the
\* pool opens under a connection id nobody uses.
OnSession(c, s) ==
    /\ \/ Valid(c) /\ s = sess[c] /\ UNCHANGED alive
       \/ /\ ~Valid(c)
          /\ s \in Sessions \ (alive \cup {sess[d] : d \in Clients})
          /\ alive' = alive \cup {s}
    /\ sess' = [sess EXCEPT ![c] = s]

\* closeConn: the client lets go of the session; the server ends it, and
\* frees its locks, in its own time (EndSession).
CloseConn(c) ==
    /\ connected' = [connected EXCEPT ![c] = FALSE]
    /\ sess' = [sess EXCEPT ![c] = None]

-----------------------------------------------------------------------------
(* Lock: the loop over the tickets. *)

EnterLock(c, x) ==
    /\ name' = [name EXCEPT ![c] = x]
    /\ n' = [n EXCEPT ![c] = 0]
    /\ pc' = [pc EXCEPT ![c] = "lock"]

Return(c, result) ==
    /\ pc' = [pc EXCEPT ![c] = "idle"]
    /\ held' = [held EXCEPT ![c] = result]

\* TryLock of a name, by a client that holds nothing.
TryLock(c) ==
    /\ pc[c] = "idle" /\ ~held[c]
    /\ \E x \in Names : EnterLock(c, x)
    /\ UNCHANGED <<serverVars, connVars, held>>

\* Wrong: the error path and the loop both move on.
NextTicketTwice(c) == n' = [n EXCEPT ![c] = IF @ = 0 THEN 1 ELSE @ + 2]

NextTicket(c) == n' = [n EXCEPT ![c] = @ + 1]

Grantable(key, s) == owner[key] \in {None, s}

\* Wrong: the loop has moved on when Lock returns.
GrantedMovesOn(c) ==
    \E s \in Sessions :
        /\ OnSession(c, s)
        /\ Grantable(<<name[c], n[c]>>, s)
        /\ owner' = [owner EXCEPT ![<<name[c], n[c]>>] = s]
        /\ connected' = [connected EXCEPT ![c] = TRUE]
        /\ Return(c, TRUE)
        /\ NextTicket(c)
        /\ UNCHANGED name

\* GET_LOCK said 1.
Granted(c) ==
    \E s \in Sessions :
        /\ OnSession(c, s)
        /\ Grantable(<<name[c], n[c]>>, s)
        /\ owner' = [owner EXCEPT ![<<name[c], n[c]>>] = s]
        /\ connected' = [connected EXCEPT ![c] = TRUE]
        /\ Return(c, TRUE)
        /\ UNCHANGED <<name, n>>

\* GET_LOCK said 0 (another session has the ticket) or NULL.
NotGranted(c) ==
    \E s \in Sessions :
        /\ OnSession(c, s)
        /\ connected' = [connected EXCEPT ![c] = TRUE]
        /\ NextTicket(c)
        /\ UNCHANGED <<owner, name, held, pc>>

\* Wrong: the connection is kept after an error.
LockErrorKeepsConn(c) ==
    /\ \/ UNCHANGED owner
       \/ /\ Valid(c)
          /\ Grantable(<<name[c], n[c]>>, sess[c])
          /\ owner' = [owner EXCEPT ![<<name[c], n[c]>>] = sess[c]]
    /\ NextTicket(c)
    /\ UNCHANGED <<alive, connVars, name, held, pc>>

\* The query failed, possibly after the server had granted the ticket.
LockError(c) ==
    /\ \/ UNCHANGED owner
       \/ /\ Valid(c)
          /\ Grantable(<<name[c], n[c]>>, sess[c])
          /\ owner' = [owner EXCEPT ![<<name[c], n[c]>>] = sess[c]]
    /\ CloseConn(c)
    /\ NextTicket(c)
    /\ UNCHANGED <<alive, name, held, pc>>

LockStep(c) ==
    /\ pc[c] = "lock"
    /\ \/ n[c] < NTickets /\ Granted(c)
       \/ n[c] < NTickets /\ NotGranted(c)
       \/ n[c] < NTickets /\ LockError(c)
       \/ /\ n[c] < NTickets /\ ~connected[c]      \* openConn failed
          /\ Return(c, FALSE)
          /\ UNCHANGED <<serverVars, connVars, name, n>>
       \/ /\ n[c] = NTickets
          /\ Return(c, FALSE)
          /\ UNCHANGED <<serverVars, connVars, name, n>>

-----------------------------------------------------------------------------
(* Refresh, Unlock, Close. *)

\* Wrong: asks whether the lock is used, not by whom.
IsSomeones(c, s) == n[c] < NTickets /\ owner[<<name[c], n[c]>>] # None

IsMine(c, s) == n[c] < NTickets /\ owner[<<name[c], n[c]>>] = s

\* Refresh: IsLockedByMe, then Lock with the same name if it said no.
Refresh(c) ==
    /\ pc[c] = "idle" /\ held[c]
    /\ \/ \E s \in Sessions :
             /\ OnSession(c, s)
             /\ \/ /\ IsMine(c, s)
                   /\ UNCHANGED lockVars
                \/ /\ ~IsMine(c, s)
                   /\ EnterLock(c, name[c])
                   /\ UNCHANGED held
          /\ UNCHANGED <<owner, connected>>
       \/ /\ CloseConn(c)
          /\ EnterLock(c, name[c])
          /\ UNCHANGED <<serverVars, held>>

\* RELEASE_LOCK, run on session s.
Released(c, s) ==
    IF IsMine(c, s) THEN [owner EXCEPT ![<<name[c], n[c]>>] = None] ELSE owner

\* The query failed, before or after the server ran it.  The connection is
\* kept: it may be broken, or its session may live, with the ticket or without.
UnlockError(c) ==
    /\ owner' \in {owner, Released(c, sess[c])}
    /\ sess' \in {sess, [sess EXCEPT ![c] = None]}
    /\ pc' = [pc EXCEPT ![c] = "dropped"]
    /\ UNCHANGED alive

\* Unlock, by a client that then lets go of the object whatever it returned.
Unlock(c) ==
    /\ pc[c] = "idle" /\ held[c]
    /\ \/ \E s \in Sessions :
             /\ OnSession(c, s)
             /\ owner' = Released(c, s)
             /\ UNCHANGED pc
       \/ UnlockError(c)
    /\ held' = [held EXCEPT ![c] = FALSE]
    /\ UNCHANGED <<connected, name, n>>

\* Close, or the end of the client's process.
Close(c) ==
    /\ CloseConn(c)
    /\ Return(c, FALSE)
    /\ UNCHANGED <<serverVars, name, n>>

\* The server ends a session: the client closed it, it was killed, or its
\* connection broke.  Its locks are released.
EndSession(s) ==
    /\ s \in alive
    /\ alive' = alive \ {s}
    /\ owner' = [key \in Keys |-> IF owner[key] = s THEN None ELSE owner[key]]
    /\ UNCHANGED <<connVars, lockVars>>

\* The connection breaks and only the client notices: the pool drops it.
LoseConnection(c) ==
    /\ sess[c] # None
    /\ sess' = [sess EXCEPT ![c] = None]
    /\ UNCHANGED <<serverVars, connected, lockVars>>

-----------------------------------------------------------------------------
Init ==
    /\ owner = [key \in Keys |-> None]
    /\ alive = {}
    /\ connected = [c \in Clients |-> FALSE]
    /\ sess = [c \in Clients |-> None]
    /\ name = [c \in Clients |-> None]
    /\ n = [c \in Clients |-> 0]
    /\ held = [c \in Clients |-> FALSE]
    /\ pc = [c \in Clients |-> "idle"]

Next ==
    \/ \E c \in Clients : TryLock(c) \/ LockStep(c) \/ Refresh(c) \/ Unlock(c)
    \/ \E c \in Clients : Close(c) \/ LoseConnection(c)
    \/ \E s \in Sessions : EndSession(s)

Spec == Init /\ [][Next]_vars

-----------------------------------------------------------------------------
(* Properties. *)

\* Type correctness of myLock and of the server's lock table (lock.go).
TypeOK ==
    /\ owner \in [Keys -> Sessions \cup {None}]
    /\ alive \subseteq Sessions
    /\ connected \in [Clients -> BOOLEAN]
    /\ sess \in [Clients -> Sessions \cup {None}]
    /\ name \in [Clients -> Names \cup {None}]
    /\ n \in [Clients -> 0 .. NTickets]
    /\ held \in [Clients -> BOOLEAN]
    /\ pc \in [Clients -> {"idle", "lock", "dropped"}]

\* c was told it has the lock, and its session has not been lost since.
Holds(c) == held[c] /\ pc[c] = "idle" /\ Valid(c)

\* Mutual exclusion per ticket: two clients that were told they have the same
\* ticket of the same name cannot both still be on a live session
\* (lock.go:97-141).
ExclusiveTickets ==
    \A c, d \in Clients :
        c # d /\ Holds(c) /\ Holds(d) => <<name[c], n[c]>> # <<name[d], n[d]>>

\* What makes it so: a client on a live session that was told it has a ticket
\* is the server's owner of exactly that ticket (lock.go:97-150).
BeliefIsTrue ==
    \A c \in Clients : Holds(c) =>
        n[c] < NTickets /\ owner[<<name[c], n[c]>>] = sess[c]

\* No ticket is wasted behind a client's back: a live session owns no ticket but
\* the one its client was told about and still believes in, or failed to give
\* back.  An error in the loop of Lock, which asks for one ticket after another
\* on the same connection, leaves none behind (lock.go:97-117); only a failed
\* Unlock does, since it keeps the connection (lock.go:156-159).
NoHiddenTicket ==
    \A c \in Clients, key \in Keys :
        Valid(c) /\ owner[key] = sess[c] =>
            /\ key = <<name[c], n[c]>>
            /\ \/ pc[c] = "idle" /\ held[c]
               \/ pc[c] = "dropped"

\* To those who use it the lock is a NamedLock over the tickets: a grant is of a
\* free ticket to a client that has none, Refresh renews nothing behind anybody's
\* back, and the end of a session, on whichever side, takes from its client what
\* it had and from nobody else (lock.go:97-185).
Abstract == INSTANCE NamedLock WITH
    Locks <- Keys,
    has <- {<<c, <<name[c], n[c]>>>> : c \in {d \in Clients : Holds(d)}},
    believes <- {c \in Clients : held[c]}
Implements == Abstract!Spec

=============================================================================
