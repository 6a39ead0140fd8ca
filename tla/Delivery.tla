-------------------------------- MODULE Delivery --------------------------------
(***************************************************************************)
(* What streaming one topic promises, whatever threads and batches do it:  *)
(*                                                                         *)
(*   - messages are taken from the topic in order, and only messages taken *)
(*     since the stream was last opened are delivered to the output;       *)
(*   - the position saved while taking a message covers no owed message,   *)
(*     so a failure after it resends everything that was still owed;       *)
(*   - the position saved at any other time (the periodic save, a graceful *)
(*     close) covers owed messages only among the last Window taken: that  *)
(*     is all a failure, or the close itself, can lose;                    *)
(*   - a stream reopens at its saved position, and at the end of the topic *)
(*     when none was ever saved.                                           *)
(*                                                                         *)
(* TableStream implements this with Window = the input pipe's batch size.  *)
(***************************************************************************)
EXTENDS Integers

CONSTANTS
    Window,      \* how far back a save may cover owed messages
    Silent,      \* messages that produce no output
    NoPosition   \* no position was ever saved

VARIABLES
    produced,    \* messages 0 .. produced-1 are in the topic
    from,        \* where the stream was last opened
    taken,       \* messages from .. taken-1 were taken since then
    delivered,   \* messages delivered at least once
    position     \* the saved position

vars == <<produced, from, taken, delivered, position>>

\* The messages taken since the last opening, below p, that the output has
\* not received and should have.
Owed(p) == {m \in from .. p - 1 : m \notin delivered /\ m \notin Silent}

Init ==
    /\ produced = 0
    /\ from = 0
    /\ taken = 0
    /\ delivered = {}
    /\ position = NoPosition

Produce ==
    /\ produced' = produced + 1
    /\ UNCHANGED <<from, taken, delivered, position>>

Take ==
    /\ taken < produced
    /\ taken' = taken + 1
    /\ \/ UNCHANGED position
       \/ /\ position' \in Int
          /\ position' <= taken
          /\ Owed(position') = {}
    /\ UNCHANGED <<produced, from, delivered>>

Deliver ==
    /\ \E some \in SUBSET (from .. taken - 1) : delivered' = delivered \cup some
    /\ UNCHANGED <<produced, from, taken, position>>

Save ==
    /\ position' = taken
    /\ Owed(taken) \subseteq taken - Window .. taken - 1
    /\ UNCHANGED <<produced, from, taken, delivered>>

Reopen ==
    /\ taken' = IF position = NoPosition THEN produced
                ELSE IF position < 0 THEN 0 ELSE position
    /\ from' = taken'
    /\ UNCHANGED <<produced, delivered, position>>

Next == Produce \/ Take \/ Deliver \/ Save \/ Reopen

Spec == Init /\ [][Next]_vars
=============================================================================
