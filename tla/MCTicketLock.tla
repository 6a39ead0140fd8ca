----------------------------- MODULE MCTicketLock -----------------------------
(* Instances of TicketLock for TLC: clients and sessions are interchangeable. *)
EXTENDS TicketLock, TLC

Symmetric == Permutations(Clients) \cup Permutations(Sessions)
=============================================================================
