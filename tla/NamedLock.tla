-------------------------------- MODULE NamedLock --------------------------------
(***************************************************************************)
(* What a distributed lock promises to those who work under it, whatever   *)
(* sessions and queries it is made of:                                     *)
(*                                                                         *)
(*   - nobody takes what another has, and nobody has two;                  *)
(*   - a client believes it has a lock from the moment it takes one to the *)
(*     moment it gives up, and at no other time;                           *)
(*   - what it has may be taken from it in between, and it goes on         *)
(*     believing: that is the one way in which belief and truth part.      *)
(*                                                                         *)
(* TicketLock implements this, with a lock for every ticket of a name.     *)
(***************************************************************************)
CONSTANTS
    Clients,     \* who may have a lock
    Locks        \* what there is to have

VARIABLES
    has,         \* the pairs <<c, k>> of a client c and the lock k it has
    believes     \* the clients that were told they have one, and not yet gave up

vars == <<has, believes>>

Free(k) == \A h \in has : h[2] # k
HasNone(c) == \A h \in has : h[1] # c
Without(c) == {h \in has : h[1] # c}

Init ==
    /\ has = {}
    /\ believes = {}

Take(c) ==
    /\ HasNone(c)
    /\ \E k \in Locks :
          /\ Free(k)
          /\ has' = has \cup {<<c, k>>}
    /\ believes' = believes \cup {c}

GiveUp(c) ==
    /\ has' = Without(c)
    /\ believes' = believes \ {c}

Lose(c) ==
    /\ has' = Without(c)
    /\ UNCHANGED believes

Next == \E c \in Clients : Take(c) \/ GiveUp(c) \/ Lose(c)

Spec == Init /\ [][Next]_vars

-----------------------------------------------------------------------------
\* Two never have the same lock, and nobody has one without believing it
\* (lock/lock.go:97-150).
Sound ==
    /\ \A g, h \in has : g[1] = h[1] \/ g[2] = h[2] => g = h
    /\ \A h \in has : h[1] \in believes

=============================================================================
