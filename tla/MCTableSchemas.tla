---------------------------- MODULE MCTableSchemas ----------------------------
(* Two instances of TableSchemas for TLC in one. *)
EXTENDS TableSchemas

\* One request at a time and the reader's ALTER TABLEs; or all requests side by
\* side after the last of these.
MCInit ==
    /\ \/ LET one == CHOOSE h \in Handlers : TRUE
          IN  /\ req = [h \in Handlers |-> IF h = one THEN Idle ELSE [Idle EXCEPT !.pc = "absent"]]
              /\ master = 0 /\ slave = 0 /\ saved = 0
       \/ /\ req = [h \in Handlers |-> Idle]
          /\ master = MaxAlters /\ slave = MaxAlters /\ saved = MaxAlters
    /\ rows = [v \in Versions |-> NoRow]
    /\ columns = NoColumns
    /\ locked = [x \in Lockable |-> Free]
    /\ cluster = None
    /\ rd = [r \in Readers |-> Down]
    /\ lastId = 0
    /\ missed = {}
    /\ faults = 0

MCSpec == MCInit /\ [][Next]_vars /\ Fairness
=============================================================================
