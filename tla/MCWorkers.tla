------------------------------ MODULE MCWorkers ------------------------------
(* Two instances of Workers for TLC in one. *)
EXTENDS Workers

\* Tables with a key and the events of all of them; or tables without one too,
\* and no event any more.
MCInit ==
    /\ flag = FALSE /\ cancelled = FALSE
    /\ group = 2
    /\ signals = "wait" /\ main = "wait"
    /\ numProcs = 1 /\ maxNumProcs = 1
    /\ th = [t \in Threads |-> IF t = 1 THEN At("idle") ELSE NoThread]
    /\ \/ /\ status = [x \in Tables |-> IF x \in NoKey THEN "deleted" ELSE "new"]
          /\ events = 0 /\ faults = 0
       \/ /\ status = [x \in Tables |-> "new"]
          /\ events = MaxEvents /\ faults = MaxFaults
    /\ gtid = {}
    /\ tables = {} /\ ch = [x \in Tables |-> 0]
    /\ instance = FALSE /\ clusterLock = None /\ tableLock = [x \in Tables |-> None]

MCSpec == MCInit /\ [][Next]_vars /\ Fairness
=============================================================================
