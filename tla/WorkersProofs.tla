------------------------------ MODULE WorkersProofs ------------------------------
(***************************************************************************)
(* What Workers promises of the pool and of the shutdown, for any number   *)
(* of threads, tables and faults: numProcs counts the threads that have    *)
(* not been told to end, and the process does not end before its threads.  *)
(*                                                                         *)
(* Both are accounts that two places keep.  The pool counts the threads    *)
(* that run, the shutdown group those that are alive and the goroutine of  *)
(* Setup; Accounts says that both are exact after every step.  Most steps  *)
(* move a running thread to another place and touch neither.               *)
(***************************************************************************)
EXTENDS Workers, FiniteSetTheorems, TLAPS

Stopped == {"none", "exit"}

ThreadStates == [pc : PCs, tab : Tables \cup {None}]

\* The goroutines that exist, and those of them that have not been told to end.
AliveIn(f) == {t \in Threads : f[t].pc # "none"}
RunningIn(f) == {t \in Threads : f[t].pc \notin Stopped}

\* The goroutine of Setup is in the shutdown group until it has cancelled the
\* context.
Setups == IF signals = "done" THEN 0 ELSE 1

\* The accounts.
Accounts ==
    /\ flag <=> signals # "wait"
    /\ group = Cardinality(AliveIn(th)) + Setups
    /\ ~flag => numProcs = Cardinality(RunningIn(th))
    /\ numProcs >= 1 /\ maxNumProcs >= 1
    /\ main = "done" => signals = "done" /\ AliveIn(th) = {}

Inv == TypeOK /\ Accounts

-----------------------------------------------------------------------------
(* Sets of threads. *)

LEMMA Finite ==
    /\ IsFiniteSet(Threads)
    /\ \A S \in SUBSET Threads : IsFiniteSet(S) /\ Cardinality(S) \in Nat
<1>1. IsFiniteSet(Threads)
  BY MaxThreadsAssumption, FS_Interval DEF Threads
<1> QED
  BY <1>1, FS_Subset, FS_CardinalityType

\* A running thread that goes to another place is as alive and running as before.
LEMMA Moves ==
    ASSUME NEW f \in [Threads -> ThreadStates], NEW t \in Threads,
           NEW v \in ThreadStates, f[t].pc \notin Stopped, v.pc \notin Stopped
    PROVE  LET g == [f EXCEPT ![t] = v]
           IN  /\ g \in [Threads -> ThreadStates]
               /\ AliveIn(g) = AliveIn(f)
               /\ RunningIn(g) = RunningIn(f)
<1> DEFINE g == [f EXCEPT ![t] = v]
<1>1. g \in [Threads -> ThreadStates]
  OBVIOUS
<1>2. \A u \in Threads : g[u] = IF u = t THEN v ELSE f[u]
  OBVIOUS
<1> HIDE DEF g
<1>3. AliveIn(g) = AliveIn(f)
  BY <1>2 DEF AliveIn, Stopped
<1>4. RunningIn(g) = RunningIn(f)
  BY <1>2 DEF RunningIn
<1> QED
  BY <1>1, <1>3, <1>4 DEF g

\* A running thread that is told to end still is alive.
LEMMA Stops ==
    ASSUME NEW f \in [Threads -> ThreadStates], NEW t \in Threads,
           NEW v \in ThreadStates, f[t].pc \notin Stopped, v.pc = "exit"
    PROVE  LET g == [f EXCEPT ![t] = v]
           IN  /\ g \in [Threads -> ThreadStates]
               /\ AliveIn(g) = AliveIn(f)
               /\ Cardinality(RunningIn(g)) = Cardinality(RunningIn(f)) - 1
<1> DEFINE g == [f EXCEPT ![t] = v]
<1>1. g \in [Threads -> ThreadStates]
  OBVIOUS
<1>2. \A u \in Threads : g[u] = IF u = t THEN v ELSE f[u]
  OBVIOUS
<1> HIDE DEF g
<1>3. AliveIn(g) = AliveIn(f)
  BY <1>2 DEF AliveIn, Stopped
<1>4. RunningIn(g) = RunningIn(f) \ {t}
  BY <1>2 DEF RunningIn, Stopped
<1>5. t \in RunningIn(f) /\ RunningIn(f) \subseteq Threads
  BY DEF RunningIn
<1>6. Cardinality(RunningIn(g)) = Cardinality(RunningIn(f)) - 1
  BY <1>4, <1>5, Finite, FS_RemoveElement
<1> QED
  BY <1>1, <1>3, <1>6 DEF g

\* A thread that was told to end and does.
LEMMA Ends ==
    ASSUME NEW f \in [Threads -> ThreadStates], NEW t \in Threads,
           NEW v \in ThreadStates, f[t].pc = "exit", v.pc = "none"
    PROVE  LET g == [f EXCEPT ![t] = v]
           IN  /\ g \in [Threads -> ThreadStates]
               /\ RunningIn(g) = RunningIn(f)
               /\ Cardinality(AliveIn(g)) = Cardinality(AliveIn(f)) - 1
<1> DEFINE g == [f EXCEPT ![t] = v]
<1>1. g \in [Threads -> ThreadStates]
  OBVIOUS
<1>2. \A u \in Threads : g[u] = IF u = t THEN v ELSE f[u]
  OBVIOUS
<1> HIDE DEF g
<1>3. RunningIn(g) = RunningIn(f)
  BY <1>2 DEF RunningIn, Stopped
<1>4. AliveIn(g) = AliveIn(f) \ {t}
  BY <1>2 DEF AliveIn
<1>5. t \in AliveIn(f) /\ AliveIn(f) \subseteq Threads
  BY DEF AliveIn
<1>6. Cardinality(AliveIn(g)) = Cardinality(AliveIn(f)) - 1
  BY <1>4, <1>5, Finite, FS_RemoveElement
<1> QED
  BY <1>1, <1>3, <1>6 DEF g

\* A running thread that starts the threads of U.
LEMMA Starts ==
    ASSUME NEW f \in [Threads -> ThreadStates], NEW t \in Threads,
           NEW v \in ThreadStates, f[t].pc \notin Stopped, v.pc \notin Stopped,
           NEW U \in SUBSET Threads, \A u \in U : f[u].pc = "none"
    PROVE  LET g == [u \in Threads |-> IF u = t THEN v
                                       ELSE IF u \in U THEN At("idle") ELSE f[u]]
           IN  /\ g \in [Threads -> ThreadStates]
               /\ Cardinality(AliveIn(g)) = Cardinality(AliveIn(f)) + Cardinality(U)
               /\ Cardinality(RunningIn(g)) = Cardinality(RunningIn(f)) + Cardinality(U)
<1> DEFINE g == [u \in Threads |-> IF u = t THEN v
                                   ELSE IF u \in U THEN At("idle") ELSE f[u]]
<1>1. At("idle") \in ThreadStates /\ At("idle").pc = "idle"
  BY DEF At, ThreadStates, PCs
<1>2. g \in [Threads -> ThreadStates]
  BY <1>1
<1>3. \A u \in Threads : g[u] = IF u = t THEN v
                                ELSE IF u \in U THEN At("idle") ELSE f[u]
  OBVIOUS
<1> HIDE DEF g
<1>4. t \notin U
  BY DEF Stopped
<1>5. AliveIn(g) = AliveIn(f) \cup U /\ AliveIn(f) \cap U = {}
  BY <1>1, <1>3, <1>4 DEF AliveIn, Stopped
<1>6. RunningIn(g) = RunningIn(f) \cup U /\ RunningIn(f) \cap U = {}
  BY <1>1, <1>3, <1>4 DEF RunningIn, Stopped
<1>7. AliveIn(f) \subseteq Threads /\ RunningIn(f) \subseteq Threads
  BY DEF AliveIn, RunningIn
<1>8. /\ IsFiniteSet(U) /\ Cardinality(U) \in Nat
      /\ IsFiniteSet(AliveIn(f)) /\ Cardinality(AliveIn(f)) \in Nat
      /\ IsFiniteSet(RunningIn(f)) /\ Cardinality(RunningIn(f)) \in Nat
  BY <1>7, Finite
<1>9. Cardinality({}) = 0
  BY FS_EmptySet
<1>10. Cardinality(AliveIn(f) \cup U)
          = Cardinality(AliveIn(f)) + Cardinality(U) - Cardinality(AliveIn(f) \cap U)
  BY <1>8, FS_Union
<1>11. Cardinality(RunningIn(f) \cup U)
          = Cardinality(RunningIn(f)) + Cardinality(U) - Cardinality(RunningIn(f) \cap U)
  BY <1>8, FS_Union
<1>12. Cardinality(AliveIn(g)) = Cardinality(AliveIn(f)) + Cardinality(U) - 0
  BY <1>5, <1>9, <1>10, Zenon
<1>13. Cardinality(RunningIn(g)) = Cardinality(RunningIn(f)) + Cardinality(U) - 0
  BY <1>6, <1>9, <1>11, Zenon
<1> QED
  BY <1>2, <1>8, <1>12, <1>13 DEF g

LEMMA Counts ==
    ASSUME NEW f
    PROVE  Cardinality(AliveIn(f)) \in Nat /\ Cardinality(RunningIn(f)) \in Nat
<1>1. AliveIn(f) \subseteq Threads /\ RunningIn(f) \subseteq Threads
  BY DEF AliveIn, RunningIn
<1> QED
  BY <1>1, Finite

-----------------------------------------------------------------------------
(* The invariant is inductive. *)

LEMMA InitInv == Init => Inv
<1> SUFFICES ASSUME Init PROVE Inv
  OBVIOUS
<1>1. th \in [Threads -> ThreadStates]
  BY DEF Init, At, NoThread, ThreadStates, PCs
<1>2. TypeOK
  <2>1. 0 \in 0 .. Capacity
    BY CapacityAssumption
  <2>2. /\ status \in [Tables -> {"new", "registered", "deleted"}]
        /\ tableLock \in [Tables -> Threads \cup {None}]
        /\ ch \in [Tables -> 0 .. Capacity]
    BY <2>1 DEF Init
  <2> QED
    BY <1>1, <2>2 DEF Init, TypeOK, ThreadStates
<1>3. 1 \in Threads
  BY MaxThreadsAssumption DEF Threads
<1>4. AliveIn(th) = {} \cup {1} /\ RunningIn(th) = {} \cup {1}
  BY <1>3 DEF Init, AliveIn, RunningIn, At, NoThread, Stopped
<1>5. Cardinality({} \cup {1}) = Cardinality({}) + 1
  <2>1. IsFiniteSet({})
    BY FS_EmptySet
  <2>2. Cardinality({} \cup {1}) = IF 1 \in {} THEN Cardinality({}) ELSE Cardinality({}) + 1
    BY <2>1, FS_AddElement, Zenon
  <2> QED
    BY <2>2
<1>6. Cardinality(AliveIn(th)) = 1 /\ Cardinality(RunningIn(th)) = 1
  BY <1>4, <1>5, FS_EmptySet
<1>7. Accounts
  BY <1>6 DEF Init, Accounts, Setups
<1> QED
  BY <1>2, <1>7 DEF Inv

\* A thread that exists has its place in the shutdown group: main still waits.
LEMMA MainWaits ==
    ASSUME Inv, NEW t \in Threads, th[t].pc # "none"
    PROVE  main # "done"
BY DEF Inv, Accounts, AliveIn

\* Nobody starts, is told to end, or ends.
LEMMA QuietStep ==
    ASSUME Inv, AliveIn(th') = AliveIn(th), RunningIn(th') = RunningIn(th),
           UNCHANGED <<shutdownVars, poolVars>>
    PROVE  Accounts'
BY DEF Inv, Accounts, Setups, shutdownVars, poolVars

\* A running thread goes to another place.
LEMMA MoveStep ==
    ASSUME Inv, NEW t \in Threads, NEW v \in ThreadStates,
           th[t].pc \notin Stopped, v.pc \notin Stopped, th' = [th EXCEPT ![t] = v],
           UNCHANGED <<shutdownVars, poolVars>>
    PROVE  th' \in [Threads -> ThreadStates] /\ Accounts'
<1>1. th \in [Threads -> ThreadStates]
  BY DEF Inv, TypeOK, ThreadStates
<1>2. /\ th' \in [Threads -> ThreadStates]
      /\ AliveIn(th') = AliveIn(th) /\ RunningIn(th') = RunningIn(th)
  BY <1>1, Moves
<1> QED
  BY <1>2, QuietStep

\* The places a thread can go to.
LEMMA Places ==
    ASSUME NEW pc \in PCs, NEW x \in Tables \cup {None}
    PROVE  /\ At(pc) \in ThreadStates /\ At(pc).pc = pc
           /\ [pc |-> pc, tab |-> x] \in ThreadStates
BY DEF At, ThreadStates

LEMMA GotoStep ==
    ASSUME Inv, NEW t \in Threads, NEW pc \in PCs, pc \notin Stopped,
           th[t].pc \notin Stopped, Goto(t, pc),
           UNCHANGED <<shutdownVars, poolVars>>
    PROVE  th' \in [Threads -> ThreadStates] /\ Accounts'
<1>1. At(pc) \in ThreadStates /\ At(pc).pc = pc
  BY DEF At, ThreadStates
<1> QED
  BY <1>1, MoveStep DEF Goto

LEMMA GotoWithStep ==
    ASSUME Inv, NEW t \in Threads, NEW pc \in PCs, pc \notin Stopped,
           NEW x \in Tables, th[t].pc \notin Stopped, GotoWith(t, pc, x),
           UNCHANGED <<shutdownVars, poolVars>>
    PROVE  th' \in [Threads -> ThreadStates] /\ Accounts'
<1> DEFINE v == [pc |-> pc, tab |-> x]
<1>1. v \in ThreadStates /\ v.pc = pc
  BY DEF ThreadStates
<1>2. th' = [th EXCEPT ![t] = v]
  BY DEF GotoWith
<1> HIDE DEF v
<1> QED
  BY <1>1, <1>2, MoveStep

\* Adjust starts as many threads as it counts, in the pool and in the group.
LEMMA AdjustStep ==
    ASSUME Inv, NEW t \in Threads, NEW pc \in PCs, pc \notin Stopped,
           th[t].pc \notin Stopped, NEW m \in Nat \ {0}, Adjust(t, pc, m),
           UNCHANGED <<flag, cancelled, signals, main>>
    PROVE  /\ th' \in [Threads -> ThreadStates]
           /\ group' \in Nat /\ numProcs' \in Nat /\ maxNumProcs' \in Nat
           /\ Accounts'
<1> DEFINE adj == IF numProcs < m THEN m - numProcs ELSE 0
           U == Unused(adj)
<1>1. /\ th \in [Threads -> ThreadStates]
      /\ group \in Nat /\ numProcs \in Nat /\ numProcs >= 1
  BY DEF Inv, Accounts, TypeOK, ThreadStates
<1>2. adj \in Nat
  BY <1>1
<1>3. U \in SUBSET Threads /\ \A u \in U : th[u].pc = "none"
  BY DEF Unused, Alive
<1>4. /\ Cardinality(U) = adj /\ maxNumProcs' = m
      /\ numProcs' = numProcs + adj /\ group' = group + adj
      /\ th' = [u \in Threads |-> IF u = t THEN At(pc)
                                  ELSE IF u \in U THEN At("idle") ELSE th[u]]
  BY DEF Adjust
<1>5. At(pc) \in ThreadStates /\ At(pc).pc = pc
  BY DEF At, ThreadStates
<1> HIDE DEF U, adj
<1>6. /\ th' \in [Threads -> ThreadStates]
      /\ Cardinality(AliveIn(th')) = Cardinality(AliveIn(th)) + Cardinality(U)
      /\ Cardinality(RunningIn(th')) = Cardinality(RunningIn(th)) + Cardinality(U)
  BY <1>1, <1>3, <1>4, <1>5, Starts
<1>7. Cardinality(AliveIn(th)) \in Nat /\ Cardinality(RunningIn(th)) \in Nat
  BY Counts
<1>8. main # "done"
  BY MainWaits DEF Stopped
<1>9. Accounts'
  BY <1>1, <1>2, <1>4, <1>6, <1>7, <1>8 DEF Inv, Accounts, Setups
<1> QED
  BY <1>1, <1>2, <1>4, <1>6, <1>9

LEMMA LoopInv == ASSUME Inv, NEW t \in Threads, Loop(t) PROVE Inv'
<1>1. /\ th \in [Threads -> ThreadStates]
      /\ numProcs \in Nat /\ maxNumProcs \in Nat /\ numProcs >= 1 /\ maxNumProcs >= 1
  BY DEF Inv, Accounts, TypeOK, ThreadStates
<1>2. th[t].pc = "idle" /\ th[t].pc \notin Stopped
  BY DEF Loop, Stopped
<1>3. /\ UNCHANGED <<shutdownVars, maxNumProcs, stateVars, pipeVars, lockVars, faults>>
      /\ main # "done"
  BY <1>2, MainWaits DEF Loop
<1>4. "exit" \in PCs /\ "find" \in PCs /\ None \in Tables \cup {None}
  BY DEF PCs
<1>5. ASSUME th' \in [Threads -> ThreadStates], numProcs' \in Nat, Accounts'
      PROVE  Inv'
  BY <1>3, <1>5 DEF Inv, TypeOK, ThreadStates, shutdownVars, stateVars, pipeVars, lockVars
<1>6. CASE ~flag /\ ~MustTerminate /\ Goto(t, "find") /\ UNCHANGED numProcs
  <2>1. UNCHANGED <<shutdownVars, poolVars>>
    BY <1>3, <1>6 DEF poolVars
  <2>2. th' \in [Threads -> ThreadStates] /\ Accounts'
    BY <1>2, <1>4, <1>6, <2>1, GotoStep DEF Stopped
  <2> QED
    BY <1>1, <1>5, <1>6, <2>2
<1>7. ASSUME Goto(t, "exit"), numProcs' = numProcs - (IF flag THEN 0 ELSE 1),
             ~flag => MustTerminate
      PROVE  Inv'
  <2>1. At("exit") \in ThreadStates /\ At("exit").pc = "exit"
    BY <1>4, Places
  <2>2. /\ th' \in [Threads -> ThreadStates]
        /\ AliveIn(th') = AliveIn(th)
        /\ Cardinality(RunningIn(th')) = Cardinality(RunningIn(th)) - 1
    BY <1>1, <1>2, <1>7, <2>1, Stops DEF Goto
  <2>3. Cardinality(RunningIn(th)) \in Nat
    BY Counts
  <2>4. numProcs' \in Nat /\ numProcs' >= 1
    BY <1>1, <1>7 DEF MustTerminate
  <2>5. Accounts'
    BY <1>1, <1>3, <1>7, <2>2, <2>3, <2>4 DEF Inv, Accounts, Setups, shutdownVars
  <2> QED
    BY <1>5, <2>2, <2>4, <2>5
<1> QED
  BY <1>1, <1>6, <1>7 DEF Loop

LEMMA DoneInv == ASSUME Inv, NEW t \in Threads, Done(t) PROVE Inv'
<1>1. th \in [Threads -> ThreadStates] /\ group \in Nat
  BY DEF Inv, TypeOK, ThreadStates
<1>2. NoThread \in ThreadStates /\ NoThread.pc = "none"
  BY DEF NoThread, ThreadStates, PCs
<1>3. /\ th' \in [Threads -> ThreadStates]
      /\ RunningIn(th') = RunningIn(th)
      /\ Cardinality(AliveIn(th')) = Cardinality(AliveIn(th)) - 1
  BY <1>1, <1>2, Ends DEF Done
<1>4. main # "done"
  BY MainWaits DEF Done
<1>5. /\ Cardinality(AliveIn(th)) \in Nat /\ Cardinality(AliveIn(th')) \in Nat
      /\ group' = group - 1
      /\ UNCHANGED <<flag, cancelled, signals, main, poolVars, stateVars, pipeVars,
                     lockVars, faults>>
  BY Counts DEF Done
<1>6. Accounts'
  BY <1>1, <1>3, <1>4, <1>5 DEF Inv, Accounts, Setups, poolVars
<1>7. group' \in Nat
  BY <1>1, <1>3, <1>5 DEF Inv, Accounts, Setups
<1> QED
  BY <1>3, <1>5, <1>6, <1>7
     DEF Inv, TypeOK, ThreadStates, poolVars, stateVars, pipeVars, lockVars

\* What LeaveReader and LeaveStreamer do to the locks keeps their types.
LEMMA LocksTyped ==
    ASSUME Inv
    PROVE  /\ \A t \in Threads, x \in Tables :
                 [tableLock EXCEPT ![x] = t] \in [Tables -> Threads \cup {None}]
           /\ \A x : [tableLock EXCEPT ![x] = None] \in [Tables -> Threads \cup {None}]
<1>1. tableLock \in [Tables -> Threads \cup {None}]
  BY DEF Inv, TypeOK
<1> QED
  BY <1>1

LEMMA FindWorkInv == ASSUME Inv, NEW t \in Threads, FindWork(t) PROVE Inv'
<1>1. /\ th[t].pc = "find" /\ th[t].pc \notin Stopped
      /\ UNCHANGED <<shutdownVars, poolVars, status, pipeVars, tableLock>>
  BY DEF FindWork, Stopped
<1>2. \E pc \in PCs \ Stopped : Goto(t, pc)
  BY DEF FindWork, PCs, Stopped
<1>3. th' \in [Threads -> ThreadStates] /\ Accounts'
  BY <1>1, <1>2, GotoStep
<1>4. instance' \in BOOLEAN
  BY DEF FindWork, Inv, TypeOK
<1>5. clusterLock' \in Threads \cup {None}
  BY DEF FindWork, Inv, TypeOK
<1>6. faults' \in Nat
  BY DEF FindWork, Fault, Inv, TypeOK
<1>7. gtid' \subseteq Tables
  BY DEF FindWork, SaveGtid, Registered, Inv, TypeOK
<1> QED
  BY <1>1, <1>3, <1>4, <1>5, <1>6, <1>7
     DEF Inv, TypeOK, ThreadStates, shutdownVars, poolVars, pipeVars

LEMMA UpdateStateInv == ASSUME Inv, NEW t \in Threads, UpdateState(t) PROVE Inv'
<1> DEFINE found == Registered \ NoKey
<1>1. /\ th[t].pc \notin Stopped
      /\ UNCHANGED <<flag, cancelled, signals, main, status, ch, events, instance, tableLock>>
  BY DEF UpdateState, Stopped
<1>2. "idle" \in PCs \ Stopped /\ "read" \in PCs \ Stopped
  BY DEF PCs, Stopped
<1>3. found \subseteq Tables /\ Registered \subseteq Tables
  BY DEF Registered
<1>4. PoolSize(Cardinality(found)) \in Nat \ {0} /\ PoolSize(0) \in Nat \ {0}
  <2>1. Cardinality(found) \in Nat
    BY <1>3, TablesAssumption, FS_Subset, FS_CardinalityType
  <2> QED
    BY <2>1 DEF PoolSize
<1>5. gtid' \subseteq Tables /\ tables' \subseteq Tables
      /\ clusterLock' \in Threads \cup {None} /\ faults' \in Nat
  BY <1>3 DEF UpdateState, LeaveReader, SaveGtid, Fault, Inv, TypeOK
<1> DEFINE Typed == /\ th' \in [Threads -> ThreadStates]
                    /\ group' \in Nat /\ numProcs' \in Nat /\ maxNumProcs' \in Nat
                    /\ Accounts'
<1>6. \/ \E pc \in {"idle", "read"} :
           \E m \in {PoolSize(Cardinality(found)), PoolSize(0)} : Adjust(t, pc, m)
      \/ Goto(t, "idle") /\ UNCHANGED <<poolVars, group>>
  BY DEF UpdateState
<1> HIDE DEF found
<1>7. ASSUME \E pc \in {"idle", "read"} :
               \E m \in {PoolSize(Cardinality(found)), PoolSize(0)} : Adjust(t, pc, m)
      PROVE  Typed
  <2>1. PICK pc \in {"idle", "read"} :
               \E m \in {PoolSize(Cardinality(found)), PoolSize(0)} : Adjust(t, pc, m)
    BY <1>7
  <2>2. PICK m \in {PoolSize(Cardinality(found)), PoolSize(0)} : Adjust(t, pc, m)
    BY <2>1
  <2>3. m \in Nat \ {0} /\ pc \in PCs /\ pc \notin Stopped
    BY <1>2, <1>4
  <2> QED
    BY <1>1, <2>2, <2>3, AdjustStep
<1>8. ASSUME Goto(t, "idle"), UNCHANGED <<poolVars, group>>
      PROVE  Typed
  <2>1. UNCHANGED <<shutdownVars, poolVars>>
    BY <1>1, <1>8 DEF shutdownVars
  <2>2. th' \in [Threads -> ThreadStates] /\ Accounts'
    BY <1>1, <1>2, <1>8, <2>1, GotoStep
  <2> QED
    BY <1>8, <2>2 DEF Inv, TypeOK, poolVars
<1>9. Typed
  BY <1>6, <1>7, <1>8
<1> QED
  BY <1>1, <1>5, <1>9 DEF Inv, TypeOK, ThreadStates

LEMMA ReadEventInv == ASSUME Inv, NEW t \in Threads, ReadEvent(t) PROVE Inv'
<1>1. /\ th[t].pc \notin Stopped
      /\ UNCHANGED <<shutdownVars, poolVars, stateVars, tables, ch, lockVars, faults>>
  BY DEF ReadEvent, Stopped
<1>2. PICK x \in tables : GotoWith(t, "push", x)
  BY DEF ReadEvent
<1>3. x \in Tables /\ "push" \in PCs /\ "push" \notin Stopped
  BY DEF Inv, TypeOK, PCs, Stopped
<1>4. th' \in [Threads -> ThreadStates] /\ Accounts'
  BY <1>1, <1>2, <1>3, GotoWithStep
<1>5. events' \in Nat
  BY DEF ReadEvent, Inv, TypeOK
<1> QED
  BY <1>1, <1>4, <1>5
     DEF Inv, TypeOK, ThreadStates, shutdownVars, poolVars, stateVars, lockVars

LEMMA PushInv == ASSUME Inv, NEW t \in Threads, Push(t) PROVE Inv'
<1>1. /\ th[t].pc \notin Stopped
      /\ UNCHANGED <<shutdownVars, poolVars, stateVars, tables, events, lockVars, faults>>
  BY DEF Push, Stopped
<1>2. Goto(t, "read") /\ "read" \in PCs /\ "read" \notin Stopped
  BY DEF Push, PCs, Stopped
<1>3. th' \in [Threads -> ThreadStates] /\ Accounts'
  BY <1>1, <1>2, GotoStep
<1>4. ch' \in [Tables -> 0 .. Capacity]
  <2> DEFINE x == th[t].tab
  <2>1. ch \in [Tables -> 0 .. Capacity]
    BY DEF Inv, TypeOK
  <2>2. \/ ch[x] < Capacity /\ ch' = [ch EXCEPT ![x] = ch[x] + 1]
        \/ UNCHANGED ch
    BY DEF Push
  <2> HIDE DEF x
  <2>3. x \in Tables /\ ch[x] < Capacity => ch[x] + 1 \in 0 .. Capacity
    BY <2>1, CapacityAssumption
  <2> QED
    BY <2>1, <2>2, <2>3
<1> QED
  BY <1>1, <1>3, <1>4
     DEF Inv, TypeOK, ThreadStates, shutdownVars, poolVars, stateVars, lockVars

LEMMA StopReadingInv == ASSUME Inv, NEW t \in Threads, StopReading(t) PROVE Inv'
<1>1. /\ th[t].pc \notin Stopped
      /\ UNCHANGED <<shutdownVars, poolVars, status, ch, events, instance, tableLock>>
  BY DEF StopReading, Stopped
<1>2. Goto(t, "idle") /\ "idle" \in PCs /\ "idle" \notin Stopped
  BY DEF StopReading, LeaveReader, PCs, Stopped
<1>3. th' \in [Threads -> ThreadStates] /\ Accounts'
  BY <1>1, <1>2, GotoStep
<1>4. tables' \subseteq Tables /\ clusterLock' \in Threads \cup {None} /\ faults' \in Nat
  BY DEF StopReading, LeaveReader, Fault, Inv, TypeOK
<1>5. gtid' \subseteq Tables
  BY DEF StopReading, LeaveReader, SaveGtid, Registered, Inv, TypeOK
<1> QED
  BY <1>1, <1>3, <1>4, <1>5 DEF Inv, TypeOK, ThreadStates, shutdownVars, poolVars

LEMMA LockTableInv == ASSUME Inv, NEW t \in Threads, LockTable(t) PROVE Inv'
<1>1. /\ th[t].pc \notin Stopped
      /\ UNCHANGED <<shutdownVars, poolVars, stateVars, pipeVars, instance, clusterLock, faults>>
  BY DEF LockTable, Stopped
<1>2. {"idle", "start"} \subseteq PCs \ Stopped
  BY DEF PCs, Stopped
<1>3. /\ th' \in [Threads -> ThreadStates] /\ Accounts'
      /\ tableLock' \in [Tables -> Threads \cup {None}]
  <2>1. CASE Goto(t, "idle") /\ UNCHANGED tableLock
    BY <1>1, <1>2, <2>1, GotoStep DEF Inv, TypeOK
  <2>2. ASSUME NEW x \in Rows, GotoWith(t, "start", x), tableLock' = [tableLock EXCEPT ![x] = t]
        PROVE  /\ th' \in [Threads -> ThreadStates] /\ Accounts'
               /\ tableLock' \in [Tables -> Threads \cup {None}]
    <3>1. x \in Tables
      BY DEF Rows, Registered
    <3>2. th' \in [Threads -> ThreadStates] /\ Accounts'
      BY <1>1, <1>2, <2>2, <3>1, GotoWithStep
    <3> QED
      BY <2>2, <3>1, <3>2, LocksTyped
  <2> QED
    BY <2>1, <2>2 DEF LockTable
<1> QED
  BY <1>1, <1>3 DEF Inv, TypeOK, ThreadStates, shutdownVars, poolVars, stateVars, pipeVars

LEMMA LeaveStreamerStep ==
    ASSUME Inv, NEW t \in Threads, th[t].pc \notin Stopped, LeaveStreamer(t),
           UNCHANGED <<shutdownVars, poolVars>>
    PROVE  /\ th' \in [Threads -> ThreadStates] /\ Accounts'
           /\ tableLock' \in [Tables -> Threads \cup {None}]
<1>1. Goto(t, "idle") /\ "idle" \in PCs /\ "idle" \notin Stopped
  BY DEF LeaveStreamer, PCs, Stopped
<1>2. th' \in [Threads -> ThreadStates] /\ Accounts'
  BY <1>1, GotoStep
<1> QED
  BY <1>2, LocksTyped DEF LeaveStreamer

LEMMA StartStreamingInv == ASSUME Inv, NEW t \in Threads, StartStreaming(t) PROVE Inv'
<1>1. /\ th[t].pc \notin Stopped
      /\ UNCHANGED <<shutdownVars, poolVars, stateVars, pipeVars, instance, clusterLock>>
  BY DEF StartStreaming, Stopped
<1>2. /\ th' \in [Threads -> ThreadStates] /\ Accounts'
      /\ tableLock' \in [Tables -> Threads \cup {None}]
  <2>1. CASE LeaveStreamer(t)
    BY <1>1, <2>1, LeaveStreamerStep
  <2>2. CASE th[t].tab \in gtid /\ GotoWith(t, "stream", th[t].tab) /\ UNCHANGED tableLock
    <3>1. th[t].tab \in Tables /\ "stream" \in PCs /\ "stream" \notin Stopped
      BY <2>2 DEF Inv, TypeOK, PCs, Stopped
    <3>2. th' \in [Threads -> ThreadStates] /\ Accounts'
      BY <1>1, <2>2, <3>1, GotoWithStep
    <3> QED
      BY <2>2, <3>2 DEF Inv, TypeOK
  <2> QED
    BY <2>1, <2>2 DEF StartStreaming
<1>3. faults' \in Nat
  BY DEF StartStreaming, Fault, Inv, TypeOK
<1> QED
  BY <1>1, <1>2, <1>3 DEF Inv, TypeOK, ThreadStates, shutdownVars, poolVars, stateVars, pipeVars

LEMMA StreamInv == ASSUME Inv, NEW t \in Threads, Stream(t) PROVE Inv'
<1>1. /\ th[t].pc \notin Stopped
      /\ UNCHANGED <<shutdownVars, poolVars, stateVars, tables, events, instance, clusterLock>>
  BY DEF Stream, Stopped
<1>2. /\ th' \in [Threads -> ThreadStates] /\ Accounts'
      /\ tableLock' \in [Tables -> Threads \cup {None}]
  <2>1. CASE LeaveStreamer(t)
    BY <1>1, <2>1, LeaveStreamerStep
  <2>2. CASE UNCHANGED <<th, tableLock>>
    <3>1. Accounts'
      BY <1>1, <2>2, QuietStep
    <3> QED
      BY <2>2, <3>1 DEF Inv, TypeOK, ThreadStates
  <2> QED
    BY <2>1, <2>2 DEF Stream
<1>3. ch' \in [Tables -> 0 .. Capacity]
  <2> DEFINE x == th[t].tab
  <2>1. ch \in [Tables -> 0 .. Capacity]
    BY DEF Inv, TypeOK
  <2>2. \/ ch[x] > 0 /\ ch' = [ch EXCEPT ![x] = ch[x] - 1]
        \/ UNCHANGED ch
    BY DEF Stream
  <2> HIDE DEF x
  <2>3. x \in Tables /\ ch[x] > 0 => ch[x] - 1 \in 0 .. Capacity
    BY <2>1, CapacityAssumption
  <2> QED
    BY <2>1, <2>2, <2>3
<1>4. faults' \in Nat
  BY DEF Stream, Fault, Inv, TypeOK
<1> QED
  BY <1>1, <1>2, <1>3, <1>4 DEF Inv, TypeOK, ThreadStates, shutdownVars, poolVars, stateVars

LEMMA InitiateInv == ASSUME Inv, Initiate PROVE Inv'
<1>1. /\ group \in Nat /\ Cardinality(AliveIn(th)) \in Nat
      /\ UNCHANGED <<main, poolVars, th, stateVars, pipeVars, lockVars, faults>>
  BY Counts DEF Inv, TypeOK, Initiate
<1>2. AliveIn(th') = AliveIn(th) /\ RunningIn(th') = RunningIn(th)
  BY <1>1
<1>3. group' \in Nat
  BY <1>1 DEF Inv, Accounts, Setups, Initiate
<1>4. flag' \in BOOLEAN /\ cancelled' \in BOOLEAN /\ signals' \in {"wait", "cancel", "done"}
  BY DEF Inv, TypeOK, Initiate
<1>5. Accounts'
  <2>1. (flag <=> signals # "wait")'
    BY DEF Inv, Accounts, Initiate
  <2>2. group' = Cardinality(AliveIn(th')) + Setups'
    BY <1>1, <1>2 DEF Inv, Accounts, Setups, Initiate
  <2>3. flag' /\ (main' = "done" => FALSE)
    BY <1>1 DEF Inv, Accounts, Initiate
  <2> QED
    BY <1>1, <2>1, <2>2, <2>3 DEF Inv, Accounts, poolVars
<1> QED
  BY <1>1, <1>3, <1>4, <1>5 DEF Inv, TypeOK, poolVars, stateVars, pipeVars, lockVars

LEMMA WaitInv == ASSUME Inv, Wait PROVE Inv'
<1>1. /\ main' = "done" /\ group = 0
      /\ UNCHANGED <<flag, cancelled, group, signals, poolVars, th, stateVars, pipeVars,
                     lockVars, faults>>
  BY DEF Wait
<1>2. Cardinality(AliveIn(th)) \in Nat
  BY Counts
<1>3. signals = "done" /\ Cardinality(AliveIn(th)) = 0
  BY <1>1, <1>2 DEF Inv, Accounts, Setups
<1>4. AliveIn(th) \subseteq Threads
  BY DEF AliveIn
<1>5. AliveIn(th) = {}
  BY <1>3, <1>4, Finite, FS_EmptySet
<1>6. Accounts'
  BY <1>1, <1>3, <1>5 DEF Inv, Accounts, Setups, poolVars
<1> QED
  BY <1>1, <1>6 DEF Inv, TypeOK, poolVars, stateVars, pipeVars, lockVars

LEMMA TableInv ==
    ASSUME Inv, NEW x \in Tables, Register(x) \/ Deregister(x)
    PROVE  Inv'
<1>1. /\ UNCHANGED <<shutdownVars, poolVars, th, gtid, pipeVars, lockVars, faults>>
      /\ status' \in [Tables -> {"new", "registered", "deleted"}]
  BY DEF Register, Deregister, Inv, TypeOK
<1>2. Accounts'
  BY <1>1, QuietStep
<1> QED
  BY <1>1, <1>2 DEF Inv, TypeOK, shutdownVars, poolVars, pipeVars, lockVars

LEMMA NextInv == Inv /\ [Next]_vars => Inv'
<1> SUFFICES ASSUME Inv, [Next]_vars PROVE Inv'
  OBVIOUS
<1>1. ASSUME NEW t \in Threads, ThreadStep(t) PROVE Inv'
  BY <1>1, LoopInv, DoneInv, FindWorkInv, UpdateStateInv, PushInv, StopReadingInv,
     LockTableInv, StartStreamingInv, StreamInv DEF ThreadStep
<1>2. ASSUME NEW t \in Threads, ReadEvent(t) PROVE Inv'
  BY <1>2, ReadEventInv
<1>3. ASSUME NEW x \in Tables, Register(x) \/ Deregister(x) PROVE Inv'
  BY <1>3, TableInv
<1>4. CASE Initiate
  BY <1>4, InitiateInv
<1>5. CASE Wait
  BY <1>5, WaitInv
<1>6. CASE UNCHANGED vars
  BY <1>6 DEF vars, shutdownVars, poolVars, stateVars, pipeVars, lockVars,
              Inv, TypeOK, Accounts, Setups
<1> QED
  BY <1>1, <1>2, <1>3, <1>4, <1>5, <1>6 DEF Next, Finished

LEMMA InvAlways == Spec => []Inv
BY InitInv, NextInv, PTL DEF Spec

-----------------------------------------------------------------------------
(* What the accounts are for. *)

\* The variables keep their types: no counter of the pool or of the shutdown
\* group goes below zero, no channel beyond its capacity (pool.go, shutdown.go,
\* local.go).
THEOREM TypeCorrect == Spec => []TypeOK
<1>1. Inv => TypeOK
  BY DEF Inv
<1> QED
  BY <1>1, InvAlways, PTL

\* Until a shutdown numProcs counts the threads that have not been told to end,
\* and there is one (pool.go:62-97).
THEOREM PoolIsCounted == Spec => []PoolCount
<1>1. Inv => PoolCount
  BY DEF Inv, Accounts, PoolCount, RunningIn, Stopped
<1> QED
  BY <1>1, InvAlways, PTL

\* When shutdown.Wait has returned, the signal has arrived and no thread is left
\* (shutdown.go:106, pool.go:62).
THEOREM WaitsForAllAlways == Spec => []WaitsForAll
<1>1. Inv => WaitsForAll
  BY DEF Inv, Accounts, WaitsForAll, AliveIn, Alive
<1> QED
  BY <1>1, InvAlways, PTL

-----------------------------------------------------------------------------
(* The locks.  A step leaves them and their holders as they are, or one thread
   takes one or leaves what it has. *)

\* As far as the locks go the two are the same.
Alike(a, b) ==
    /\ Reads(a) <=> Reads(b)
    /\ Works(a) <=> Works(b)
    /\ Works(a) => a.tab = b.tab

OthersAlike(t) == \A u \in Threads \ {t} : Alike(th[u], th'[u])

\* The five ways.
LocksStay ==
    /\ \A u \in Threads : Alike(th[u], th'[u])
    /\ UNCHANGED <<clusterLock, tableLock>>

BecomesReader(t) ==
    /\ ~Reads(th[t]) /\ ~Works(th[t]) /\ Reads(th'[t]) /\ ~Works(th'[t]) /\ OthersAlike(t)
    /\ clusterLock = None /\ clusterLock' = t
    /\ UNCHANGED tableLock

IsNoReader(t) ==
    /\ Reads(th[t]) /\ ~Works(th[t]) /\ ~Reads(th'[t]) /\ ~Works(th'[t]) /\ OthersAlike(t)
    /\ clusterLock' = None
    /\ UNCHANGED tableLock

BecomesStreamer(t, x) ==
    /\ ~Reads(th[t]) /\ ~Works(th[t]) /\ ~Reads(th'[t]) /\ Works(th'[t]) /\ OthersAlike(t)
    /\ th'[t].tab = x
    /\ tableLock[x] = None /\ tableLock' = [tableLock EXCEPT ![x] = t]
    /\ UNCHANGED clusterLock

IsNoStreamer(t) ==
    /\ ~Reads(th[t]) /\ Works(th[t]) /\ ~Reads(th'[t]) /\ ~Works(th'[t]) /\ OthersAlike(t)
    /\ tableLock' = [tableLock EXCEPT ![th[t].tab] = None]
    /\ UNCHANGED clusterLock

LocksMove(t) ==
    \/ BecomesReader(t) \/ IsNoReader(t)
    \/ (\E x \in Tables : BecomesStreamer(t, x)) \/ IsNoStreamer(t)

\* What a thread that goes somewhere leaves alone.
LEMMA Going ==
    ASSUME Inv, NEW t \in Threads, NEW pc, NEW x, Goto(t, pc) \/ GotoWith(t, pc, x)
    PROVE  OthersAlike(t) /\ th'[t].pc = pc /\ (GotoWith(t, pc, x) => th'[t].tab = x)
<1>1. th \in [Threads -> ThreadStates]
  BY DEF Inv, TypeOK, ThreadStates
<1> QED
  BY <1>1 DEF Goto, GotoWith, At, OthersAlike, Alike

\* Adjust moves the caller, and wakes threads that nobody used.
LEMMA Adjusting ==
    ASSUME Inv, NEW t \in Threads, NEW pc, NEW m, Adjust(t, pc, m)
    PROVE  OthersAlike(t) /\ th'[t].pc = pc
<1>1. PICK U \in SUBSET Threads :
          /\ \A u \in U : th[u].pc = "none"
          /\ th' = [u \in Threads |-> IF u = t THEN At(pc) ELSE IF u \in U THEN At("idle") ELSE th[u]]
  BY DEF Adjust, Unused, Alive
<1>2. th'[t].pc = pc
  BY <1>1 DEF At
<1>3. ASSUME NEW u \in Threads \ {t} PROVE Alike(th[u], th'[u])
  BY <1>1 DEF Alike, At, Reads, Works
<1> QED
  BY <1>2, <1>3 DEF OthersAlike

\* Two places without a lock, or of the reader.
LEMMA QuietMove ==
    ASSUME NEW t \in Threads, OthersAlike(t), UNCHANGED <<clusterLock, tableLock>>,
           Alike(th[t], th'[t])
    PROVE  LocksStay
BY DEF OthersAlike, LocksStay

LEMMA ReaderSteps ==
    ASSUME Inv, NEW t \in Threads, FindWork(t) \/ UpdateState(t) \/ ReadEvent(t) \/ Push(t) \/ StopReading(t)
    PROVE  LocksStay \/ LocksMove(t)
<1>1. CASE FindWork(t)
  <2>1. th[t].pc = "find" /\ UNCHANGED tableLock
    BY <1>1 DEF FindWork
  <2>2. \/ clusterLock = None /\ clusterLock' = t /\ Goto(t, "update")
        \/ UNCHANGED clusterLock /\ (Goto(t, "lock") \/ Goto(t, "idle"))
    BY <1>1 DEF FindWork
  <2>3. CASE clusterLock = None /\ clusterLock' = t /\ Goto(t, "update")
    <3>1. OthersAlike(t) /\ th'[t].pc = "update"
      BY <2>3, Going
    <3> QED
      BY <2>1, <2>3, <3>1 DEF LocksMove, BecomesReader, Reads, Works
  <2>4. CASE UNCHANGED clusterLock /\ (Goto(t, "lock") \/ Goto(t, "idle"))
    <3>1. OthersAlike(t) /\ th'[t].pc \in {"lock", "idle"}
      BY <2>4, Going
    <3>2. Alike(th[t], th'[t])
      BY <2>1, <3>1 DEF Alike, Reads, Works
    <3> QED
      BY <2>1, <2>4, <3>1, <3>2, QuietMove
  <2> QED
    BY <2>2, <2>3, <2>4
<1>2. CASE UpdateState(t)
  <2> DEFINE found == Registered \ NoKey
  <2>1. th[t].pc \in {"update", "read"} /\ UNCHANGED tableLock
    BY <1>2 DEF UpdateState
  <2>2. \/ UNCHANGED clusterLock /\ Adjust(t, "read", PoolSize(Cardinality(found)))
        \/ clusterLock' = None /\ \E m : Adjust(t, "idle", m)
        \/ clusterLock' = None /\ Goto(t, "idle")
    BY <1>2 DEF UpdateState, LeaveReader
  <2> HIDE DEF found
  <2>3. CASE UNCHANGED clusterLock /\ Adjust(t, "read", PoolSize(Cardinality(found)))
    <3>1. OthersAlike(t) /\ th'[t].pc = "read"
      BY <2>3, Adjusting
    <3>2. Alike(th[t], th'[t])
      BY <2>1, <3>1 DEF Alike, Reads, Works
    <3> QED
      BY <2>1, <2>3, <3>1, <3>2, QuietMove
  <2>4. CASE clusterLock' = None /\ ((\E m : Adjust(t, "idle", m)) \/ Goto(t, "idle"))
    <3>1. OthersAlike(t) /\ th'[t].pc = "idle"
      BY <2>4, Adjusting, Going
    <3> QED
      BY <2>1, <2>4, <3>1 DEF LocksMove, IsNoReader, Reads, Works
  <2> QED
    BY <2>2, <2>3, <2>4
<1>3. CASE ReadEvent(t) \/ Push(t)
  <2>1. th[t].pc \in {"read", "push"} /\ UNCHANGED <<clusterLock, tableLock>>
    BY <1>3 DEF ReadEvent, Push, lockVars
  <2>2. Goto(t, "read") \/ \E x : GotoWith(t, "push", x)
    BY <1>3 DEF ReadEvent, Push
  <2>3. OthersAlike(t) /\ th'[t].pc \in {"read", "push"}
    BY <2>2, Going
  <2>4. Alike(th[t], th'[t])
    BY <2>1, <2>3 DEF Alike, Reads, Works
  <2> QED
    BY <2>1, <2>3, <2>4, QuietMove
<1>4. CASE StopReading(t)
  <2>1. th[t].pc = "read" /\ UNCHANGED tableLock /\ Goto(t, "idle") /\ clusterLock' = None
    BY <1>4 DEF StopReading, LeaveReader
  <2>2. OthersAlike(t) /\ th'[t].pc = "idle"
    BY <2>1, Going
  <2> QED
    BY <2>1, <2>2 DEF LocksMove, IsNoReader, Reads, Works
<1> QED
  BY <1>1, <1>2, <1>3, <1>4

LEMMA StreamerSteps ==
    ASSUME Inv, NEW t \in Threads, LockTable(t) \/ StartStreaming(t) \/ Stream(t)
    PROVE  LocksStay \/ LocksMove(t)
<1>1. UNCHANGED clusterLock
  BY DEF LockTable, StartStreaming, Stream
<1>2. CASE LockTable(t)
  <2>1. th[t].pc = "lock"
    BY <1>2 DEF LockTable
  <2>2. CASE Goto(t, "idle") /\ UNCHANGED tableLock
    <3>1. OthersAlike(t) /\ th'[t].pc = "idle"
      BY <2>2, Going
    <3>2. Alike(th[t], th'[t])
      BY <2>1, <3>1 DEF Alike, Reads, Works
    <3> QED
      BY <1>1, <2>2, <3>1, <3>2, QuietMove
  <2>3. ASSUME NEW x \in Rows, tableLock[x] = None, tableLock' = [tableLock EXCEPT ![x] = t],
               GotoWith(t, "start", x)
        PROVE  LocksMove(t)
    <3>1. x \in Tables
      BY DEF Rows, Registered
    <3>2. OthersAlike(t) /\ th'[t].pc = "start" /\ th'[t].tab = x
      BY <2>3, Going
    <3>3. BecomesStreamer(t, x)
      BY <1>1, <2>1, <2>3, <3>2 DEF BecomesStreamer, Reads, Works
    <3> QED
      BY <3>1, <3>3 DEF LocksMove
  <2> QED
    BY <1>2, <2>2, <2>3 DEF LockTable
<1>3. CASE StartStreaming(t) \/ Stream(t)
  <2>1. Works(th[t]) /\ ~Reads(th[t])
    BY <1>3 DEF StartStreaming, Stream, Works, Reads
  <2>2. \/ GotoWith(t, "stream", th[t].tab) /\ UNCHANGED tableLock
        \/ LeaveStreamer(t)
        \/ UNCHANGED <<th, tableLock>>
    BY <1>3 DEF StartStreaming, Stream
  <2>3. CASE GotoWith(t, "stream", th[t].tab) /\ UNCHANGED tableLock
    <3>1. OthersAlike(t) /\ th'[t].pc = "stream" /\ th'[t].tab = th[t].tab
      BY <2>3, Going
    <3>2. Alike(th[t], th'[t])
      BY <2>1, <3>1 DEF Alike, Reads, Works
    <3> QED
      BY <1>1, <2>3, <3>1, <3>2, QuietMove
  <2>4. CASE LeaveStreamer(t)
    <3>1. Goto(t, "idle") /\ tableLock' = [tableLock EXCEPT ![th[t].tab] = None]
      BY <2>4 DEF LeaveStreamer
    <3>2. OthersAlike(t) /\ th'[t].pc = "idle"
      BY <3>1, Going
    <3> QED
      BY <1>1, <2>1, <3>1, <3>2 DEF LocksMove, IsNoStreamer, Reads, Works
  <2>5. CASE UNCHANGED <<th, tableLock>>
    BY <1>1, <2>5 DEF LocksStay, Alike
  <2> QED
    BY <2>2, <2>3, <2>4, <2>5
<1> QED
  BY <1>2, <1>3

LEMMA NextLocks ==
    ASSUME Inv, [Next]_vars
    PROVE  LocksStay \/ \E t \in Threads : LocksMove(t)
<1>1. th \in [Threads -> ThreadStates]
  BY DEF Inv, TypeOK, ThreadStates
<1>2. CASE UNCHANGED <<th, clusterLock, tableLock>>
  BY <1>2 DEF LocksStay, Alike
<1>3. ASSUME NEW t \in Threads, Loop(t) PROVE LocksStay
  <2>1. th[t].pc = "idle" /\ UNCHANGED <<clusterLock, tableLock>> /\ (Goto(t, "exit") \/ Goto(t, "find"))
    BY <1>3 DEF Loop, lockVars
  <2>2. OthersAlike(t) /\ th'[t].pc \in {"exit", "find"}
    BY <2>1, Going
  <2>3. Alike(th[t], th'[t])
    BY <2>1, <2>2 DEF Alike, Reads, Works
  <2> QED
    BY <2>1, <2>2, <2>3, QuietMove
<1>4. ASSUME NEW t \in Threads, Done(t) PROVE LocksStay
  <2>1. th[t].pc = "exit" /\ UNCHANGED <<clusterLock, tableLock>> /\ th' = [th EXCEPT ![t] = NoThread]
    BY <1>4 DEF Done, lockVars
  <2>2. OthersAlike(t) /\ Alike(th[t], th'[t])
    BY <1>1, <2>1 DEF OthersAlike, Alike, Reads, Works, NoThread
  <2> QED
    BY <2>1, <2>2, QuietMove
<1>5. \/ UNCHANGED <<th, clusterLock, tableLock>>
      \/ \E t \in Threads : ThreadStep(t) \/ ReadEvent(t)
  BY DEF Next, vars, Register, Deregister, Initiate, Wait, Finished, lockVars
<1> QED
  BY <1>2, <1>3, <1>4, <1>5, ReaderSteps, StreamerSteps DEF ThreadStep

LEMMA LocksHeldAlways == Spec => [](Inv /\ LocksHeld)
<1>1. Init => LocksHeld
  BY NoneAssumption DEF Init, LocksHeld, Reads, Works, At, NoThread, Threads
<1>2. Inv /\ LocksHeld /\ [Next]_vars => LocksHeld'
  <2> SUFFICES ASSUME Inv, LocksHeld, [Next]_vars PROVE LocksHeld'
    OBVIOUS
  <2>1. tableLock \in [Tables -> Threads \cup {None}] /\ None \notin Threads
    BY NoneAssumption DEF Inv, TypeOK, Threads
  <2>2. CASE LocksStay
    BY <2>2 DEF LocksStay, LocksHeld, Alike
  <2>3. ASSUME NEW t \in Threads, BecomesReader(t) \/ IsNoReader(t) PROVE LocksHeld'
    BY <2>1, <2>3 DEF BecomesReader, IsNoReader, OthersAlike, LocksHeld, Alike
  <2>4. ASSUME NEW t \in Threads, NEW x \in Tables, BecomesStreamer(t, x) PROVE LocksHeld'
    <3>1. \A y \in Tables : tableLock'[y] = IF y = x THEN t ELSE tableLock[y]
      BY <2>1, <2>4 DEF BecomesStreamer
    <3> QED
      BY <2>1, <2>4, <3>1 DEF BecomesStreamer, OthersAlike, LocksHeld, Alike
  <2>5. ASSUME NEW t \in Threads, IsNoStreamer(t) PROVE LocksHeld'
    <3>1. \A y \in Tables : tableLock'[y] = IF y = th[t].tab THEN None ELSE tableLock[y]
      BY <2>1, <2>5 DEF IsNoStreamer
    <3> QED
      BY <2>1, <2>5, <3>1 DEF IsNoStreamer, OthersAlike, LocksHeld, Alike
  <2>6. LocksStay \/ \E t \in Threads : LocksMove(t)
    BY NextLocks
  <2> QED
    BY <2>2, <2>3, <2>4, <2>5, <2>6 DEF LocksMove
<1>3. Init => Inv
  BY InitInv
<1>4. Inv /\ [Next]_vars => Inv'
  BY NextInv
<1> QED
  BY <1>1, <1>2, <1>3, <1>4, PTL DEF Spec

\* A lock is its worker's and nobody else's, and no lock is left behind: one
\* reader of the cluster at most, and one streamer for a table, however threads
\* are started, fail and are told to end (mysql.go:765-790, streamer.go:150-213).
THEOREM LocksAreHeld == Spec => []LocksHeld
BY LocksHeldAlways, PTL

Held == {<<t, <<"cluster", None>>>> : t \in {u \in Threads : clusterLock = u}}
          \cup UNION {{<<t, <<"table", x>>>> : t \in {u \in Threads : tableLock[x] = u}} : x \in Tables}
Believers == {t \in Threads : Reads(th[t]) \/ Works(th[t])}
AllLocks == {<<"cluster", None>>} \cup {<<"table", x>> : x \in Tables}

\* Who has which, by the locks themselves.
LEMMA WhatIsHeld ==
    \A h : h \in Held <=> \E t \in Threads :
              \/ clusterLock = t /\ h = <<t, <<"cluster", None>>>>
              \/ \E x \in Tables : tableLock[x] = t /\ h = <<t, <<"table", x>>>>
BY DEF Held

\* Nobody has two, and who has one works with it.
LEMMA WhoHolds ==
    ASSUME LocksHeld, None \notin Threads, NEW h \in Held
    PROVE  /\ h[1] \in Believers /\ h[1] \in Threads
           /\ h = <<h[1], h[2]>>
BY WhatIsHeld DEF LocksHeld, Believers

LEMMA LockMoves ==
    ASSUME LocksHeld, NEW t \in Threads, LocksMove(t), None \notin Threads,
           tableLock \in [Tables -> Threads \cup {None}]
    PROVE  ProcessLocks!Next
<1> DEFINE C == <<"cluster", None>>
           T(x) == <<"table", x>>
<1>1. /\ \A h : h \in Held <=> \E u \in Threads :
              \/ clusterLock = u /\ h = <<u, C>>
              \/ \E x \in Tables : tableLock[x] = u /\ h = <<u, T(x)>>
      /\ \A h : h \in Held' <=> \E u \in Threads :
              \/ clusterLock' = u /\ h = <<u, C>>
              \/ \E x \in Tables : tableLock'[x] = u /\ h = <<u, T(x)>>
  BY WhatIsHeld DEF Held
<1>2. C \in AllLocks /\ \A x \in Tables : T(x) \in AllLocks /\ T(x) # C
  BY DEF AllLocks
<1>3. \A x, y : T(x) = T(y) => x = y
  OBVIOUS
<1>4. ASSUME t \notin Believers PROVE \A h \in Held : h[1] # t
  BY <1>4, WhoHolds
<1> HIDE DEF C, T
<1>5. ASSUME NEW k \in AllLocks, \A h \in Held : h[1] # t, \A h \in Held : h[2] # k,
             Held' = Held \cup {<<t, k>>}, Believers' = Believers \cup {t}
      PROVE  ProcessLocks!Next
  BY <1>5 DEF ProcessLocks!Next, ProcessLocks!Take, ProcessLocks!HasNone, ProcessLocks!Free,
              Held, Believers, AllLocks
<1>6. ASSUME Held' = {h \in Held : h[1] # t}, Believers' = Believers \ {t}
      PROVE  ProcessLocks!Next
  BY <1>6 DEF ProcessLocks!Next, ProcessLocks!GiveUp, ProcessLocks!Without, Held, Believers
<1>7. CASE BecomesReader(t)
  <2>1. t \notin Believers /\ Believers' = Believers \cup {t}
    BY <1>7 DEF BecomesReader, OthersAlike, Alike, Believers
  <2>2. Held' = Held \cup {<<t, C>>}
    BY <1>1, <1>7 DEF BecomesReader
  <2>3. \A h \in Held : h[2] # C
    BY <1>1, <1>2, <1>7 DEF BecomesReader
  <2> QED
    BY <1>2, <1>4, <1>5, <2>1, <2>2, <2>3
<1>8. ASSUME NEW x \in Tables, BecomesStreamer(t, x) PROVE ProcessLocks!Next
  <2>1. t \notin Believers /\ Believers' = Believers \cup {t}
    BY <1>8 DEF BecomesStreamer, OthersAlike, Alike, Believers
  <2>2. clusterLock' = clusterLock /\ \A y \in Tables : tableLock'[y] = IF y = x THEN t ELSE tableLock[y]
    BY <1>8 DEF BecomesStreamer
  <2>3. tableLock[x] = None
    BY <1>8 DEF BecomesStreamer
  <2>4. Held' = Held \cup {<<t, T(x)>>}
    BY <1>1, <2>2, <2>3
  <2>5. \A h \in Held : h[2] # T(x)
    BY <1>1, <1>2, <1>3, <2>3
  <2> QED
    BY <1>2, <1>4, <1>5, <2>1, <2>4, <2>5
<1>9. CASE IsNoReader(t)
  <2>1. Believers' = Believers \ {t}
    BY <1>9 DEF IsNoReader, OthersAlike, Alike, Believers
  <2>2. clusterLock = t /\ clusterLock' = None /\ tableLock' = tableLock /\ \A x \in Tables : tableLock[x] # t
    BY <1>9 DEF IsNoReader, LocksHeld
  <2>3. Held' = {h \in Held : h[1] # t}
    BY <1>1, <2>2
  <2> QED
    BY <1>6, <2>1, <2>3
<1>10. CASE IsNoStreamer(t)
  <2>1. Believers' = Believers \ {t}
    BY <1>10 DEF IsNoStreamer, OthersAlike, Alike, Believers
  <2>2. /\ clusterLock' = clusterLock /\ clusterLock # t
        /\ \A x \in Tables : /\ tableLock'[x] = IF x = th[t].tab THEN None ELSE tableLock[x]
                             /\ tableLock[x] = t <=> x = th[t].tab
    BY <1>10 DEF IsNoStreamer, LocksHeld
  <2>3. Held' = {h \in Held : h[1] # t}
    BY <1>1, <2>2
  <2> QED
    BY <1>6, <2>1, <2>3
<1> QED
  BY <1>7, <1>8, <1>9, <1>10 DEF LocksMove

\* The threads of a process use the locks as NamedLock allows: a thread takes one
\* that is free and has no other, works as its reader or streamer while it has it,
\* and gives it up when it ends (mysql.go:765-790, streamer.go:150-213).
THEOREM ThreadsUseNamedLock == Spec => UsesNamedLock
<1>1. Init => ProcessLocks!Init
  BY NoneAssumption DEF Init, ProcessLocks!Init, Reads, Works, At, NoThread, Threads
<1>2. Inv /\ LocksHeld /\ [Next]_vars => [ProcessLocks!Next]_ProcessLocks!vars
  <2> SUFFICES ASSUME Inv, LocksHeld, [Next]_vars
               PROVE  ProcessLocks!Next \/ UNCHANGED ProcessLocks!vars
    OBVIOUS
  <2>1. CASE LocksStay
    <3>1. UNCHANGED <<Held, Believers>>
      BY <2>1 DEF LocksStay, Alike, Held, Believers
    <3> QED
      BY <3>1 DEF ProcessLocks!vars, Held, Believers
  <2>2. tableLock \in [Tables -> Threads \cup {None}] /\ None \notin Threads
    BY NoneAssumption DEF Inv, TypeOK, Threads
  <2> QED
    BY <2>1, <2>2, NextLocks, LockMoves
<1> QED
  BY <1>1, <1>2, LocksHeldAlways, PTL DEF Spec, UsesNamedLock, ProcessLocks!Spec

=============================================================================
