--------------------------------- MODULE Workers ---------------------------------
(***************************************************************************)
(* One process in local mode: main.go, pool/pool.go, shutdown/shutdown.go  *)
(* and what their threads do with them.  A worker thread becomes the       *)
(* binlog reader of the cluster (changelog/mysql.go) or the streamer of a  *)
(* table (streamer/streamer.go); the reader resizes the pool to one thread *)
(* per table plus itself, and hands every event to the table's streamer    *)
(* through a channel of bounded capacity (pipe/local.go).                  *)
(*                                                                         *)
(* The reader and the streamers appear here by their control only: where   *)
(* they block, what ends them, which locks they hold.  BinlogReader,       *)
(* Bootstrap and TableStream have their details.                           *)
(***************************************************************************)
EXTENDS Integers, FiniteSets

CONSTANTS
    MaxThreads,  \* bound on goroutines that are alive at once
    Tables,      \* rows of state; a row that was deleted does not come back
    NoKey,       \* tables without a primary key, which the reader ignores
    Capacity,    \* of a channel: the input pipe's batch size
    MaxEvents,   \* bound on the events of the binlog
    MaxFaults,   \* bound on errors
    None

ASSUME MaxThreadsAssumption == MaxThreads \in Nat \ {0}
ASSUME TablesAssumption == IsFiniteSet(Tables)
ASSUME NoKeyAssumption == NoKey \subseteq Tables
ASSUME CapacityAssumption == Capacity \in Nat \ {0}
ASSUME NoneAssumption == None \notin Tables /\ None \notin 1 .. MaxThreads

VARIABLES
    flag,        \* shutdown.flag
    cancelled,   \* shutdown.Context is cancelled
    group,       \* shutdown.group, a WaitGroup
    signals,     \* the goroutine of Setup: "wait", "cancel", "done"
    main,        \* mainLow: "wait" in shutdown.Wait, or "done"
    numProcs,    \* poolImpl
    maxNumProcs,
    th,          \* the goroutines: what each does, and the table it works on
    status,      \* a row of state: not "new", "registered", "deleted"
    gtid,        \* the rows that have a GTID set
    tables,      \* the reader's entries
    instance,    \* thisInstanceCluster # "": the process had a reader
    clusterLock, \* the thread that holds "cluster.<name>"
    tableLock,   \* the thread that holds "table_id.<id>"
    ch,          \* messages in the channel of a table
    events,      \* events read so far
    faults       \* errors so far

shutdownVars == <<flag, cancelled, group, signals, main>>
poolVars  == <<numProcs, maxNumProcs>>
stateVars == <<status, gtid>>
pipeVars  == <<tables, ch, events>>
lockVars  == <<instance, clusterLock, tableLock>>
vars == <<shutdownVars, poolVars, th, stateVars, pipeVars, lockVars, faults>>

Threads == 1 .. MaxThreads
NoThread == [pc |-> "none", tab |-> None]
At(pc) == [pc |-> pc, tab |-> None]

Alive(t) == th[t].pc # "none"
Registered == {x \in Tables : status[x] = "registered"}

Goto(t, pc) == th' = [th EXCEPT ![t] = At(pc)]
GotoWith(t, pc, x) == th' = [th EXCEPT ![t] = [pc |-> pc, tab |-> x]]

Fault == faults < MaxFaults /\ faults' = faults + 1

-----------------------------------------------------------------------------
(* pool.go and the loop of worker in main.go. *)

\* The first n goroutines that are not in use.
Unused(n) ==
    LET free == {u \in Threads : ~Alive(u)}
    IN  {u \in free : Cardinality({v \in free : v < u}) < n}

\* Wrong: the threads are not registered with the shutdown group.
AdjustUnregistered(t, pc, m) ==
    LET adj == IF numProcs < m THEN m - numProcs ELSE 0
    IN  /\ Cardinality(Unused(adj)) = adj
        /\ maxNumProcs' = m
        /\ numProcs' = numProcs + adj
        /\ th' = [u \in Threads |-> IF u = t THEN At(pc)
                                    ELSE IF u \in Unused(adj) THEN At("idle") ELSE th[u]]
        /\ UNCHANGED group

\* Adjust: threads are registered with the shutdown group before they start.
\* The caller, thread t, goes on at pc.
Adjust(t, pc, m) ==
    LET adj == IF numProcs < m THEN m - numProcs ELSE 0
    IN  /\ Cardinality(Unused(adj)) = adj
        /\ maxNumProcs' = m
        /\ numProcs' = numProcs + adj
        /\ group' = group + adj
        /\ th' = [u \in Threads |-> IF u = t THEN At(pc)
                                    ELSE IF u \in Unused(adj) THEN At("idle") ELSE th[u]]

\* Wrong: the pool keeps threads it does not need.
TerminateNever == FALSE

\* The condition of Terminate.
MustTerminate == numProcs > maxNumProcs

\* Wrong: the size of the pool is not kept.
LoopNotCounted(t) ==
    /\ th[t].pc = "idle"
    /\ \/ flag /\ Goto(t, "exit")
       \/ ~flag /\ MustTerminate /\ Goto(t, "exit")
       \/ ~flag /\ ~MustTerminate /\ Goto(t, "find")
    /\ UNCHANGED <<shutdownVars, poolVars, stateVars, pipeVars, lockVars, faults>>

\* A thread that was started, or has been idle until the timer or the shutdown:
\* the loop's condition, shutdown.Initiated and then Terminate.
Loop(t) ==
    /\ th[t].pc = "idle"
    /\ \/ flag /\ Goto(t, "exit") /\ UNCHANGED numProcs
       \/ /\ ~flag /\ MustTerminate
          /\ numProcs' = numProcs - 1
          /\ Goto(t, "exit")
       \/ ~flag /\ ~MustTerminate /\ Goto(t, "find") /\ UNCHANGED numProcs
    /\ UNCHANGED <<shutdownVars, maxNumProcs, stateVars, pipeVars, lockVars, faults>>

\* The deferred shutdown.Done of a thread of the pool.
Done(t) ==
    /\ th[t].pc = "exit"
    /\ th' = [th EXCEPT ![t] = NoThread]
    /\ group' = group - 1
    /\ UNCHANGED <<flag, cancelled, signals, main, poolVars, stateVars, pipeVars, lockVars, faults>>

-----------------------------------------------------------------------------
(* The binlog reader. *)

\* A write of the GTID set into every row, whose error is only logged.
SaveGtid == gtid' = gtid \/ gtid' = gtid \cup Registered

\* changelog.Worker: a thread that can lock the cluster becomes its reader;
\* one that cannot, or meets an error there, tries to stream a table, and an error
\* of the query before it ends the attempt.  Without a GTID set in the rows the
\* reader takes the master's.
FindWork(t) ==
    /\ th[t].pc = "find"
    /\ \/ /\ Registered # {} /\ clusterLock = None
          /\ clusterLock' = t
          /\ instance' = TRUE
          /\ Goto(t, "update")
          /\ IF Registered \cap gtid = {} THEN SaveGtid ELSE UNCHANGED gtid
          /\ UNCHANGED faults
       \/ /\ Registered = {} \/ clusterLock # None
          /\ Goto(t, "lock")
          /\ UNCHANGED <<instance, clusterLock, gtid, faults>>
       \/ /\ Fault
          /\ Goto(t, "lock") \/ Goto(t, "idle")
          /\ UNCHANGED <<instance, clusterLock, gtid>>
    /\ UNCHANGED <<shutdownVars, poolVars, status, pipeVars, tableLock>>

\* The reader ends: its producers are closed, the lock is released, and if it had
\* come to read events their GTID set is saved.
LeaveReader(t) ==
    /\ tables' = {}
    /\ clusterLock' = None
    /\ IF th[t].pc = "read" THEN SaveGtid ELSE UNCHANGED gtid

\* Wrong: the pool is one thread short: the reader's own.
PoolSizeShort(c) == IF c = 0 THEN 1 ELSE c

\* One thread per table, and the reader.
PoolSize(c) == c + 1

\* updateState, at the start and at every tick of readEvents: the tables are
\* reloaded, the pool is resized, and the GTID set is saved into every row; with
\* no table left, or after an error before or after the resize, the reader ends.
UpdateState(t) ==
    LET found == Registered \ NoKey
    IN  /\ th[t].pc = "update" \/ (th[t].pc = "read" /\ ~flag)
        /\ \/ /\ found # {}
              /\ Adjust(t, "read", PoolSize(Cardinality(found)))
              /\ tables' = found
              /\ gtid' = gtid \cup Registered
              /\ UNCHANGED <<clusterLock, faults>>
           \/ /\ found = {}
              /\ Adjust(t, "idle", PoolSize(0))
              /\ LeaveReader(t)
              /\ UNCHANGED faults
           \/ /\ Fault
              /\ \/ Adjust(t, "idle", PoolSize(Cardinality(found)))
                 \/ Goto(t, "idle") /\ UNCHANGED <<poolVars, group>>
              /\ LeaveReader(t)
        /\ UNCHANGED <<flag, cancelled, signals, main, status, ch, events, instance, tableLock>>

\* A row event of one of the reader's tables.
ReadEvent(t) ==
    /\ th[t].pc = "read"
    /\ events < MaxEvents
    /\ events' = events + 1
    /\ \E x \in tables : GotoWith(t, "push", x)
    /\ UNCHANGED <<shutdownVars, poolVars, stateVars, tables, ch, lockVars, faults>>

\* Wrong: a blocked push does not see the shutdown.
PushWithoutContext(t) ==
    LET x == th[t].tab
    IN  /\ th[t].pc = "push"
        /\ ch[x] < Capacity /\ ch' = [ch EXCEPT ![x] = @ + 1]
        /\ Goto(t, "read")
        /\ UNCHANGED <<shutdownVars, poolVars, stateVars, tables, events, lockVars, faults>>

\* Wrong: the channel grows with every message.
PushUnbounded(t) ==
    /\ th[t].pc = "push"
    /\ ch' = [ch EXCEPT ![th[t].tab] = @ + 1]
    /\ Goto(t, "read")
    /\ UNCHANGED <<shutdownVars, poolVars, stateVars, tables, events, lockVars, faults>>

\* pushLow blocks while the channel is full, until the context is cancelled;
\* the error is ignored then.
Push(t) ==
    LET x == th[t].tab
    IN  /\ th[t].pc = "push"
        /\ \/ ch[x] < Capacity /\ ch' = [ch EXCEPT ![x] = @ + 1]
           \/ cancelled /\ UNCHANGED ch
        /\ Goto(t, "read")
        /\ UNCHANGED <<shutdownVars, poolVars, stateVars, tables, events, lockVars, faults>>

\* The shutdown, or an error, ends readEvents.
StopReading(t) ==
    /\ th[t].pc = "read"
    /\ \/ flag /\ UNCHANGED faults
       \/ Fault
    /\ Goto(t, "idle")
    /\ LeaveReader(t)
    /\ UNCHANGED <<shutdownVars, poolVars, status, ch, events, instance, tableLock>>

-----------------------------------------------------------------------------
(* The streamer of a table. *)

\* The rows of the cluster this process has had a reader of.
Rows == IF instance THEN Registered ELSE {}

\* lockTable: the first row whose lock is free, in the order the query gave.
LockTable(t) ==
    /\ th[t].pc = "lock"
    /\ \/ \E x \in Rows :
             /\ tableLock[x] = None
             /\ tableLock' = [tableLock EXCEPT ![x] = t]
             /\ GotoWith(t, "start", x)
       \/ /\ \A x \in Rows : tableLock[x] # None
          /\ Goto(t, "idle")
          /\ UNCHANGED tableLock
    /\ UNCHANGED <<shutdownVars, poolVars, stateVars, pipeVars, instance, clusterLock, faults>>

\* The streamer ends: its lock is released.
LeaveStreamer(t) ==
    /\ Goto(t, "idle")
    /\ tableLock' = [tableLock EXCEPT ![th[t].tab] = None]

\* start, until it calls StreamTable: the streamer waits for a GTID set in the
\* row and takes the snapshot if there is none yet.
StartStreaming(t) ==
    LET x == th[t].tab
    IN  /\ th[t].pc = "start"
        /\ \/ /\ x \in gtid /\ ~flag
              /\ GotoWith(t, "stream", x)
              /\ UNCHANGED <<tableLock, faults>>
           \/ /\ status[x] = "deleted" \/ cancelled
              /\ LeaveStreamer(t)
              /\ UNCHANGED faults
           \/ Fault /\ LeaveStreamer(t)
        /\ UNCHANGED <<shutdownVars, poolVars, stateVars, pipeVars, instance, clusterLock>>

\* StreamTable: takes messages; ends when a tick finds the row gone, on
\* shutdown, or after an error.
Stream(t) ==
    LET x == th[t].tab
    IN  /\ th[t].pc = "stream"
        /\ \/ /\ ch[x] > 0
              /\ ch' = [ch EXCEPT ![x] = @ - 1]
              /\ UNCHANGED <<th, tableLock, faults>>
           \/ /\ flag \/ status[x] = "deleted"
              /\ LeaveStreamer(t)
              /\ UNCHANGED <<ch, faults>>
           \/ Fault /\ LeaveStreamer(t) /\ UNCHANGED ch
        /\ UNCHANGED <<shutdownVars, poolVars, stateVars, tables, events, instance, clusterLock>>

-----------------------------------------------------------------------------
(* Registration, shutdown and main. *)

Register(x) ==
    /\ status[x] = "new"
    /\ status' = [status EXCEPT ![x] = "registered"]
    /\ UNCHANGED <<shutdownVars, poolVars, th, gtid, pipeVars, lockVars, faults>>

Deregister(x) ==
    /\ status[x] = "registered"
    /\ status' = [status EXCEPT ![x] = "deleted"]
    /\ UNCHANGED <<shutdownVars, poolVars, th, gtid, pipeVars, lockVars, faults>>

\* The signal arrives; Initiate sets the flag, and then cancels the context.
Initiate ==
    /\ \/ /\ signals = "wait" /\ ~flag
          /\ flag' = TRUE
          /\ signals' = "cancel"
          /\ UNCHANGED <<cancelled, group>>
       \/ /\ signals = "cancel"
          /\ cancelled' = TRUE
          /\ signals' = "done"
          /\ group' = group - 1
          /\ UNCHANGED flag
    /\ UNCHANGED <<main, poolVars, th, stateVars, pipeVars, lockVars, faults>>

\* shutdown.Wait returns.
Wait ==
    /\ main = "wait" /\ group = 0
    /\ main' = "done"
    /\ UNCHANGED <<flag, cancelled, group, signals, poolVars, th, stateVars, pipeVars, lockVars, faults>>

Finished == main = "done" /\ UNCHANGED vars

\* Setup registered its goroutine, and Start(1) the first thread.
Init ==
    /\ flag = FALSE /\ cancelled = FALSE
    /\ group = 2
    /\ signals = "wait" /\ main = "wait"
    /\ numProcs = 1 /\ maxNumProcs = 1
    /\ th = [t \in Threads |-> IF t = 1 THEN At("idle") ELSE NoThread]
    /\ status = [x \in Tables |-> "new"]
    /\ gtid = {}
    /\ tables = {} /\ ch = [x \in Tables |-> 0] /\ events = 0
    /\ instance = FALSE /\ clusterLock = None /\ tableLock = [x \in Tables |-> None]
    /\ faults = 0

ThreadStep(t) ==
    \/ Loop(t) \/ Done(t)
    \/ FindWork(t) \/ UpdateState(t) \/ Push(t) \/ StopReading(t)
    \/ LockTable(t) \/ StartStreaming(t) \/ Stream(t)

Next ==
    \/ \E t \in Threads : ThreadStep(t) \/ ReadEvent(t)
    \/ \E x \in Tables : Register(x) \/ Deregister(x)
    \/ Initiate
    \/ Wait
    \/ Finished

Spec == Init /\ [][Next]_vars

\* A goroutine that can run eventually does.  No signal need ever arrive, but
\* one that has arrived is served.
Fairness ==
    /\ \A t \in Threads : WF_vars(ThreadStep(t))
    /\ WF_vars(signals = "cancel" /\ Initiate)
    /\ WF_vars(Wait)

FairSpec == Spec /\ Fairness

-----------------------------------------------------------------------------
(* Properties. *)

PCs == {"none", "idle", "exit", "find", "update", "read", "push",
        "lock", "start", "stream"}

\* Type correctness of the pool, the shutdown state and the locks.
TypeOK ==
    /\ flag \in BOOLEAN /\ cancelled \in BOOLEAN
    /\ group \in Nat
    /\ signals \in {"wait", "cancel", "done"} /\ main \in {"wait", "done"}
    /\ numProcs \in Nat /\ maxNumProcs \in Nat
    /\ th \in [Threads -> [pc : PCs, tab : Tables \cup {None}]]
    /\ status \in [Tables -> {"new", "registered", "deleted"}]
    /\ gtid \subseteq Tables /\ tables \subseteq Tables
    /\ ch \in [Tables -> 0 .. Capacity]
    /\ instance \in BOOLEAN /\ clusterLock \in Threads \cup {None}
    /\ tableLock \in [Tables -> Threads \cup {None}]
    /\ events \in Nat /\ faults \in Nat

\* Until a shutdown, numProcs is the number of threads that have not been told
\* to end, and there is at least one: a worker that leaves the pool, a resize
\* of it and a restart of the reader keep the account (pool.go:62-97).
PoolCount ==
    ~flag => /\ numProcs = Cardinality({t \in Threads : th[t].pc \notin {"none", "exit"}})
             /\ numProcs >= 1

\* shutdown.Wait returns only when every thread is done, those the reader
\* started after the signal included (shutdown.go:106, pool.go:62).
WaitsForAll == main = "done" => flag /\ \A t \in Threads : ~Alive(t)

\* A shutdown ends the program, whatever its threads were blocked on
\* (shutdown.go, the cancellation of the context).
ShutdownCompletes == flag ~> main = "done"

Streams(x) == \E t \in Threads : th[t].pc = "stream" /\ th[t].tab = x

\* The reader is blocked on a full channel that nobody reads: its table was
\* deregistered, or the threads of the pool wait for the GTID sets of tables
\* that were registered since the reader last looked.
ReaderIsStuck ==
    \E t \in Threads :
        /\ th[t].pc = "push"
        /\ ch[th[t].tab] = Capacity /\ tableLock[th[t].tab] = None

\* Nobody will be the reader.  The last thread found no table when it looked for
\* a cluster, or met an error there, and then one that nobody produces for when it
\* looked for a table; or the reader found no table with a key and left the pool,
\* whose other threads keep tables without one.
NoReader ==
    /\ clusterLock = None
    /\ \A t \in Threads : th[t].pc \in {"none", "exit", "start", "stream"}

Stuck == ReaderIsStuck \/ NoReader

\* Where a thread is the cluster's reader, and where it is a table's streamer.
Reads(state) == state.pc \in {"update", "read", "push"}
Works(state) == state.pc \in {"start", "stream"}

\* The threads that took a table without a key.  The reader sizes the pool
\* without such a table and produces nothing for it.
Spent == {t \in Threads : Works(th[t]) /\ th[t].tab \in NoKey}

\* Every registered table with a key gets its streamer: again and again all of them
\* have one, but for one table at most for each thread that keeps a table without a
\* key.  The pool grows with the tables, no thread waits for a lock while another
\* idles, a full channel only waits for its streamer.  The exception is a process
\* that is stuck for ever.
RegisteredIsStreamed ==
    <>[]Stuck \/ []<>(flag \/ Cardinality({x \in Registered \ NoKey : ~Streams(x)}) <= Cardinality(Spent))

\* One thread for each table with a key and one more, and threads too many only
\* among those that keep tables without a key.
PoolFits ==
    LET size == PoolSize(Cardinality(Registered \ NoKey))
    IN  size <= numProcs /\ numProcs <= size + Cardinality(Spent)

\* When the tables stop changing, the pool settles at the size it should have,
\* unless the process is stuck (mysql.go:299, pool.go:62-97).  Without
\* a table there may be no reader to shrink it: the last one failed.
PoolSettles == <>[]Stuck \/ <>[](PoolFits \/ Registered = {} \/ flag)

\* The locks and the threads agree: the cluster's lock is its reader's, a table's
\* lock its streamer's, and nobody leaves a lock behind; so there is one reader at
\* most and one streamer for a table (mysql.go:770-790, streamer.go:225-298).
LocksHeld ==
    /\ \A t \in Threads : Reads(th[t]) <=> clusterLock = t
    /\ \A t \in Threads : Works(th[t]) => th[t].tab \in Tables
    /\ \A t \in Threads, x \in Tables : tableLock[x] = t <=> Works(th[t]) /\ th[t].tab = x

\* The threads use the cluster's lock and the tables' as NamedLock allows: none is
\* lost here, and no thread has two (lock.go:97-150).
ProcessLocks == INSTANCE NamedLock WITH
    Clients <- Threads,
    Locks <- {<<"cluster", None>>} \cup {<<"table", x>> : x \in Tables},
    has <- {<<t, <<"cluster", None>>>> : t \in {u \in Threads : clusterLock = u}}
             \cup UNION {{<<t, <<"table", x>>>> : t \in {u \in Threads : tableLock[x] = u}} : x \in Tables},
    believes <- {t \in Threads : Reads(th[t]) \/ Works(th[t])}
UsesNamedLock == ProcessLocks!Spec

=============================================================================
