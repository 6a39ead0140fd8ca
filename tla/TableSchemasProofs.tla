--------------------------- MODULE TableSchemasProofs ---------------------------
(***************************************************************************)
(* Proofs about TableSchemas for any number of versions, readers, requests *)
(* and ALTER TABLEs: types, the columns of a table that is registered, and *)
(* what an ALTER TABLE does to a version that was right.  The invariant    *)
(* follows a version that was right through the loop of handleQueryEvent:  *)
(* before its turn it lacks the ALTER TABLE, after it nothing, and until   *)
(* UpdateCodec has read them the columns are the ones its reader stored,   *)
(* unless another schema was stored meanwhile.                             *)
(*                                                                         *)
(* A second invariant, Known, is about the ALTER TABLEs nobody loses while *)
(* one reader is up at a time: every row has an id of its own, an entry    *)
(* with the row's id holds what the row does, and a row that was           *)
(* registered after the reader had looked is settled with the ALTER TABLE  *)
(* the reader is at.  The cluster's lock, while nobody loses it, is what   *)
(* keeps readers to one at a time.                                         *)
(***************************************************************************)
EXTENDS TableSchemas, TLAPS

Looping == {"alter", "commit", "codec"}

\* The turn of v in the loop has not come.
Waiting(m, v) == v \in m.todo /\ ~(m.pc \in {"commit", "codec"} /\ m.at = v)

\* What holds of a reader m by itself.
Placed(m) ==
    /\ m.pc \in {"commit", "codec"} => m.at \in m.todo
    /\ m.pc \in Looping => m.alter
    /\ m.alter => m.pos > 0

Before(m) ==
    m.pc \in {"rows", "add", "save"} =>
        /\ ~m.alter => m.right = {}
        /\ m.alter => \A v \in m.right : m.entries[v] # NoEntry => m.entries[v].raw = 1 .. (m.pos - 1)
        /\ m.alter /\ m.pc # "save" => \A v \in m.right : m.entries[v] # NoEntry

During(m) ==
    m.pc \in Looping => \A v \in m.right : v \in m.todo \/ m.entries[v] # NoEntry =>
        /\ m.entries[v].raw = IF Waiting(m, v) THEN 1 .. (m.pos - 1) ELSE 1 .. m.pos
        /\ ~m.crossed /\ v \notin m.todo => m.entries[v].enc = 1 .. m.pos

After(m) ==
    m.pc = "read" /\ ~m.crossed => \A v \in m.right : m.entries[v] # NoEntry =>
        m.entries[v].raw = 1 .. m.pos /\ m.entries[v].enc = 1 .. m.pos

Storing(m) == m.pc = "commit" => m.entries[m.at].enc = m.entries[m.at].raw

Sound(m) == Placed(m) /\ Before(m) /\ During(m) /\ After(m) /\ Storing(m)

\* What holds of it and the columns.
Fits(m, cols) == m.pc = "codec" /\ ~m.crossed => cols \in {m.entries[m.at].raw, NoColumns}

ReadersInv ==
    /\ rd \in [Readers -> ReaderType]
    /\ \A r \in Readers : Sound(rd[r]) /\ Fits(rd[r], columns)

TablesInv ==
    /\ master \in Nat /\ slave \in Nat /\ saved \in Nat /\ lastId \in Nat
    /\ rows \in [Versions -> RowType]
    /\ columns \in SchemaOrNone

LocksInv ==
    /\ locked \in [Lockable -> [by : Processes, over : BOOLEAN]]
    /\ cluster \in Readers \cup {None}

RequestsInv == req \in [Handlers -> RequestType]

Inv == ReadersInv /\ TablesInv /\ LocksInv /\ RequestsInv /\ RowHasColumns

-----------------------------------------------------------------------------
\* The records the program starts from have their types.
LEMMA InitialRecords ==
    /\ Down \in ReaderType
    /\ NoEntry \in EntryType /\ NoRow \in RowType /\ Idle \in RequestType
    /\ Free \in [by : Processes, over : BOOLEAN]
<1>1. {} \in Schemas
  BY DEF Schemas
<1>2. NoEntry \in EntryType
  <2>1. {} \in SchemaOrNone
    BY <1>1 DEF SchemaOrNone
  <2> QED
    BY <1>1, <2>1 DEF NoEntry, EntryType
<1>3. NoRow \in RowType /\ Idle \in RequestType
  BY <1>1 DEF NoRow, RowType, Idle, RequestType
<1>4. Down \in ReaderType
  BY <1>2, <1>3 DEF Down, ReaderType
<1>5. Free \in [by : Processes, over : BOOLEAN]
  BY DEF Free, Processes
<1> QED
  BY <1>2, <1>3, <1>4, <1>5

LEMMA InitInv == Init => Inv
<1> SUFFICES ASSUME Init PROVE Inv
  OBVIOUS
<1>1. TablesInv /\ LocksInv /\ RequestsInv
  BY InitialRecords DEF Init, TablesInv, LocksInv, RequestsInv, SchemaOrNone
<1>2. \A r \in Readers : rd[r] = Down
  BY DEF Init
<1>3. Sound(Down) /\ Fits(Down, columns)
  BY DEF Sound, Placed, Before, During, After, Storing, Fits, Looping, Down
<1>4. ReadersInv
  BY <1>2, <1>3, InitialRecords DEF Init, ReadersInv
<1>5. RowHasColumns
  BY DEF Init, RowHasColumns, Registered
<1> QED
  BY <1>1, <1>4, <1>5 DEF Inv

-----------------------------------------------------------------------------
(* The readers. *)

\* A step of one reader that leaves the columns alone.
LEMMA OneReader ==
    ASSUME ReadersInv, UNCHANGED columns, NEW r \in Readers, NEW m \in ReaderType,
           rd' = [rd EXCEPT ![r] = m], Sound(m), Fits(m, columns)
    PROVE  ReadersInv'
<1>1. rd' \in [Readers -> ReaderType] /\ rd'[r] = m /\ \A p \in Readers \ {r} : rd'[p] = rd[p]
  BY DEF ReadersInv
<1>2. \A p \in Readers : Sound(rd'[p]) /\ Fits(rd'[p], columns)
  BY <1>1 DEF ReadersInv
<1> QED
  BY <1>1, <1>2 DEF ReadersInv

\* Outside of the loop and of reading there is nothing to be right about.
LEMMA NothingRight ==
    ASSUME NEW m \in ReaderType, NEW cols, m.pc \in {"down", "final"}, ~m.alter
    PROVE  Sound(m) /\ Fits(m, cols)
  BY DEF Sound, Placed, Before, During, After, Storing, Fits, Looping

\* A return with an error.
LEMMA FailedInv ==
    ASSUME ReadersInv, UNCHANGED columns, NEW r \in Readers, Failed(r)
    PROVE  ReadersInv'
<1> DEFINE m == [Down EXCEPT !.pc = "final", !.pos = rd[r].pos, !.first = rd[r].first]
<1>1. m \in ReaderType /\ m.pc = "final" /\ ~m.alter
  BY InitialRecords DEF ReadersInv, ReaderType, Down
<1>2. rd' = [rd EXCEPT ![r] = m]
  BY DEF Failed
<1> HIDE DEF m
<1>3. Sound(m) /\ Fits(m, columns)
  BY <1>1, NothingRight
<1> QED
  BY <1>1, <1>2, <1>3, OneReader

\* The loop over the entries goes on, or the reader does.
LEMMA ResumeInv ==
    ASSUME NEW m \in ReaderType, NEW todo \in SUBSET Versions, NEW cols, m.alter, m.pos > 0,
           \A v \in m.right : v \in todo \/ m.entries[v] # NoEntry =>
               /\ m.entries[v].raw = IF v \in todo THEN 1 .. (m.pos - 1) ELSE 1 .. m.pos
               /\ ~m.crossed /\ v \notin todo => m.entries[v].enc = 1 .. m.pos
    PROVE  Resume(m, todo) \in ReaderType /\ Sound(Resume(m, todo)) /\ Fits(Resume(m, todo), cols)
<1>1. CASE todo = {}
  <2> DEFINE n == [m EXCEPT !.pc = "read", !.todo = {}, !.at = None, !.alter = FALSE]
  <2>1. n \in ReaderType /\ n.pc = "read" /\ ~n.alter
        /\ n.entries = m.entries /\ n.right = m.right /\ n.pos = m.pos /\ n.crossed = m.crossed
    BY DEF ReaderType
  <2>2. Sound(n) /\ Fits(n, cols)
    BY <1>1, <2>1 DEF Sound, Placed, Before, During, After, Storing, Fits, Looping
  <2> QED
    BY <1>1, <2>1, <2>2 DEF Resume
<1>2. CASE todo # {}
  <2> DEFINE n == [m EXCEPT !.pc = "alter", !.todo = todo, !.at = None]
  <2>1. n \in ReaderType /\ n.pc = "alter" /\ n.alter /\ n.todo = todo
        /\ n.entries = m.entries /\ n.right = m.right /\ n.pos = m.pos /\ n.crossed = m.crossed
    BY DEF ReaderType
  <2>2. Sound(n) /\ Fits(n, cols)
    BY <1>2, <2>1 DEF Sound, Placed, Before, During, After, Storing, Fits, Looping, Waiting
  <2> QED
    BY <1>2, <2>1, <2>2 DEF Resume
<1> QED
  BY <1>1, <1>2

\* An ALTER TABLE added to the schema before it.
LEMMA OneMore == ASSUME NEW n \in Nat, n > 0 PROVE (1 .. (n - 1)) \cup {n} = 1 .. n
  OBVIOUS

LEMMA StartInv == ASSUME Inv, NEW r \in Readers, Start(r) PROVE ReadersInv'
<1> DEFINE m == [Down EXCEPT !.pc = "rows", !.pos = saved, !.first = TRUE]
<1>1. m \in ReaderType /\ m.pc = "rows" /\ ~m.alter /\ m.right = {}
  BY InitialRecords DEF Inv, TablesInv, ReaderType, Down
<1>2. rd' = [rd EXCEPT ![r] = m] /\ UNCHANGED columns
  BY DEF Start, storeVars
<1> HIDE DEF m
<1>3. Sound(m) /\ Fits(m, columns)
  BY <1>1 DEF Sound, Placed, Before, During, After, Storing, Fits, Looping
<1> QED
  BY <1>1, <1>2, <1>3, OneReader DEF Inv

\* A reader before the loop only moves on within updateState.
LEMMA MovesInUpdate ==
    ASSUME NEW m \in ReaderType, NEW n \in ReaderType, NEW cols, Sound(m),
           m.pc \in {"rows", "add", "save"}, n.pc \in {"rows", "add", "save"},
           n.alter = m.alter, n.right = m.right, n.pos = m.pos,
           \A v \in m.right : n.entries[v] # NoEntry => n.entries[v] = m.entries[v],
           n.pc = "save" \/ (m.pc # "save" /\ n.entries = m.entries)
    PROVE  Sound(n) /\ Fits(n, cols)
  BY DEF Sound, Placed, Before, During, After, Storing, Fits, Looping

LEMMA GetRowsInv == ASSUME Inv, NEW r \in Readers, GetRows(r) PROVE ReadersInv'
<1> DEFINE m == [rd[r] EXCEPT !.pc = "add", !.seen = rows]
<1>1. CASE rd' = [rd EXCEPT ![r].pc = "add", ![r].seen = rows]
  <2>1. rd[r] \in ReaderType /\ rd[r].pc = "rows" /\ Sound(rd[r])
    BY DEF Inv, ReadersInv, GetRows
  <2>2. m \in ReaderType /\ m.pc = "add" /\ m.alter = rd[r].alter /\ m.right = rd[r].right
        /\ m.pos = rd[r].pos /\ m.entries = rd[r].entries
    BY <2>1 DEF ReaderType, Inv, TablesInv
  <2>3. rd' = [rd EXCEPT ![r] = m] /\ UNCHANGED columns
    BY <1>1 DEF GetRows, storeVars, Inv, ReadersInv
  <2> HIDE DEF m
  <2>4. Sound(m) /\ Fits(m, columns)
    BY <2>1, <2>2, MovesInUpdate
  <2> QED
    BY <2>2, <2>3, <2>4, OneReader DEF Inv
<1>2. CASE Failed(r)
  BY <1>2, FailedInv DEF GetRows, storeVars, Inv
<1> QED
  BY <1>1, <1>2 DEF GetRows

LEMMA AddTablesInv == ASSUME Inv, NEW r \in Readers, AddTables(r) PROVE ReadersInv'
<1> DEFINE m == [rd[r] EXCEPT !.pc = "save", !.entries = [v \in Versions |-> Reloaded(r, v)], !.seen = Down.seen]
<1>1. CASE rd' = [rd EXCEPT ![r].pc = "save", ![r].entries = [v \in Versions |-> Reloaded(r, v)], ![r].seen = Down.seen]
  <2>1. rd[r] \in ReaderType /\ rd[r].pc = "add" /\ Sound(rd[r])
    BY DEF Inv, ReadersInv, AddTables
  <2>2. \A v \in Versions : Reloaded(r, v) \in EntryType
    BY <2>1, InitialRecords DEF Reloaded, ReaderType, RowType, EntryType, Inv, TablesInv
  <2>3. Down.seen \in [Versions -> RowType]
    BY InitialRecords DEF Down
  <2>4. m \in ReaderType /\ m.pc = "save" /\ m.alter = rd[r].alter /\ m.right = rd[r].right
        /\ m.pos = rd[r].pos /\ m.entries = [v \in Versions |-> Reloaded(r, v)]
    BY <2>1, <2>2, <2>3 DEF ReaderType
  <2>5. rd' = [rd EXCEPT ![r] = m] /\ UNCHANGED columns
    BY <1>1 DEF AddTables, storeVars, Inv, ReadersInv
  <2> HIDE DEF m
  <2>6. \A v \in rd[r].right : m.entries[v] # NoEntry => m.entries[v] = rd[r].entries[v]
    <3>1. SUFFICES ASSUME NEW v \in rd[r].right PROVE Reloaded(r, v) \in {NoEntry, rd[r].entries[v]}
      BY <2>1, <2>4 DEF ReaderType
    <3>2. v \in Versions /\ rd[r].entries[v] # NoEntry
      BY <2>1 DEF Sound, Before, ReaderType
    <3> QED
      BY <3>2 DEF Reloaded
  <2>7. Sound(m) /\ Fits(m, columns)
    BY <2>1, <2>4, <2>6, MovesInUpdate
  <2> QED
    BY <2>4, <2>5, <2>7, OneReader DEF Inv
<1>2. CASE Failed(r)
  BY <1>2, FailedInv DEF AddTables, storeVars, Inv
<1> QED
  BY <1>1, <1>2 DEF AddTables

LEMMA SaveInv == ASSUME Inv, NEW r \in Readers, Save(r) PROVE ReadersInv'
<1> DEFINE m    == [rd[r] EXCEPT !.first = FALSE]
           todo == {v \in Versions : m.entries[v] # NoEntry}
           n    == [m EXCEPT !.pc = "read"]
<1>1. rd[r] \in ReaderType /\ rd[r].pc = "save" /\ Sound(rd[r]) /\ UNCHANGED columns
  BY DEF Inv, ReadersInv, Save
<1>2. m \in ReaderType /\ m.alter = rd[r].alter /\ m.right = rd[r].right
      /\ m.pos = rd[r].pos /\ m.entries = rd[r].entries
  BY <1>1 DEF ReaderType
<1>3. CASE rd' = [rd EXCEPT ![r] = IF m.alter THEN Resume(m, todo) ELSE n]
  <2>1. n \in ReaderType /\ n.pc = "read" /\ n.alter = m.alter /\ n.right = m.right
    BY <1>2 DEF ReaderType
  <2> HIDE DEF m, n
  <2>2. CASE m.alter
    <3>1. m.pos > 0 /\ \A v \in m.right : v \in todo \/ m.entries[v] # NoEntry => v \in todo /\ m.entries[v].raw = 1 .. (m.pos - 1)
      <4>1. m.pos > 0
        BY <1>1, <1>2, <2>2 DEF Sound, Placed
      <4>4. rd[r].alter
        BY <1>2, <2>2
      <4>5. \A v \in rd[r].right : rd[r].entries[v] # NoEntry => rd[r].entries[v].raw = 1 .. (rd[r].pos - 1)
        BY <1>1, <4>4 DEF Sound, Before
      <4>2. \A v \in m.right : m.entries[v] # NoEntry => m.entries[v].raw = 1 .. (m.pos - 1)
        BY <1>2, <4>5
      <4>3. m.right \subseteq Versions
        BY <1>2 DEF ReaderType
      <4> QED
        BY <4>1, <4>2, <4>3
    <3>2. Resume(m, todo) \in ReaderType /\ Sound(Resume(m, todo)) /\ Fits(Resume(m, todo), columns)
      <4> HIDE DEF todo
      <4>1. todo \in SUBSET Versions
        BY DEF todo
      <4> QED
        BY <1>2, <2>2, <3>1, <4>1, ResumeInv
    <3>3. rd' = [rd EXCEPT ![r] = Resume(m, todo)]
      BY <1>3, <2>2
    <3> HIDE DEF todo
    <3> QED
      BY <1>1, <3>2, <3>3, OneReader DEF Inv
  <2>3. CASE ~m.alter
    <3>1. n.right = {} /\ ~n.alter
      BY <1>1, <1>2, <2>1, <2>3 DEF Sound, Before
    <3>2. Sound(n) /\ Fits(n, columns)
      BY <2>1, <3>1 DEF Sound, Placed, Before, During, After, Storing, Fits, Looping
    <3>3. rd' = [rd EXCEPT ![r] = n]
      BY <1>3, <2>3
    <3> QED
      BY <1>1, <2>1, <3>2, <3>3, OneReader DEF Inv
  <2> QED
    BY <2>2, <2>3
<1>4. CASE Failed(r)
  BY <1>1, <1>4, FailedInv DEF Inv
<1> QED
  BY <1>3, <1>4 DEF Save

LEMMA TickInv == ASSUME Inv, NEW r \in Readers, Tick(r) PROVE ReadersInv'
<1> DEFINE m == [rd[r] EXCEPT !.pc = "rows", !.right = {}, !.crossed = FALSE]
<1>1. rd[r] \in ReaderType /\ rd[r].pc = "read" /\ Sound(rd[r])
  BY DEF Inv, ReadersInv, Tick
<1>2. m \in ReaderType /\ m.pc = "rows" /\ m.right = {} /\ m.alter = rd[r].alter /\ m.pos = rd[r].pos
  BY <1>1 DEF ReaderType
<1>3. rd' = [rd EXCEPT ![r] = m] /\ UNCHANGED columns
  BY DEF Tick, storeVars, Inv, ReadersInv
<1> HIDE DEF m
<1>4. Sound(m) /\ Fits(m, columns)
  BY <1>1, <1>2 DEF Sound, Placed, Before, During, After, Storing, Fits, Looping
<1> QED
  BY <1>2, <1>3, <1>4, OneReader DEF Inv

LEMMA TakeAlterInv == ASSUME Inv, NEW r \in Readers, TakeAlter(r) PROVE ReadersInv'
<1> DEFINE right == {v \in Versions : rd[r].entries[v] # NoEntry /\ rd[r].entries[v].raw = 1 .. rd[r].pos}
           m == [rd[r] EXCEPT !.pc = "rows", !.pos = @ + 1, !.alter = TRUE, !.crossed = FALSE, !.right = right]
<1>1. rd[r] \in ReaderType /\ rd[r].pos \in Nat
  BY DEF Inv, ReadersInv, ReaderType
<1>3. rd' = [rd EXCEPT ![r] = m] /\ UNCHANGED columns
  BY DEF TakeAlter, storeVars
<1>6. right \in SUBSET Versions /\ \A v \in right : rd[r].entries[v] # NoEntry /\ rd[r].entries[v].raw = 1 .. rd[r].pos
  OBVIOUS
<1> HIDE DEF right
<1>2. m \in ReaderType /\ m.pc = "rows" /\ m.right = right /\ m.alter /\ m.pos = rd[r].pos + 1 /\ m.entries = rd[r].entries
  <2> DEFINE n == rd[r].pos + 1
             k == [rd[r] EXCEPT !.pc = "rows", !.pos = n, !.alter = TRUE, !.crossed = FALSE, !.right = right]
  <2>1. n \in Nat
    BY <1>1
  <2>2. m = k
    OBVIOUS
  <2> HIDE DEF n, m
  <2>3. k \in ReaderType /\ k.pc = "rows" /\ k.right = right /\ k.alter /\ k.pos = n /\ k.entries = rd[r].entries
    BY <1>1, <1>6, <2>1 DEF ReaderType
  <2> QED
    BY <2>2, <2>3 DEF n
<1>4. m.pos > 0 /\ m.pos - 1 = rd[r].pos
  BY <1>1, <1>2
<1> HIDE DEF m
<1>5. Sound(m) /\ Fits(m, columns)
  BY <1>1, <1>2, <1>4, <1>6 DEF Sound, Placed, Before, During, After, Storing, Fits, Looping
<1> QED
  BY <1>2, <1>3, <1>5, OneReader DEF Inv

\* MutateTable and the first statement of ReplaceSchema.
LEMMA SelectInv == ASSUME Inv, NEW r \in Readers, Select(r) PROVE ReadersInv'
<1>1. rd[r] \in ReaderType /\ rd[r].pc = "alter" /\ Sound(rd[r]) /\ rd[r].alter /\ UNCHANGED columns
  BY DEF Inv, ReadersInv, Select, storeVars, Sound, Placed, Looping
<1>2. CASE Failed(r)
  BY <1>1, <1>2, FailedInv DEF Inv
<1>3. CASE ~Failed(r)
  <2>1. PICK v \in rd[r].todo :
          \/ rd' = [rd EXCEPT ![r] = [[rd[r] EXCEPT !.at = v, !.entries[v] = Mutated(rd[r].entries[v], rd[r].pos)]
                                        EXCEPT !.pc = "commit"]]
          \/ rd' = [rd EXCEPT ![r] = [[rd[r] EXCEPT !.at = v, !.entries[v] = Mutated(rd[r].entries[v], rd[r].pos)]
                       EXCEPT !.pc = "codec", !.entries[v] = Stored(@, rd[r].pos), !.crossed = TRUE]]
    BY <1>3 DEF Select
  <2> DEFINE ent == Mutated(rd[r].entries[v], rd[r].pos)
             next == [rd[r] EXCEPT !.at = v, !.entries[v] = ent]
             c == [next EXCEPT !.pc = "commit"]
             d == [next EXCEPT !.pc = "codec", !.entries[v] = Stored(@, rd[r].pos), !.crossed = TRUE]
  <2>2. v \in Versions /\ rd[r].pos \in Nat /\ rd[r].pos > 0 /\ rd[r].entries[v] \in EntryType
    BY <1>1 DEF ReaderType, Sound, Placed
  <2>3. ent \in EntryType /\ ent.raw = rd[r].entries[v].raw \cup {rd[r].pos} /\ ent.enc = ent.raw
        /\ Stored(ent, rd[r].pos) \in EntryType /\ Stored(ent, rd[r].pos).raw = ent.raw
    <3>1. rd[r].entries[v].raw \cup {rd[r].pos} \in Schemas
      BY <2>2 DEF EntryType, Schemas
    <3> QED
      BY <2>2, <3>1 DEF Mutated, Stored, EntryType, SchemaOrNone
  <2> HIDE DEF ent
  <2>4. next \in ReaderType /\ next.at = v /\ next.entries = [rd[r].entries EXCEPT ![v] = ent]
        /\ next.pos = rd[r].pos /\ next.todo = rd[r].todo /\ next.right = rd[r].right /\ next.alter = rd[r].alter
        /\ next.crossed = rd[r].crossed
    BY <1>1, <2>2, <2>3 DEF ReaderType
  <2>5. v \in rd[r].right => ent.raw = 1 .. rd[r].pos
    BY <1>1, <2>2, <2>3, OneMore DEF Sound, During, Looping, Waiting, ReaderType
  <2> HIDE DEF next
  <2>6. c \in ReaderType /\ c.pc = "commit" /\ c.at = v /\ c.entries = next.entries /\ c.pos = rd[r].pos
        /\ c.todo = rd[r].todo /\ c.right = rd[r].right /\ c.alter /\ c.crossed = rd[r].crossed
    BY <1>1, <2>4 DEF ReaderType
  <2>7. d \in ReaderType /\ d.pc = "codec" /\ d.at = v /\ d.pos = rd[r].pos
        /\ d.entries = [rd[r].entries EXCEPT ![v] = Stored(ent, rd[r].pos)]
        /\ d.todo = rd[r].todo /\ d.right = rd[r].right /\ d.alter /\ d.crossed
    BY <1>1, <2>2, <2>3, <2>4 DEF ReaderType
  <2> HIDE DEF c, d
  <2>8. \A w \in rd[r].right : /\ w \in Versions
                               /\ w \in rd[r].todo \/ c.entries[w] # NoEntry => c.entries[w].raw = IF Waiting(c, w) THEN 1 .. (rd[r].pos - 1) ELSE 1 .. rd[r].pos
                               /\ w \in rd[r].todo \/ d.entries[w] # NoEntry => d.entries[w].raw = IF Waiting(d, w) THEN 1 .. (rd[r].pos - 1) ELSE 1 .. rd[r].pos
    <3> SUFFICES ASSUME NEW w \in rd[r].right
                 PROVE  /\ w \in Versions
                        /\ w \in rd[r].todo \/ c.entries[w] # NoEntry => c.entries[w].raw = IF Waiting(c, w) THEN 1 .. (rd[r].pos - 1) ELSE 1 .. rd[r].pos
                        /\ w \in rd[r].todo \/ d.entries[w] # NoEntry => d.entries[w].raw = IF Waiting(d, w) THEN 1 .. (rd[r].pos - 1) ELSE 1 .. rd[r].pos
      OBVIOUS
    <3>1. w \in Versions
      BY <1>1 DEF ReaderType
    <3>2. CASE w = v
      <4>1. c.entries[w].raw = ent.raw /\ d.entries[w].raw = ent.raw /\ ~Waiting(c, w) /\ ~Waiting(d, w)
        BY <1>1, <2>2, <2>3, <2>4, <2>6, <2>7, <3>2 DEF Waiting, ReaderType
      <4> QED
        BY <2>5, <3>1, <3>2, <4>1
    <3>3. CASE w # v
      <4>1. c.entries[w] = rd[r].entries[w] /\ d.entries[w] = rd[r].entries[w]
        BY <1>1, <2>2, <2>4, <2>6, <2>7, <3>1, <3>3 DEF ReaderType
      <4>2. Waiting(c, w) <=> w \in rd[r].todo
        BY <2>6, <3>3 DEF Waiting
      <4>3. Waiting(d, w) <=> w \in rd[r].todo
        BY <2>7, <3>3 DEF Waiting
      <4>4. Waiting(rd[r], w) <=> w \in rd[r].todo
        BY <1>1 DEF Waiting
      <4>5. w \in rd[r].todo \/ rd[r].entries[w] # NoEntry => rd[r].entries[w].raw = IF Waiting(rd[r], w) THEN 1 .. (rd[r].pos - 1) ELSE 1 .. rd[r].pos
        BY <1>1 DEF Sound, During, Looping
      <4> QED
        BY <3>1, <4>1, <4>2, <4>3, <4>4, <4>5
    <3> QED
      BY <3>2, <3>3
  <2>9. Sound(c) /\ Fits(c, columns)
    <3>1. c.entries[c.at].enc = c.entries[c.at].raw
      <4>1. rd[r].entries \in [Versions -> EntryType]
        BY <1>1 DEF ReaderType
      <4>2. c.at = v /\ c.entries = [rd[r].entries EXCEPT ![v] = ent]
        BY <2>4, <2>6
      <4>3. c.entries[c.at] = ent
        BY <2>2, <4>1, <4>2
      <4> QED
        BY <2>3, <4>3
    <3>2. \A w \in c.right : c.entries[w] # NoEntry /\ ~c.crossed /\ w \notin c.todo => c.entries[w].enc = 1 .. c.pos
      <4> SUFFICES ASSUME NEW w \in c.right, c.entries[w] # NoEntry, ~c.crossed, w \notin c.todo
                   PROVE  c.entries[w].enc = 1 .. c.pos
        OBVIOUS
      <4>1. w # v /\ w \in Versions
        BY <2>6, <2>8
      <4>2. c.entries[w] = rd[r].entries[w]
        BY <1>1, <2>2, <2>4, <2>6, <4>1 DEF ReaderType
      <4> QED
        BY <1>1, <2>6, <4>2 DEF Sound, During, Looping
    <3>3. Placed(c)
      BY <2>2, <2>6 DEF Placed, Looping
    <3>4. During(c)
      BY <2>6, <2>8, <3>2 DEF During
    <3> QED
      BY <2>6, <3>1, <3>3, <3>4 DEF Sound, Before, After, Storing, Fits
  <2>10. Sound(d) /\ Fits(d, columns)
    <3>1. Placed(d)
      BY <2>2, <2>7 DEF Placed, Looping
    <3>2. During(d)
      BY <2>7, <2>8 DEF During
    <3> QED
      BY <2>7, <3>1, <3>2 DEF Sound, Before, After, Storing, Fits
  <2>11. (rd' = [rd EXCEPT ![r] = c]) \/ (rd' = [rd EXCEPT ![r] = d])
    BY <2>1 DEF c, d, next, ent
  <2>12. CASE rd' = [rd EXCEPT ![r] = c]
    BY <1>1, <2>6, <2>9, <2>12, OneReader DEF Inv
  <2>13. CASE rd' = [rd EXCEPT ![r] = d]
    BY <1>1, <2>7, <2>10, <2>13, OneReader DEF Inv
  <2> QED
    BY <2>11, <2>12, <2>13
<1> QED
  BY <1>2, <1>3

\* Another reader, or a registration, stores columns.
LEMMA CrossedInv ==
    ASSUME NEW m \in ReaderType, NEW cols, Sound(m)
    PROVE  Crossed(m) \in ReaderType /\ Sound(Crossed(m)) /\ Fits(Crossed(m), cols)
<1>1. CASE m.pc = "codec"
  <2> DEFINE n == [m EXCEPT !.crossed = TRUE]
  <2>1. n \in ReaderType /\ n.pc = "codec" /\ n.crossed /\ n.alter = m.alter /\ n.pos = m.pos /\ n.at = m.at
        /\ n.entries = m.entries /\ n.right = m.right /\ n.todo = m.todo
    BY <1>1 DEF ReaderType
  <2> HIDE DEF n
  <2>2. Sound(n) /\ Fits(n, cols)
    BY <1>1, <2>1 DEF Sound, Placed, Before, During, After, Storing, Fits, Looping, Waiting
  <2> QED
    BY <1>1, <2>1, <2>2 DEF n, Crossed
<1>2. CASE m.pc # "codec"
  BY <1>2 DEF Crossed, Fits
<1> QED
  BY <1>1, <1>2

\* No schema is the one that stands for no columns.
LEMMA SchemasAreThere == NoColumns \notin Schemas
  BY DEF NoColumns, Schemas

\* The rest of ReplaceSchema.
LEMMA CommitInv == ASSUME Inv, NEW r \in Readers, Commit(r) PROVE ReadersInv' /\ TablesInv' /\ RowHasColumns'
<1> DEFINE m   == rd[r]
           ent == m.entries[m.at]
           n   == [m EXCEPT !.pc = "codec", !.entries[m.at] = Stored(ent, m.pos)]
<1>1. m \in ReaderType /\ m.pc = "commit" /\ Sound(m) /\ m.at \in m.todo /\ m.alter
  BY DEF Inv, ReadersInv, Commit, Sound, Placed, Looping
<1>2. m.at \in Versions /\ ent \in EntryType /\ m.pos \in Nat /\ ent.enc = ent.raw
  BY <1>1 DEF ReaderType, Sound, Storing
<1>3. CASE locked[Columns] # Free
  <2>1. Failed(r) /\ UNCHANGED <<rows, columns, master, slave, saved, lastId>>
    BY <1>3 DEF Commit, sourceVars
  <2>2. TablesInv' /\ RowHasColumns'
    BY <2>1 DEF Inv, TablesInv, RowHasColumns, Registered
  <2> QED
    BY <2>1, <2>2, FailedInv DEF Inv
<1>4. CASE locked[Columns] = Free
  <2>1. /\ rows' = [rows EXCEPT ![m.at].raw = ent.raw, ![m.at].sgtid = m.pos]
        /\ columns' = ent.enc
        /\ rd' = [p \in Readers |-> IF p = r THEN n ELSE Crossed(rd[p])]
        /\ UNCHANGED <<master, slave, saved, lastId>>
    BY <1>4 DEF Commit, sourceVars
  <2>2. columns' \in Schemas
    BY <1>2, <2>1 DEF EntryType
  <2>3. TablesInv'
    <3>1. rows' \in [Versions -> RowType]
      BY <1>2, <2>1 DEF Inv, TablesInv, RowType, EntryType
    <3> QED
      BY <2>1, <2>2, <3>1 DEF Inv, TablesInv, SchemaOrNone
  <2>4. RowHasColumns'
    BY <2>2, SchemasAreThere DEF RowHasColumns
  <2>5. Stored(ent, m.pos) \in EntryType /\ Stored(ent, m.pos).raw = ent.raw /\ Stored(ent, m.pos).enc = ent.enc
    BY <1>2 DEF Stored, EntryType
  <2>6. n \in ReaderType /\ n.pc = "codec" /\ n.at = m.at /\ n.pos = m.pos /\ n.todo = m.todo /\ n.right = m.right
        /\ n.alter = m.alter /\ n.crossed = m.crossed /\ n.entries = [m.entries EXCEPT ![m.at] = Stored(ent, m.pos)]
    BY <1>1, <1>2, <2>5 DEF ReaderType
  <2> HIDE DEF n
  <2>7. Fits(n, columns')
    <3>1. n.entries[n.at] = Stored(ent, m.pos)
      BY <1>1, <1>2, <2>6 DEF ReaderType
    <3>2. columns' = n.entries[n.at].raw
      BY <1>2, <2>1, <2>5, <3>1
    <3> QED
      BY ONLY <3>2 DEF Fits
  <2>8. During(n)
    <3> SUFFICES ASSUME NEW v \in m.right, v \in m.todo \/ n.entries[v] # NoEntry
                 PROVE  /\ n.entries[v].raw = IF Waiting(n, v) THEN 1 .. (m.pos - 1) ELSE 1 .. m.pos
                        /\ ~m.crossed /\ v \notin m.todo => n.entries[v].enc = 1 .. m.pos
      BY <2>6 DEF During
    <3>1. n.entries[v].raw = m.entries[v].raw /\ n.entries[v].enc = m.entries[v].enc
      BY <1>1, <1>2, <2>5, <2>6 DEF ReaderType
    <3>2. v \in m.todo \/ m.entries[v] # NoEntry
      BY <1>1, <1>2, <2>6 DEF ReaderType
    <3>3. Waiting(n, v) <=> Waiting(m, v)
      BY <1>1, <2>6 DEF Waiting
    <3> QED
      BY <1>1, <3>1, <3>2, <3>3 DEF Sound, During, Looping
  <2>9. Sound(n)
    <3>1. Placed(n)
      BY <1>1, <2>6 DEF Sound, Placed, Looping
    <3> QED
      BY <2>6, <2>8, <3>1 DEF Sound, Before, After, Storing
  <2>10. \A p \in Readers : rd'[p] \in ReaderType /\ Sound(rd'[p]) /\ Fits(rd'[p], columns')
    <3> SUFFICES ASSUME NEW p \in Readers PROVE rd'[p] \in ReaderType /\ Sound(rd'[p]) /\ Fits(rd'[p], columns')
      OBVIOUS
    <3>1. CASE p = r
      BY <2>1, <2>6, <2>7, <2>9, <3>1
    <3>2. CASE p # r
      <4>1. rd[p] \in ReaderType /\ Sound(rd[p])
        BY DEF Inv, ReadersInv
      <4> QED
        BY <2>1, <3>2, <4>1, CrossedInv
    <3> QED
      BY <3>1, <3>2
  <2>11. ReadersInv'
    BY <2>1, <2>10 DEF ReadersInv
  <2> QED
    BY <2>3, <2>4, <2>11
<1> QED
  BY <1>3, <1>4

\* UpdateCodec.
LEMMA CodecInv == ASSUME Inv, NEW r \in Readers, Codec(r) PROVE ReadersInv'
<1> DEFINE m == rd[r]
           n == [m EXCEPT !.entries[m.at].enc = columns]
           todo == m.todo \ {m.at}
<1>1. m \in ReaderType /\ m.pc = "codec" /\ Sound(m) /\ Fits(m, columns) /\ m.at \in m.todo /\ m.alter
      /\ UNCHANGED columns
  BY DEF Inv, ReadersInv, Codec, Sound, Placed, Looping, storeVars
<1>2. CASE columns = NoColumns
  BY <1>1, <1>2, FailedInv DEF Inv, Codec
<1>3. CASE columns # NoColumns
  <2>1. rd' = [rd EXCEPT ![r] = Resume(n, todo)]
    BY <1>3 DEF Codec
  <2>2. m.at \in Versions /\ m.entries[m.at] \in EntryType /\ columns \in SchemaOrNone /\ m.pos > 0
    BY <1>1 DEF ReaderType, Inv, TablesInv, Sound, Placed
  <2>3. n \in ReaderType /\ n.entries = [m.entries EXCEPT ![m.at].enc = columns] /\ n.pos = m.pos
        /\ n.right = m.right /\ n.alter = m.alter /\ n.crossed = m.crossed
    BY <1>1, <2>2 DEF ReaderType, EntryType
  <2>4. todo \in SUBSET Versions
    BY <1>1 DEF ReaderType
  <2> HIDE DEF n
  <2>5. ASSUME NEW v \in n.right, v \in todo \/ n.entries[v] # NoEntry
        PROVE  /\ n.entries[v].raw = IF v \in todo THEN 1 .. (n.pos - 1) ELSE 1 .. n.pos
               /\ ~n.crossed /\ v \notin todo => n.entries[v].enc = 1 .. n.pos
    <3>1. v \in Versions /\ v \in m.right
      BY <1>1, <2>3 DEF ReaderType
    <3>2. CASE v = m.at
      <4>1. n.entries[v].raw = m.entries[v].raw /\ n.entries[v].enc = columns
        BY <1>1, <2>2, <2>3, <3>1, <3>2 DEF ReaderType, EntryType
      <4>2. m.entries[v].raw = 1 .. m.pos
        BY <1>1, <3>1, <3>2 DEF Sound, During, Looping, Waiting
      <4>3. ~n.crossed => columns = 1 .. m.pos
        BY <1>1, <1>3, <2>3, <3>2, <4>2 DEF Fits
      <4> QED
        BY <2>3, <3>2, <4>1, <4>2, <4>3
    <3>3. CASE v # m.at
      <4>1. n.entries[v] = m.entries[v]
        BY <1>1, <2>2, <2>3, <3>1, <3>3 DEF ReaderType
      <4>2. Waiting(m, v) <=> v \in todo
        BY <3>3 DEF Waiting
      <4> QED
        BY <1>1, <2>3, <2>5, <3>1, <3>3, <4>1, <4>2 DEF Sound, During, Looping
    <3> QED
      BY <3>2, <3>3
  <2> HIDE DEF todo, m
  <2>6. n.alter /\ n.pos > 0
    BY <1>1, <2>2, <2>3
  <2>7. Resume(n, todo) \in ReaderType /\ Sound(Resume(n, todo)) /\ Fits(Resume(n, todo), columns)
    BY <2>3, <2>4, <2>5, <2>6, ResumeInv
  <2> QED
    BY <1>1, <2>1, <2>7, OneReader DEF Inv
<1> QED
  BY <1>2, <1>3

\* The reader is gone.
LEMMA DownInv ==
    ASSUME ReadersInv, UNCHANGED columns, NEW r \in Readers, rd' = [rd EXCEPT ![r] = Down]
    PROVE  ReadersInv'
<1>1. Down \in ReaderType /\ Sound(Down) /\ Fits(Down, columns)
  <2>1. Down.pc = "down" /\ ~Down.alter
    BY DEF Down
  <2> QED
    BY <2>1, InitialRecords, NothingRight
<1> QED
  BY <1>1, OneReader

-----------------------------------------------------------------------------
(* The tables, the locks and the requests. *)

\* The end of a transaction, or of a process, leaves every lock with a process.
LEMMA LockTypes ==
    ASSUME LocksInv, NEW p \in Processes
    PROVE  {Released(p), Abandoned(p), Dropped(p)} \subseteq [Lockable -> [by : Processes, over : BOOLEAN]]
<1>1. Free \in [by : Processes, over : BOOLEAN]
  BY InitialRecords
<1>2. [by |-> p, over |-> TRUE] \in [by : Processes, over : BOOLEAN]
  OBVIOUS
<1>3. \A x \in Lockable : locked[x] \in [by : Processes, over : BOOLEAN]
  BY DEF LocksInv
<1>4. Released(p) \in [Lockable -> [by : Processes, over : BOOLEAN]]
  BY <1>1, <1>3 DEF Released
<1>5. Abandoned(p) \in [Lockable -> [by : Processes, over : BOOLEAN]]
  BY <1>2, <1>3 DEF Abandoned
<1>6. Dropped(p) \in [Lockable -> [by : Processes, over : BOOLEAN]]
  BY <1>1, <1>3 DEF Dropped
<1> QED
  BY <1>4, <1>5, <1>6

\* What reads and writes none of the tables leaves what holds of them.
LEMMA TablesUnmoved ==
    ASSUME Inv, UNCHANGED <<sourceVars, storeVars, lastId>>
    PROVE  TablesInv' /\ RowHasColumns'
  BY DEF Inv, TablesInv, RowHasColumns, Registered, sourceVars, storeVars

\* Readers, requests and columns stay as they are.
LEMMA ReadersUnmoved == ASSUME Inv, UNCHANGED <<rd, columns>> PROVE ReadersInv'
  BY DEF Inv, ReadersInv

\* The rows stay, and so does what a column schema was, or there is no row.
LEMMA SaveTables ==
    ASSUME Inv, NEW r \in Readers, Save(r) \/ FinalSave(r)
    PROVE  TablesInv' /\ RowHasColumns'
<1>1. rd[r].pos \in Nat
  BY DEF Inv, ReadersInv, ReaderType
<1>2. saved' \in {saved, rd[r].pos} /\ UNCHANGED <<master, slave, rows, columns, lastId>>
  BY DEF Save, FinalSave, sourceVars
<1> QED
  BY <1>1, <1>2 DEF Inv, TablesInv, RowHasColumns, Registered

LEMMA ReaderTables ==
    ASSUME Inv, NEW r \in Readers, ReaderStep(r) \/ Tick(r) \/ FailReader(r) \/ Crash(r)
    PROVE  TablesInv' /\ RowHasColumns' /\ RequestsInv'
<1>1. RequestsInv'
  BY DEF Inv, RequestsInv, ReaderStep, Start, GetRows, AddTables, Save, TakeAlter, Select, Commit, Codec,
         FinalSave, Tick, FailReader, Crash
<1>2. CASE UNCHANGED <<sourceVars, storeVars, lastId>>
  BY <1>1, <1>2, TablesUnmoved
<1>3. CASE Save(r) \/ FinalSave(r)
  BY <1>1, <1>3, SaveTables
<1>4. CASE Commit(r)
  BY <1>1, <1>4, CommitInv
<1> QED
  BY <1>2, <1>3, <1>4 DEF ReaderStep, Start, GetRows, AddTables, TakeAlter, Select, Codec, Tick, FailReader, Crash

LEMMA ReaderLocks ==
    ASSUME Inv, NEW r \in Readers, ReaderStep(r) \/ Tick(r) \/ FailReader(r) \/ Crash(r)
    PROVE  LocksInv'
<1> DEFINE T == [by : Processes, over : BOOLEAN]
<1>1. r \in Processes /\ LocksInv /\ locked \in [Lockable -> T]
  BY DEF Inv, LocksInv, Processes
<1>2. {Released(r), Abandoned(r), Dropped(r)} \subseteq [Lockable -> T]
  BY <1>1, LockTypes
<1>3. cluster' \in Readers \cup {None}
  BY <1>1 DEF LocksInv, ReaderStep, Start, GetRows, AddTables, Save, TakeAlter, Select, Commit, Codec,
         FinalSave, Tick, FailReader, Crash, Unlocked
<1>4. CASE UNCHANGED locked
  BY <1>1, <1>3, <1>4 DEF LocksInv
<1>5. CASE Select(r)
  <2>1. PICK v \in Versions : locked' \in {locked, [locked EXCEPT ![v] = [by |-> r, over |-> TRUE]],
                                           [locked EXCEPT ![v] = [by |-> r, over |-> FALSE]]}
    <3>1. rd[r].todo \subseteq Versions
      BY DEF Inv, ReadersInv, ReaderType
    <3>2. PICK v \in rd[r].todo :
              \/ UNCHANGED locked
              \/ locked' = [locked EXCEPT ![v] = IF @ = Free THEN [by |-> r, over |-> TRUE] ELSE @]
              \/ locked' = [locked EXCEPT ![v] = [by |-> r, over |-> rows[v].sgtid # rd[r].entries[v].sgtid]]
      BY <1>5 DEF Select
    <3>3. v \in Versions /\ v \in Lockable
      BY <3>1 DEF Lockable
    <3> QED
      BY <1>1, <3>2, <3>3
  <2>2. \A b \in BOOLEAN : [locked EXCEPT ![v] = [by |-> r, over |-> b]] \in [Lockable -> T]
    BY <1>1
  <2>3. locked' \in [Lockable -> T]
    BY <1>1, <2>1, <2>2
  <2> QED
    BY <1>3, <2>3 DEF LocksInv
<1>6. CASE locked' \in {Released(r), Abandoned(r), Dropped(r)}
  BY <1>2, <1>3, <1>6 DEF LocksInv
<1>7. CASE locked' = [Abandoned(r) EXCEPT ![Columns] = [by |-> r, over |-> TRUE]]
  BY <1>1, <1>2, <1>3, <1>7 DEF LocksInv
<1> QED
  BY <1>4, <1>5, <1>6, <1>7
  DEF ReaderStep, Start, GetRows, AddTables, Save, TakeAlter, Commit, Codec, FinalSave, Tick, FailReader, Crash

LEMMA ReaderReaders ==
    ASSUME Inv, NEW r \in Readers, ReaderStep(r) \/ Tick(r) \/ FailReader(r) \/ Crash(r)
    PROVE  ReadersInv'
<1>1. CASE FailReader(r)
  BY <1>1, FailedInv DEF FailReader, storeVars, Inv
<1>2. CASE Crash(r)
  BY <1>2, DownInv DEF Crash, storeVars, Inv
<1>3. CASE FinalSave(r)
  BY <1>3, DownInv DEF FinalSave, Inv
<1> QED
  BY <1>1, <1>2, <1>3, StartInv, GetRowsInv, AddTablesInv, SaveInv, TickInv, TakeAlterInv, SelectInv, CommitInv,
     CodecInv DEF ReaderStep

\* A registration asks the slave and inserts its row.
LEMMA RegisterInv ==
    ASSUME Inv, NEW h \in Handlers,
           Register(h) \/ ReadGtid(h) \/ ReadRaw(h) \/ Insert(h) \/ GiveUp(h) \/ FailRequest(h) \/ CrashRequest(h)
    PROVE  Inv'
<1>1. h \in Processes /\ LocksInv /\ TablesInv /\ RequestsInv /\ req[h] \in RequestType /\ Idle \in RequestType
  BY InitialRecords DEF Inv, Processes, RequestsInv
<1>2. UNCHANGED <<sourceVars, storeVars, rd, cluster>>
  BY DEF Register, ReadGtid, ReadRaw, Insert, GiveUp, FailRequest, CrashRequest
<1>3. 1 .. slave \in Schemas
  BY <1>1 DEF TablesInv, Schemas
<1>4. RequestsInv'
  <2>1. CASE Register(h)
    <3>1. PICK v \in Versions : req' = [req EXCEPT ![h] = [Idle EXCEPT !.pc = "gtid", !.v = v, !.ts = 1 .. slave]]
      BY <2>1 DEF Register
    <3>2. [Idle EXCEPT !.pc = "gtid", !.v = v, !.ts = 1 .. slave] \in RequestType
      BY <1>1, <1>3 DEF RequestType
    <3> QED
      BY <1>1, <3>1, <3>2 DEF RequestsInv
  <2>2. CASE ReadGtid(h)
    BY <1>1, <2>2 DEF ReadGtid, RequestsInv, RequestType, TablesInv
  <2>3. CASE ReadRaw(h)
    BY <1>1, <1>3, <2>3 DEF ReadRaw, RequestsInv, RequestType
  <2>4. CASE Insert(h)
    BY <1>1, <2>4 DEF Insert, RequestsInv, RequestType, TablesInv
  <2>5. CASE GiveUp(h) \/ FailRequest(h) \/ CrashRequest(h)
    BY <1>1, <2>5 DEF GiveUp, FailRequest, CrashRequest, RequestsInv
  <2> QED
    BY <2>1, <2>2, <2>3, <2>4, <2>5
<1>5. lastId' \in {lastId, lastId + 1}
  BY DEF Register, ReadGtid, ReadRaw, Insert, GiveUp, FailRequest, CrashRequest
<1>6. TablesInv' /\ RowHasColumns'
  BY <1>1, <1>2, <1>5 DEF Inv, TablesInv, RowHasColumns, Registered, sourceVars, storeVars
<1>7. LocksInv'
  <2>1. CASE Insert(h)
    <3>1. req[h].v \in Versions \cup {None}
      BY <1>1 DEF RequestType
    <3>2. locked' \in {locked, [locked EXCEPT ![req[h].v] = [by |-> h, over |-> FALSE]]}
      BY <2>1 DEF Insert
    <3>3. [by |-> h, over |-> FALSE] \in [by : Processes, over : BOOLEAN]
      BY <1>1
    <3> QED
      BY <1>1, <1>2, <3>2, <3>3 DEF LocksInv
  <2>2. CASE UNCHANGED locked
    BY <1>1, <1>2, <2>2 DEF LocksInv
  <2>3. CASE locked' \in {Abandoned(h), Dropped(h)}
    BY <1>1, <1>2, <2>3, LockTypes DEF LocksInv
  <2> QED
    BY <2>1, <2>2, <2>3 DEF Register, ReadGtid, ReadRaw, GiveUp, FailRequest, CrashRequest
<1>8. ReadersInv'
  BY <1>2, ReadersUnmoved DEF storeVars
<1> QED
  BY <1>4, <1>6, <1>7, <1>8 DEF Inv

\* The row of a registration and its columns are there at once.
LEMMA CommitRegisterInv == ASSUME Inv, NEW h \in Handlers, CommitRegister(h) PROVE Inv'
<1> DEFINE q == req[h]
<1>1. h \in Processes /\ LocksInv /\ TablesInv /\ RequestsInv /\ q \in RequestType /\ Idle \in RequestType
  BY InitialRecords DEF Inv, Processes, RequestsInv
<1>2. RequestsInv' /\ UNCHANGED <<sourceVars, saved, cluster, lastId>>
  BY <1>1 DEF CommitRegister, RequestsInv
<1>3. LocksInv'
  <2>1. locked' \in {Released(h), Abandoned(h)}
    BY DEF CommitRegister
  <2> QED
    BY <1>1, <1>2, <2>1, LockTypes DEF LocksInv
<1>4. CASE locked[Columns] # Free
  <2>1. UNCHANGED <<rows, columns, rd>>
    BY <1>4 DEF CommitRegister
  <2>2. TablesInv' /\ RowHasColumns'
    BY <1>2, <2>1, TablesUnmoved DEF storeVars
  <2> QED
    BY <1>2, <1>3, <2>1, <2>2, ReadersUnmoved DEF Inv
<1>5. CASE locked[Columns] = Free
  <2>1. /\ rows' = [rows EXCEPT ![q.v] = [id |-> q.id, sgtid |-> q.gtid, raw |-> q.raw]]
        /\ columns' = q.ts
        /\ rd' = [p \in Readers |-> Crossed(rd[p])]
    BY <1>5 DEF CommitRegister
  <2>2. columns' \in Schemas /\ [id |-> q.id, sgtid |-> q.gtid, raw |-> q.raw] \in RowType
    BY <1>1, <2>1 DEF RequestType, RowType
  <2>3. TablesInv'
    BY <1>1, <1>2, <2>1, <2>2 DEF TablesInv, SchemaOrNone, sourceVars
  <2>4. RowHasColumns'
    BY <2>2, SchemasAreThere DEF RowHasColumns
  <2>5. \A p \in Readers : Crossed(rd[p]) \in ReaderType /\ Sound(Crossed(rd[p])) /\ Fits(Crossed(rd[p]), columns')
    BY CrossedInv DEF Inv, ReadersInv
  <2>6. ReadersInv'
    BY <2>1, <2>5 DEF ReadersInv
  <2> QED
    BY <1>2, <1>3, <2>3, <2>4, <2>6 DEF Inv
<1> QED
  BY <1>4, <1>5

\* A row goes, and the columns when no other is left.
LEMMA DeregisterInv ==
    ASSUME Inv, NEW h \in Handlers, Deregister(h) \/ DeleteColumns(h)
    PROVE  Inv'
<1>1. LocksInv /\ TablesInv /\ RequestsInv /\ Idle \in RequestType /\ NoRow \in RowType /\ RowHasColumns /\ ReadersInv
  BY InitialRecords DEF Inv
<1>2. UNCHANGED <<sourceVars, saved, locked, cluster, rd, lastId>>
  BY DEF Deregister, DeleteColumns
<1>3. LocksInv'
  BY <1>1, <1>2 DEF LocksInv
<1>4. CASE Deregister(h)
  <2>1. PICK v \in Registered : rows' = [rows EXCEPT ![v] = NoRow]
    BY <1>4 DEF Deregister
  <2>2. req' = [req EXCEPT ![h] = [Idle EXCEPT !.pc = "columns"]] /\ UNCHANGED columns
    BY <1>4 DEF Deregister
  <2>3. [Idle EXCEPT !.pc = "columns"] \in RequestType
    BY <1>1 DEF RequestType
  <2>4. RequestsInv'
    BY <1>1, <2>2, <2>3 DEF RequestsInv
  <2>5. TablesInv'
    BY <1>1, <1>2, <2>1, <2>2 DEF TablesInv, sourceVars
  <2>6. Registered' \subseteq Registered
    BY <1>1, <2>1 DEF Registered, TablesInv
  <2>7. RowHasColumns'
    BY <1>1, <2>2, <2>6 DEF RowHasColumns
  <2> QED
    BY <1>2, <1>3, <2>2, <2>4, <2>5, <2>7, ReadersUnmoved DEF Inv
<1>5. CASE DeleteColumns(h)
  <2>1. req' = [req EXCEPT ![h] = Idle] /\ columns' \in {columns, Remaining} /\ UNCHANGED rows
    BY <1>5 DEF DeleteColumns
  <2>2. RequestsInv'
    BY <1>1, <2>1 DEF RequestsInv
  <2>3. columns' \in {columns, NoColumns}
    BY <2>1 DEF Remaining
  <2>4. TablesInv'
    BY <1>1, <1>2, <2>1, <2>3 DEF TablesInv, SchemaOrNone, sourceVars
  <2>5. RowHasColumns'
    BY <1>1, <2>1 DEF RowHasColumns, Registered, Remaining
  <2>6. ReadersInv'
    BY <1>1, <1>2, <2>3 DEF ReadersInv, Fits
  <2> QED
    BY <1>3, <2>2, <2>4, <2>5, <2>6 DEF Inv
<1> QED
  BY <1>4, <1>5

-----------------------------------------------------------------------------
LEMMA NextInv == Inv /\ [Next]_vars => Inv'
<1> SUFFICES ASSUME Inv, [Next]_vars PROVE Inv'
  OBVIOUS
<1>1. CASE Alter \/ Replicate \/ LoseLock
  <2>1. UNCHANGED <<storeVars, locked, rd, req, lastId>> /\ master' \in {master, master + 1}
        /\ slave' \in {slave, slave + 1} /\ cluster' \in {cluster, None}
    BY <1>1 DEF Alter, Replicate, LoseLock, sourceVars
  <2> QED
    BY <2>1, ReadersUnmoved DEF Inv, TablesInv, LocksInv, RequestsInv, RowHasColumns, Registered, storeVars
<1>2. ASSUME NEW r \in Readers, ReaderStep(r) \/ Tick(r) \/ FailReader(r) \/ Crash(r) PROVE Inv'
  BY <1>2, ReaderTables, ReaderLocks, ReaderReaders DEF Inv
<1>3. ASSUME NEW h \in Handlers, \/ RequestStep(h) \/ Register(h) \/ Deregister(h)
                                 \/ GiveUp(h) \/ FailRequest(h) \/ CrashRequest(h)
      PROVE  Inv'
  BY <1>3, RegisterInv, CommitRegisterInv, DeregisterInv DEF RequestStep
<1>4. CASE UNCHANGED vars
  <2>1. UNCHANGED <<sourceVars, storeVars, locked, cluster, rd, req, lastId>>
    BY <1>4 DEF vars
  <2> QED
    BY <2>1, ReadersUnmoved, TablesUnmoved DEF Inv, LocksInv, RequestsInv, storeVars
<1> QED
  BY <1>1, <1>2, <1>3, <1>4 DEF Next

LEMMA InvAlways == Spec => []Inv
  BY InitInv, NextInv, PTL DEF Spec

\* The tables of state, the readers' entries and the requests keep their types
\* in every step of the code (state.go, mysql.go:417-530, table_handler.go).
THEOREM TypeCorrect == Spec => []TypeOK
<1>1. Inv => TypeOK
  BY DEF Inv, ReadersInv, TablesInv, LocksInv, RequestsInv, TypeOK
<1> QED
  BY <1>1, InvAlways, PTL

\* A table with a version registered has its columns: RegisterTable and
\* ReplaceSchema write them with the row, and DeregisterTable deletes them by a
\* statement of its own only if no row is left when it runs (state.go:447-475).
THEOREM ColumnsAreThere == Spec => []RowHasColumns
<1>1. Inv => RowHasColumns
  BY DEF Inv
<1> QED
  BY <1>1, InvAlways, PTL

\* handleQueryEvent gives an ALTER TABLE to the entry and the encoder of every
\* version that was right before it, for any number of versions in one columns
\* table (mysql.go:498-535).
THEOREM AlterKeepsRightAlways == Spec => []AlterKeepsRight
<1>1. Inv => AlterKeepsRight
  BY DEF Inv, ReadersInv, Sound, After, AlterKeepsRight
<1> QED
  BY <1>1, InvAlways, PTL

-----------------------------------------------------------------------------
(* No ALTER TABLE is lost while one reader is up at a time. *)

Up(m) == m.pc # "down"

\* One reader is up at most: what the cluster's lock is for.
OneReaderAtATime == \A p, q \in Readers : Up(rd[p]) /\ Up(rd[q]) => p = q

\* The row of v has the ALTER TABLE k, or is not going to get it.
Settled(v, k) == k \in rows[v].raw \/ <<rows[v].id, k>> \in missed

\* The reader m is going to come to it.
AheadOf(m, v, k) ==
    \/ m.pc \notin {"down", "final"} /\ m.pos < k
    \/ m.alter /\ m.pos = k /\ (v \in m.todo \/ m.pc \in {"rows", "add", "save"})

\* Everything the saved set or the reader's is past is settled, or ahead of it.
KeptBy(m) ==
    \A v \in Registered : \A k \in 1 .. MaxAlters :
        k <= saved \/ (Up(m) /\ k <= m.pos) => Settled(v, k) \/ AheadOf(m, v, k)

AllKept ==
    \A v \in Registered : \A k \in 1 .. MaxAlters :
        k <= saved \/ (\E r \in Readers : Up(rd[r]) /\ k <= rd[r].pos) =>
            Settled(v, k) \/ \E r \in Readers : AheadOf(rd[r], v, k)

WithinMaster == master <= MaxAlters /\ saved <= master /\ \A r \in Readers : rd[r].pos <= master

\* Every row has an id of its own, which readers know it by.
Numbered ==
    /\ \A v \in Versions : rows[v].id <= lastId /\ (v \in Registered => rows[v].id > 0)
    /\ \A r \in Readers, v \in Versions :
          /\ rd[r].entries[v].id <= lastId /\ (rd[r].entries[v] # NoEntry => rd[r].entries[v].id > 0)
          /\ rd[r].seen[v].id <= lastId /\ (rd[r].seen[v] # NoRow => rd[r].seen[v].id > 0)

\* The id of a row whose registration is not committed is nobody else's.
New(id) ==
    /\ id > 0 /\ id <= lastId
    /\ \A v \in Versions : /\ rows[v].id # id
                           /\ \A r \in Readers : rd[r].entries[v].id # id /\ rd[r].seen[v].id # id

NewIds ==
    /\ \A h \in Handlers : req[h].pc = "store" => New(req[h].id)
    /\ \A g, h \in Handlers : g # h /\ req[g].pc = "store" /\ req[h].pc = "store" => req[g].id # req[h].id

\* A reader holds the row it is going to write.
Holding(r, m) ==
    /\ m.pc \in {"down", "final", "read"} => ~m.alter
    /\ m.pc \in Looping => \A v \in m.todo : m.entries[v] # NoEntry
    /\ m.pc = "commit" => /\ m.at \in Registered
                          /\ locked[m.at] = [by |-> r, over |-> FALSE]
                          /\ m.pos \in m.entries[m.at].raw

\* An entry of a row that was not registered anew holds what the row does, and
\* more; a row registered after the reader looked is settled with the ALTER
\* TABLE the reader is at.
Matches(m, v) ==
    /\ m.entries[v].id = rows[v].id => rows[v].raw \subseteq m.entries[v].raw /\ rows[v].sgtid = m.entries[v].sgtid
    /\ m.pc = "add" /\ m.seen[v].id = rows[v].id => m.seen[v] = rows[v]
    /\ m.pc = "add" /\ m.alter => m.seen[v] = rows[v] \/ Settled(v, m.pos)
    /\ m.pc \in {"save", "alter", "commit", "codec"} /\ m.alter => m.entries[v].id = rows[v].id \/ Settled(v, m.pos)
    /\ m.pc = "codec" /\ m.at = v => Settled(v, m.pos)

Known ==
    /\ AllKept /\ WithinMaster /\ Numbered /\ NewIds
    /\ \A r \in Readers : Holding(r, rd[r]) /\ (Up(rd[r]) => \A v \in Registered : Matches(rd[r], v))

\* What the reader that is up has to hold for it to hold of all.
LEMMA AloneIsAll ==
    ASSUME Inv, NEW r \in Readers, \A p \in Readers \ {r} : ~Up(rd[p]) /\ ~rd[p].alter
    PROVE  AllKept <=> KeptBy(rd[r])
<1>1. \A v \in Versions, k \in 1 .. MaxAlters : (\E p \in Readers : AheadOf(rd[p], v, k)) <=> AheadOf(rd[r], v, k)
  BY DEF AheadOf, Up
<1>2. \A k \in 1 .. MaxAlters : (\E p \in Readers : Up(rd[p]) /\ k <= rd[p].pos) <=> Up(rd[r]) /\ k <= rd[r].pos
  OBVIOUS
<1> QED
  BY <1>1, <1>2 DEF AllKept, KeptBy, Registered

LEMMA OwnKept ==
    ASSUME Inv, Known, NEW r \in Readers, \A p \in Readers \ {r} : ~Up(rd[p])
    PROVE  KeptBy(rd[r])
<1>1. \A p \in Readers \ {r} : ~Up(rd[p]) /\ ~rd[p].alter
  BY DEF Known, Holding, Up
<1> QED
  BY <1>1, AloneIsAll DEF Known

\* A step of the one reader that is up: the rows stay the ones they are.
LEMMA OneReaderKnown ==
    ASSUME Inv', Known, NEW r \in Readers,
           \A p \in Readers \ {r} : rd'[p] = rd[p] /\ ~Up(rd[p]),
           UNCHANGED <<req, lastId>>, WithinMaster', Registered' = Registered,
           \A v \in Versions : /\ rows'[v].id = rows[v].id
                               /\ rd'[r].entries[v].id \in {0, rd[r].entries[v].id, rd[r].seen[v].id}
                               /\ rd'[r].seen[v].id \in {0, rd[r].seen[v].id, rows[v].id}
                               /\ rd'[r].entries[v] # NoEntry => rd'[r].entries[v].id > 0
                               /\ rd'[r].seen[v] # NoRow => rd'[r].seen[v].id > 0,
           Holding(r, rd[r])', Up(rd'[r]) => \A v \in Registered : Matches(rd[r], v)', KeptBy(rd[r])'
    PROVE  Known'
<1>1. lastId \in Nat /\ lastId' = lastId
  BY DEF Inv, TablesInv
<1>2. Numbered'
  <2>1. \A v \in Versions : rows'[v].id <= lastId' /\ (v \in Registered' => rows'[v].id > 0)
    BY <1>1 DEF Known, Numbered
  <2>2. ASSUME NEW p \in Readers, NEW v \in Versions
        PROVE  /\ rd'[p].entries[v].id <= lastId' /\ (rd'[p].entries[v] # NoEntry => rd'[p].entries[v].id > 0)
               /\ rd'[p].seen[v].id <= lastId' /\ (rd'[p].seen[v] # NoRow => rd'[p].seen[v].id > 0)
    <3>1. CASE p = r
      <4>1. rd[r].entries[v].id <= lastId /\ rd[r].seen[v].id <= lastId /\ rows[v].id <= lastId /\ 0 <= lastId
        <5>1. Numbered /\ 0 <= lastId
          BY <1>1 DEF Known
        <5> QED
          BY ONLY <5>1, r \in Readers, v \in Versions DEF Numbered
      <4> QED
        BY <1>1, <3>1, <4>1
    <3>2. CASE p # r
      BY <1>1, <3>2 DEF Known, Numbered
    <3> QED
      BY <3>1, <3>2
  <2> QED
    BY <2>1, <2>2 DEF Numbered
<1>3. NewIds'
  <2>1. ASSUME NEW h \in Handlers, req'[h].pc = "store" PROVE New(req[h].id)'
    <3>1. New(req[h].id) /\ req'[h].id = req[h].id /\ lastId' = lastId
      BY <2>1 DEF Known, NewIds
    <3>2. ASSUME NEW v \in Versions, NEW p \in Readers
          PROVE  rows'[v].id # req[h].id /\ rd'[p].entries[v].id # req[h].id /\ rd'[p].seen[v].id # req[h].id
      <4>1. rows[v].id # req[h].id /\ rd[p].entries[v].id # req[h].id /\ rd[p].seen[v].id # req[h].id /\ req[h].id # 0
        BY <3>1 DEF New
      <4>2. CASE p = r
        BY <4>1, <4>2
      <4>3. CASE p # r
        BY <4>1, <4>3
      <4> QED
        BY <4>2, <4>3
    <3>3. \A v \in Versions : rows'[v].id # req[h].id
      BY <3>1 DEF New
    <3> QED
      BY <3>1, <3>2, <3>3 DEF New
  <2> QED
    BY <2>1 DEF Known, NewIds
<1>4. AllKept'
  <2>1. \A p \in Readers \ {r} : ~Up(rd'[p]) /\ ~rd'[p].alter
    BY DEF Known, Holding, Up
  <2>2. \A v \in Versions, k \in 1 .. MaxAlters : (\E p \in Readers : AheadOf(rd'[p], v, k)) <=> AheadOf(rd'[r], v, k)
    BY <2>1 DEF AheadOf, Up
  <2>3. \A k \in 1 .. MaxAlters : (\E p \in Readers : Up(rd'[p]) /\ k <= rd'[p].pos) <=> Up(rd'[r]) /\ k <= rd'[r].pos
    BY <2>1
  <2> QED
    BY <2>2, <2>3 DEF AllKept, KeptBy, Registered
<1>5. \A p \in Readers : Holding(p, rd[p])' /\ (Up(rd'[p]) => \A v \in Registered' : Matches(rd[p], v)')
  <2> SUFFICES ASSUME NEW p \in Readers
               PROVE  Holding(p, rd[p])' /\ (Up(rd'[p]) => \A v \in Registered' : Matches(rd[p], v)')
    OBVIOUS
  <2>1. CASE p = r
    BY <2>1
  <2>2. CASE p # r
    BY <2>2 DEF Known, Holding, Up, Looping
  <2> QED
    BY <2>1, <2>2
<1> QED
  BY <1>2, <1>3, <1>4, <1>5 DEF Known

LEMMA StaysSettled ==
    ASSUME UNCHANGED rows, missed \subseteq missed', NEW v, NEW k, Settled(v, k)
    PROVE  Settled(v, k)'
  BY DEF Settled

\* What a reader with an error gives up is settled.
LEMMA FailedKnown ==
    ASSUME Inv, Inv', Known, NEW r \in Readers, Failed(r), rd[r].pc \notin {"down", "final"},
           \A p \in Readers \ {r} : ~Up(rd[p]), UNCHANGED <<req, lastId, rows, saved, master>>
    PROVE  Known'
<1> DEFINE pos == rd[r].pos
           last == IF saved > pos THEN saved ELSE pos
<1>1. rd[r] \in ReaderType /\ pos \in Nat /\ saved \in Nat
  BY DEF Inv, ReadersInv, TablesInv, ReaderType
<1>2. /\ \A p \in Readers \ {r} : rd'[p] = rd[p]
      /\ rd'[r] = [Down EXCEPT !.pc = "final", !.pos = rd[r].pos, !.first = rd[r].first]
      /\ missed' = missed \cup GivenUp(r, last)
  BY DEF Failed, Inv, ReadersInv
<1>3. /\ rd'[r].pc = "final" /\ rd'[r].pos = pos /\ ~rd'[r].alter
      /\ \A v \in Versions : rd'[r].entries[v] = NoEntry /\ rd'[r].seen[v] = NoRow
  BY <1>2 DEF Down
<1>4. WithinMaster'
  BY <1>2, <1>3 DEF Known, WithinMaster
<1>5. Holding(r, rd[r])'
  BY <1>3 DEF Holding, Looping
<1>6. \A v \in Versions : NoEntry.id = 0 /\ NoRow.id = 0
  BY DEF NoEntry, NoRow
<1>7. \A v \in Registered : Matches(rd[r], v)'
  <2> SUFFICES ASSUME NEW v \in Registered PROVE Matches(rd[r], v)'
    OBVIOUS
  <2>1. rd'[r].entries[v].id = 0 /\ rows'[v].id = rows[v].id /\ rows[v].id > 0
    BY <1>3, <1>6 DEF Known, Numbered, Registered
  <2> QED
    BY <1>3, <2>1 DEF Matches
<1>8. KeptBy(rd[r])'
  <2> SUFFICES ASSUME NEW v \in Registered, NEW k \in 1 .. MaxAlters, k <= saved \/ k <= pos
               PROVE  Settled(v, k)'
    BY <1>3 DEF KeptBy, Registered
  <2> DEFINE from == IF rd[r].alter THEN pos ELSE pos + 1
  <2>1. k \in Nat /\ k <= last
    BY <1>1, BoundsAssumption
  <2>2. CASE k < from
    <3>1. k <= pos /\ ~(pos < k) /\ ~(rd[r].alter /\ pos = k)
      BY <1>1, <2>1, <2>2
    <3>2. ~AheadOf(rd[r], v, k)
      BY <3>1 DEF AheadOf
    <3>3. Settled(v, k)
      <4>1. KeptBy(rd[r]) /\ Up(rd[r])
        BY OwnKept DEF Up
      <4> QED
        BY <3>1, <3>2, <4>1 DEF KeptBy
    <3> QED
      BY <1>2, <3>3, StaysSettled
  <2>3. CASE ~(k < from)
    <3>1. k \in from .. last
      BY <1>1, <2>1, <2>3
    <3>2. k \in rows[v].raw \/ <<rows[v].id, k>> \in GivenUp(r, last)
      BY <3>1 DEF GivenUp
    <3> QED
      BY <1>2, <3>2 DEF Settled
  <2> QED
    BY <2>2, <2>3
<1>9. \A v \in Versions : /\ rows'[v].id = rows[v].id
                          /\ rd'[r].entries[v].id \in {0, rd[r].entries[v].id, rd[r].seen[v].id}
                          /\ rd'[r].seen[v].id \in {0, rd[r].seen[v].id, rows[v].id}
                          /\ rd'[r].entries[v] # NoEntry => rd'[r].entries[v].id > 0
                          /\ rd'[r].seen[v] # NoRow => rd'[r].seen[v].id > 0
  BY <1>3, <1>6
<1> QED
  <2>1. Registered' = Registered
    BY DEF Registered
  <2> QED
    BY <1>2, <1>4, <1>5, <1>7, <1>8, <1>9, <2>1, OneReaderKnown

\* The set of a reader that is not up is the saved one.
LEMMA StartKnown ==
    ASSUME Inv, Inv', Known, NEW r \in Readers, Start(r), OneReaderAtATime'
    PROVE  Known'
<1>1. rd[r] \in ReaderType /\ rd[r].pc = "down" /\ saved \in Nat
  BY DEF Inv, ReadersInv, TablesInv, Start
<1>2. /\ \A p \in Readers \ {r} : rd'[p] = rd[p]
      /\ rd'[r] = [Down EXCEPT !.pc = "rows", !.pos = saved, !.first = TRUE]
      /\ UNCHANGED <<req, lastId, rows, saved, master, missed>>
  BY DEF Start, Inv, ReadersInv, sourceVars, storeVars
<1>3. /\ rd'[r].pc = "rows" /\ rd'[r].pos = saved /\ ~rd'[r].alter
      /\ \A v \in Versions : rd'[r].entries[v] = NoEntry /\ rd'[r].seen[v] = NoRow
  BY <1>2 DEF Down
<1>4. \A p \in Readers \ {r} : ~Up(rd[p])
  <2>1. \A p \in Readers \ {r} : ~Up(rd'[p])
    BY <1>3 DEF OneReaderAtATime, Up
  <2> QED
    BY <1>2, <2>1
<1>5. WithinMaster'
  BY <1>2, <1>3 DEF Known, WithinMaster
<1>6. NoEntry.id = 0 /\ NoRow.id = 0
  BY DEF NoEntry, NoRow
<1>7. \A v \in Registered : Matches(rd[r], v)'
  <2> SUFFICES ASSUME NEW v \in Registered PROVE Matches(rd[r], v)'
    OBVIOUS
  <2>1. rd'[r].entries[v].id = 0 /\ rows'[v].id = rows[v].id /\ rows[v].id > 0
    BY <1>2, <1>3, <1>6 DEF Known, Numbered, Registered
  <2> QED
    BY <1>3, <2>1 DEF Matches
<1>8. KeptBy(rd[r])'
  <2>1. \A v \in Registered, k \in 1 .. MaxAlters : k <= saved => Settled(v, k)
    <3>1. KeptBy(rd[r]) /\ ~rd[r].alter
      BY <1>1, <1>4, OwnKept DEF Known, Holding
    <3> QED
      BY <1>1, <3>1 DEF KeptBy, AheadOf
  <2> QED
    BY <1>2, <1>3, <2>1 DEF KeptBy, Registered, Settled
<1>9. Holding(r, rd[r])'
  BY <1>3 DEF Holding, Looping
<1>10. \A v \in Versions : /\ rows'[v].id = rows[v].id
                           /\ rd'[r].entries[v].id \in {0, rd[r].entries[v].id, rd[r].seen[v].id}
                           /\ rd'[r].seen[v].id \in {0, rd[r].seen[v].id, rows[v].id}
                           /\ rd'[r].entries[v] # NoEntry => rd'[r].entries[v].id > 0
                           /\ rd'[r].seen[v] # NoRow => rd'[r].seen[v].id > 0
  BY <1>2, <1>3, <1>6
<1> QED
  <2>1. Registered' = Registered
    BY <1>2 DEF Registered
  <2> QED
    BY <1>2, <1>4, <1>5, <1>7, <1>8, <1>9, <1>10, <2>1, OneReaderKnown

\* The rows stay, and what the reader was ahead of it still is, or it is settled.
LEMMA KeptMoves ==
    ASSUME Inv, Known, NEW r \in Readers, \A p \in Readers \ {r} : ~Up(rd[p]), Up(rd[r]),
           UNCHANGED rows, missed \subseteq missed',
           \A k \in 1 .. MaxAlters : k <= saved' \/ k <= rd'[r].pos =>
               k <= saved \/ k <= rd[r].pos \/ \A v \in Versions : AheadOf(rd'[r], v, k),
           \A v \in Registered, k \in 1 .. MaxAlters : AheadOf(rd[r], v, k) => AheadOf(rd'[r], v, k) \/ Settled(v, k)'
    PROVE  KeptBy(rd[r])'
<1> SUFFICES ASSUME NEW v \in Registered, NEW k \in 1 .. MaxAlters, k <= saved' \/ k <= rd'[r].pos
             PROVE  Settled(v, k)' \/ AheadOf(rd'[r], v, k)
  BY DEF KeptBy, Registered
<1>1. CASE k <= saved \/ k <= rd[r].pos
  <2>1. Settled(v, k) \/ AheadOf(rd[r], v, k)
    BY <1>1, OwnKept DEF KeptBy
  <2> QED
    BY <2>1, StaysSettled
<1>2. CASE \A w \in Versions : AheadOf(rd'[r], w, k)
  BY <1>2 DEF Registered
<1> QED
  BY <1>1, <1>2

LEMMA GetRowsKnown ==
    ASSUME Inv, Inv', Known, NEW r \in Readers, GetRows(r), \A p \in Readers \ {r} : ~Up(rd[p])
    PROVE  Known'
<1>1. rd[r] \in ReaderType /\ rd[r].pc = "rows" /\ UNCHANGED <<req, lastId, rows, saved, master>>
  BY DEF Inv, ReadersInv, GetRows, sourceVars, storeVars
<1>2. CASE Failed(r)
  BY <1>1, <1>2, FailedKnown
<1>3. CASE rd' = [rd EXCEPT ![r].pc = "add", ![r].seen = rows] /\ UNCHANGED missed
  <2>1. \A p \in Readers \ {r} : rd'[p] = rd[p]
    BY <1>3 DEF Inv, ReadersInv
  <2>2. /\ rd'[r].pc = "add" /\ rd'[r].seen = rows /\ rd'[r].pos = rd[r].pos /\ rd'[r].alter = rd[r].alter
        /\ rd'[r].entries = rd[r].entries /\ rd'[r].todo = rd[r].todo
    BY <1>1, <1>3 DEF Inv, ReadersInv, ReaderType
  <2>3. WithinMaster'
    BY <1>1, <2>1, <2>2 DEF Known, WithinMaster
  <2>4. Holding(r, rd[r])'
    BY <2>2 DEF Holding, Looping
  <2>5. \A v \in Registered : Matches(rd[r], v)'
    <3> SUFFICES ASSUME NEW v \in Registered PROVE Matches(rd[r], v)'
      OBVIOUS
    <3>1. Matches(rd[r], v)
      BY <1>1 DEF Known, Up
    <3> QED
      BY <1>1, <2>2, <3>1 DEF Matches
  <2>6. KeptBy(rd[r])'
    <3>1. \A v \in Registered, k \in 1 .. MaxAlters : AheadOf(rd[r], v, k) => AheadOf(rd'[r], v, k)
      BY <1>1, <2>2 DEF AheadOf
    <3> QED
      BY <1>1, <1>3, <2>2, <3>1, KeptMoves DEF Up
  <2>7. \A v \in Versions : /\ rows'[v].id = rows[v].id
                            /\ rd'[r].entries[v].id \in {0, rd[r].entries[v].id, rd[r].seen[v].id}
                            /\ rd'[r].seen[v].id \in {0, rd[r].seen[v].id, rows[v].id}
                            /\ rd'[r].entries[v] # NoEntry => rd'[r].entries[v].id > 0
                            /\ rd'[r].seen[v] # NoRow => rd'[r].seen[v].id > 0
    BY <1>1, <2>2 DEF Known, Numbered, Registered
  <2>8. Registered' = Registered
    BY <1>1 DEF Registered
  <2> QED
    BY <1>1, <2>1, <2>3, <2>4, <2>5, <2>6, <2>7, <2>8, OneReaderKnown
<1> QED
  BY <1>2, <1>3 DEF GetRows

LEMMA AddTablesKnown ==
    ASSUME Inv, Inv', Known, NEW r \in Readers, AddTables(r), \A p \in Readers \ {r} : ~Up(rd[p])
    PROVE  Known'
<1>1. rd[r] \in ReaderType /\ rd[r].pc = "add" /\ UNCHANGED <<req, lastId, rows, saved, master>>
  BY DEF Inv, ReadersInv, AddTables, sourceVars, storeVars
<1>2. CASE Failed(r)
  BY <1>1, <1>2, FailedKnown
<1>3. CASE /\ rd' = [rd EXCEPT ![r].pc = "save", ![r].entries = [v \in Versions |-> Reloaded(r, v)], ![r].seen = Down.seen]
           /\ missed' = missed \cup
                  IF ~rd[r].alter THEN {}
                  ELSE {<<rd[r].seen[v].id, rd[r].pos>> : v \in {w \in Reborn(r) : rd[r].pos \notin rd[r].seen[w].raw}}
  <2>1. \A p \in Readers \ {r} : rd'[p] = rd[p]
    BY <1>3 DEF Inv, ReadersInv
  <2>2. /\ rd'[r].pc = "save" /\ rd'[r].seen = Down.seen /\ rd'[r].pos = rd[r].pos /\ rd'[r].alter = rd[r].alter
        /\ rd'[r].entries = [v \in Versions |-> Reloaded(r, v)] /\ rd'[r].todo = rd[r].todo
    BY <1>1, <1>3 DEF Inv, ReadersInv, ReaderType
  <2>3. WithinMaster'
    BY <1>1, <2>1, <2>2 DEF Known, WithinMaster
  <2>4. Holding(r, rd[r])'
    BY <2>2 DEF Holding, Looping
  <2>5. NoEntry.id = 0 /\ NoRow.id = 0 /\ \A v \in Versions : rd'[r].seen[v] = NoRow
    BY <2>2 DEF NoEntry, NoRow, Down
  <2>6. \A v \in Versions : /\ rows'[v].id = rows[v].id
                            /\ rd'[r].entries[v].id \in {0, rd[r].entries[v].id, rd[r].seen[v].id}
                            /\ rd'[r].seen[v].id \in {0, rd[r].seen[v].id, rows[v].id}
                            /\ rd'[r].entries[v] # NoEntry => rd'[r].entries[v].id > 0
                            /\ rd'[r].seen[v] # NoRow => rd'[r].seen[v].id > 0
    <3> SUFFICES ASSUME NEW v \in Versions
                 PROVE  /\ Reloaded(r, v).id \in {0, rd[r].entries[v].id, rd[r].seen[v].id}
                        /\ Reloaded(r, v) # NoEntry => Reloaded(r, v).id > 0
      BY <1>1, <2>2, <2>5
    <3>1. /\ rd[r].entries[v] # NoEntry => rd[r].entries[v].id > 0
          /\ rd[r].seen[v] # NoRow => rd[r].seen[v].id > 0
      BY DEF Known, Numbered
    <3> QED
      BY <2>5, <3>1 DEF Reloaded
  <2>7. \A v \in Registered : Matches(rd[r], v)'
    <3> SUFFICES ASSUME NEW v \in Registered PROVE Matches(rd[r], v)'
      OBVIOUS
    <3> DEFINE row == rd[r].seen[v]
               ent == rd[r].entries[v]
    <3>1. Matches(rd[r], v) /\ v \in Versions /\ rows[v].id > 0 /\ rows[v] # NoRow
      BY <1>1 DEF Known, Up, Registered, Numbered
    <3>2. rd'[r].entries[v] = Reloaded(r, v)
      BY <2>2, <3>1
    <3>3. Reloaded(r, v).id = rows[v].id => rows[v].raw \subseteq Reloaded(r, v).raw /\ rows[v].sgtid = Reloaded(r, v).sgtid
      <4>1. row.id = rows[v].id => row = rows[v]
        BY <1>1, <3>1 DEF Matches
      <4>2. ent.id = rows[v].id => rows[v].raw \subseteq ent.raw /\ rows[v].sgtid = ent.sgtid
        BY <3>1 DEF Matches
      <4> HIDE DEF row, ent
      <4>3. Reloaded(r, v) \in {NoEntry, [id |-> row.id, sgtid |-> row.sgtid, raw |-> row.raw, enc |-> columns], ent}
        BY DEF Reloaded, row, ent
      <4>4. CASE Reloaded(r, v) = NoEntry
        BY <2>5, <3>1, <4>4
      <4>5. CASE Reloaded(r, v) = [id |-> row.id, sgtid |-> row.sgtid, raw |-> row.raw, enc |-> columns]
        BY <4>1, <4>5
      <4>6. CASE Reloaded(r, v) = ent
        BY <4>2, <4>6
      <4> QED
        BY <4>3, <4>4, <4>5, <4>6
    <3>4. rd[r].alter => Reloaded(r, v).id = rows[v].id \/ Settled(v, rd[r].pos)'
      <4> SUFFICES ASSUME rd[r].alter PROVE Reloaded(r, v).id = rows[v].id \/ Settled(v, rd[r].pos)'
        OBVIOUS
      <4>1. CASE Settled(v, rd[r].pos)
        <5>1. missed \subseteq missed'
          BY <1>3
        <5> QED
          BY <1>1, <2>2, <4>1, <5>1 DEF Settled
      <4>2. CASE row = rows[v] /\ ent = NoEntry
        BY <3>1, <4>2 DEF Reloaded
      <4>3. CASE row = rows[v] /\ ent.id = row.id
        BY <3>1, <4>3 DEF Reloaded
      <4>4. CASE row = rows[v] /\ ent # NoEntry /\ ent.id # row.id
        <5>1. ent.id > 0
          BY <3>1, <4>4 DEF Known, Numbered
        <5>2. v \in Reborn(r)
          BY <3>1, <4>4, <5>1 DEF Reborn
        <5>3. rd[r].pos \notin row.raw => <<row.id, rd[r].pos>> \in missed'
          BY <1>3, <5>2
        <5> QED
          BY <1>1, <2>2, <4>4, <5>3 DEF Settled
      <4>5. row = rows[v] \/ Settled(v, rd[r].pos)
        BY <1>1, <3>1 DEF Matches
      <4> QED
        BY <4>1, <4>2, <4>3, <4>4, <4>5
    <3> QED
      BY <1>1, <2>2, <3>2, <3>3, <3>4 DEF Matches
  <2>8. KeptBy(rd[r])'
    <3>1. \A v \in Registered, k \in 1 .. MaxAlters : AheadOf(rd[r], v, k) => AheadOf(rd'[r], v, k)
      BY <1>1, <2>2 DEF AheadOf
    <3>2. missed \subseteq missed'
      BY <1>3
    <3> QED
      BY <1>1, <2>2, <3>1, <3>2, KeptMoves DEF Up
  <2>9. Registered' = Registered
    BY <1>1 DEF Registered
  <2> QED
    BY <1>1, <2>1, <2>3, <2>4, <2>6, <2>7, <2>8, <2>9, OneReaderKnown
<1> QED
  BY <1>2, <1>3 DEF AddTables

\* Where the loop goes on, or ends.
LEMMA ResumeFields ==
    ASSUME NEW m \in ReaderType, NEW todo \in SUBSET Versions, m.alter
    PROVE  /\ Resume(m, todo).pos = m.pos /\ Resume(m, todo).entries = m.entries /\ Resume(m, todo).seen = m.seen
           /\ Resume(m, todo).todo = todo
           /\ todo = {} => Resume(m, todo).pc = "read" /\ ~Resume(m, todo).alter
           /\ todo # {} => Resume(m, todo).pc = "alter" /\ Resume(m, todo).alter
  BY DEF Resume, ReaderType

\* A step that leaves the rows, and the ids in the reader's entries.
LEMMA QuietKnown ==
    ASSUME Inv, Inv', Known, NEW r \in Readers, \A p \in Readers \ {r} : rd'[p] = rd[p] /\ ~Up(rd[p]),
           UNCHANGED <<req, lastId, rows>>, WithinMaster', rd'[r].seen = rd[r].seen,
           \A v \in Versions : rd'[r].entries[v].id = rd[r].entries[v].id
               /\ (rd'[r].entries[v] # NoEntry => rd[r].entries[v] # NoEntry),
           Holding(r, rd[r])', \A v \in Registered : Matches(rd[r], v)', KeptBy(rd[r])'
    PROVE  Known'
<1>1. \A v \in Versions : /\ rows'[v].id = rows[v].id
                          /\ rd'[r].entries[v].id \in {0, rd[r].entries[v].id, rd[r].seen[v].id}
                          /\ rd'[r].seen[v].id \in {0, rd[r].seen[v].id, rows[v].id}
                          /\ rd'[r].entries[v] # NoEntry => rd'[r].entries[v].id > 0
                          /\ rd'[r].seen[v] # NoRow => rd'[r].seen[v].id > 0
  BY DEF Known, Numbered
<1>2. Registered' = Registered
  BY DEF Registered
<1> QED
  BY <1>1, <1>2, OneReaderKnown

LEMMA SaveKnown ==
    ASSUME Inv, Inv', Known, NEW r \in Readers, Save(r), \A p \in Readers \ {r} : ~Up(rd[p])
    PROVE  Known'
<1> DEFINE m    == [rd[r] EXCEPT !.first = FALSE]
           todo == {v \in Versions : m.entries[v] # NoEntry}
<1>1. rd[r] \in ReaderType /\ rd[r].pc = "save" /\ UNCHANGED <<req, lastId, rows, master>> /\ rd[r].pos \in Nat /\ saved \in Nat
  BY DEF Inv, ReadersInv, Save, sourceVars, ReaderType, TablesInv
<1>2. m \in ReaderType /\ m.alter = rd[r].alter /\ m.pos = rd[r].pos /\ m.entries = rd[r].entries /\ m.seen = rd[r].seen
      /\ m.todo = rd[r].todo
  BY <1>1 DEF ReaderType
<1>3. CASE Failed(r) /\ UNCHANGED saved
  BY <1>1, <1>3, FailedKnown
<1>4. CASE /\ saved' = rd[r].pos /\ UNCHANGED missed
           /\ rd' = [rd EXCEPT ![r] = IF m.alter THEN Resume(m, todo) ELSE [m EXCEPT !.pc = "read"]]
  <2>1. \A p \in Readers \ {r} : rd'[p] = rd[p]
    BY <1>4 DEF Inv, ReadersInv
  <2>2. rd'[r] = IF m.alter THEN Resume(m, todo) ELSE [m EXCEPT !.pc = "read"]
    BY <1>4 DEF Inv, ReadersInv
  <2>3. CASE m.alter
    <3>1. /\ rd'[r].pos = rd[r].pos /\ rd'[r].entries = rd[r].entries /\ rd'[r].seen = rd[r].seen
          /\ rd'[r].todo = todo
          /\ todo = {} => rd'[r].pc = "read" /\ ~rd'[r].alter
          /\ todo # {} => rd'[r].pc = "alter" /\ rd'[r].alter
      <4>1. todo \in SUBSET Versions
        OBVIOUS
      <4> HIDE DEF todo, m
      <4> QED
        BY <1>2, <2>2, <2>3, <4>1, ResumeFields
    <3>2. todo = {v \in Versions : rd[r].entries[v] # NoEntry}
      BY <1>2
    <3> HIDE DEF todo, m
    <3>3. Holding(r, rd[r])'
      BY <3>1, <3>2 DEF Holding, Looping
    <3>4. \A v \in Registered : Matches(rd[r], v)'
      <4> SUFFICES ASSUME NEW v \in Registered PROVE Matches(rd[r], v)'
        OBVIOUS
      <4>1. Matches(rd[r], v)
        BY <1>1 DEF Known, Up
      <4> QED
        BY <1>1, <1>2, <1>4, <2>3, <3>1, <4>1 DEF Matches, Settled
    <3>5. KeptBy(rd[r])'
      <4>1. \A v \in Registered, k \in 1 .. MaxAlters : AheadOf(rd[r], v, k) => AheadOf(rd'[r], v, k) \/ Settled(v, k)'
        <5> SUFFICES ASSUME NEW v \in Registered, NEW k \in 1 .. MaxAlters, AheadOf(rd[r], v, k)
                     PROVE  AheadOf(rd'[r], v, k) \/ Settled(v, k)'
          OBVIOUS
        <5>1. CASE rd[r].pos < k
          BY <3>1, <5>1 DEF AheadOf
        <5>2. CASE rd[r].pos = k /\ v \in todo
          BY <3>1, <5>2 DEF AheadOf
        <5>3. CASE rd[r].pos = k /\ v \notin todo
          <6>1. rd[r].entries[v].id = 0 /\ rows[v].id > 0
            BY <3>2, <5>3 DEF NoEntry, Known, Numbered, Registered
          <6>2. Matches(rd[r], v) /\ rd[r].alter
            BY <1>1, <1>2, <2>3 DEF Known, Up
          <6>3. Settled(v, rd[r].pos)
            BY <1>1, <6>1, <6>2 DEF Matches
          <6> QED
            BY <1>1, <1>4, <5>3, <6>3 DEF Settled
        <5> QED
          BY <5>1, <5>2, <5>3 DEF AheadOf
      <4> QED
        BY <1>1, <1>4, <3>1, <4>1, KeptMoves DEF Up
    <3>6. WithinMaster'
      BY <1>1, <1>4, <2>1, <3>1 DEF Known, WithinMaster
    <3> QED
      BY <1>1, <2>1, <3>1, <3>3, <3>4, <3>5, <3>6, QuietKnown
  <2>4. CASE ~m.alter
    <3>1. /\ rd'[r].pos = rd[r].pos /\ rd'[r].entries = rd[r].entries /\ rd'[r].seen = rd[r].seen
          /\ rd'[r].todo = rd[r].todo /\ rd'[r].pc = "read" /\ ~rd'[r].alter /\ ~rd[r].alter
      BY <1>1, <1>2, <2>2, <2>4 DEF ReaderType
    <3> HIDE DEF m
    <3>3. Holding(r, rd[r])'
      BY <3>1 DEF Holding, Looping
    <3>4. \A v \in Registered : Matches(rd[r], v)'
      <4> SUFFICES ASSUME NEW v \in Registered PROVE Matches(rd[r], v)'
        OBVIOUS
      <4>1. Matches(rd[r], v)
        BY <1>1 DEF Known, Up
      <4> QED
        BY <1>1, <1>4, <3>1, <4>1 DEF Matches
    <3>5. KeptBy(rd[r])'
      <4>1. \A v \in Registered, k \in 1 .. MaxAlters : AheadOf(rd[r], v, k) => AheadOf(rd'[r], v, k)
        BY <3>1 DEF AheadOf
      <4> QED
        BY <1>1, <1>4, <3>1, <4>1, KeptMoves DEF Up
    <3>6. WithinMaster'
      BY <1>1, <1>4, <2>1, <3>1 DEF Known, WithinMaster
    <3> QED
      BY <1>1, <2>1, <3>1, <3>3, <3>4, <3>5, <3>6, QuietKnown
  <2> QED
    BY <2>3, <2>4
<1> QED
  BY <1>3, <1>4 DEF Save

LEMMA TickKnown ==
    ASSUME Inv, Inv', Known, NEW r \in Readers, Tick(r), \A p \in Readers \ {r} : ~Up(rd[p])
    PROVE  Known'
<1>1. rd[r] \in ReaderType /\ rd[r].pc = "read" /\ UNCHANGED <<req, lastId, rows, saved, master, missed>>
  BY DEF Inv, ReadersInv, Tick, sourceVars, storeVars
<1>2. /\ \A p \in Readers \ {r} : rd'[p] = rd[p]
      /\ rd'[r] = [rd[r] EXCEPT !.pc = "rows", !.right = {}, !.crossed = FALSE]
  BY DEF Tick, Inv, ReadersInv
<1>3. /\ rd'[r].pc = "rows" /\ rd'[r].pos = rd[r].pos /\ rd'[r].entries = rd[r].entries /\ rd'[r].seen = rd[r].seen
      /\ rd'[r].todo = rd[r].todo /\ rd'[r].alter = rd[r].alter /\ ~rd[r].alter
  BY <1>1, <1>2 DEF ReaderType, Known, Holding
<1>4. Holding(r, rd[r])' /\ WithinMaster'
  BY <1>1, <1>2, <1>3 DEF Known, Holding, Looping, WithinMaster
<1>5. \A v \in Registered : Matches(rd[r], v)'
  <2> SUFFICES ASSUME NEW v \in Registered PROVE Matches(rd[r], v)'
    OBVIOUS
  <2>1. Matches(rd[r], v)
    BY <1>1 DEF Known, Up
  <2> QED
    BY <1>1, <1>3, <2>1 DEF Matches
<1>6. KeptBy(rd[r])'
  <2>1. \A v \in Registered, k \in 1 .. MaxAlters : AheadOf(rd[r], v, k) => AheadOf(rd'[r], v, k)
    BY <1>1, <1>3 DEF AheadOf
  <2> QED
    BY <1>1, <1>3, <2>1, KeptMoves DEF Up
<1> QED
  BY <1>1, <1>2, <1>3, <1>4, <1>5, <1>6, QuietKnown

LEMMA TakeAlterKnown ==
    ASSUME Inv, Inv', Known, NEW r \in Readers, TakeAlter(r), \A p \in Readers \ {r} : ~Up(rd[p])
    PROVE  Known'
<1>1. /\ rd[r] \in ReaderType /\ rd[r].pc = "read" /\ UNCHANGED <<req, lastId, rows, saved, master, missed>>
      /\ rd[r].pos \in Nat /\ master \in Nat /\ rd[r].pos < master
  BY DEF Inv, ReadersInv, TakeAlter, sourceVars, storeVars, ReaderType, TablesInv
<1>2. /\ \A p \in Readers \ {r} : rd'[p] = rd[p]
      /\ rd'[r] = [rd[r] EXCEPT
                      !.pc = "rows", !.pos = @ + 1, !.alter = TRUE, !.crossed = FALSE,
                      !.right = {v \in Versions : rd[r].entries[v] # NoEntry /\ rd[r].entries[v].raw = 1 .. rd[r].pos}]
  BY DEF TakeAlter, Inv, ReadersInv
<1>3. /\ rd'[r].pc = "rows" /\ rd'[r].pos = rd[r].pos + 1 /\ rd'[r].entries = rd[r].entries /\ rd'[r].seen = rd[r].seen
      /\ rd'[r].todo = rd[r].todo /\ rd'[r].alter /\ ~rd[r].alter
  BY <1>1, <1>2 DEF ReaderType, Known, Holding
<1>4. Holding(r, rd[r])' /\ WithinMaster'
  <2>1. Holding(r, rd[r])'
    BY <1>3 DEF Holding, Looping
  <2>2. rd'[r].pos <= master
    BY <1>1, <1>3
  <2> QED
    BY <1>1, <1>2, <2>1, <2>2 DEF Known, WithinMaster
<1>5. \A v \in Registered : Matches(rd[r], v)'
  <2> SUFFICES ASSUME NEW v \in Registered PROVE Matches(rd[r], v)'
    OBVIOUS
  <2>1. Matches(rd[r], v)
    BY <1>1 DEF Known, Up
  <2> QED
    BY <1>1, <1>3, <2>1 DEF Matches
<1>6. KeptBy(rd[r])'
  <2>1. \A k \in 1 .. MaxAlters : k <= rd'[r].pos => k <= rd[r].pos \/ k = rd'[r].pos
    BY <1>1, <1>3, BoundsAssumption
  <2>2. \A v, k : k = rd'[r].pos => AheadOf(rd'[r], v, k)
    BY <1>3 DEF AheadOf
  <2>3. \A v \in Registered, k \in 1 .. MaxAlters : AheadOf(rd[r], v, k) => AheadOf(rd'[r], v, k)
    <3>1. \A k \in 1 .. MaxAlters : rd[r].pos < k => k = rd'[r].pos \/ rd'[r].pos < k
      BY <1>1, <1>3, BoundsAssumption
    <3> QED
      BY <1>1, <1>3, <3>1 DEF AheadOf
  <2> QED
    BY <1>1, <2>1, <2>2, <2>3, KeptMoves DEF Up
<1> QED
  BY <1>1, <1>2, <1>3, <1>4, <1>5, <1>6, QuietKnown

LEMMA SelectKnown ==
    ASSUME Inv, Inv', Known, NEW r \in Readers, Select(r), \A p \in Readers \ {r} : ~Up(rd[p])
    PROVE  Known'
<1> DEFINE m == rd[r]
<1>1. /\ m \in ReaderType /\ m.pc = "alter" /\ UNCHANGED <<req, lastId, rows, saved, master>> /\ m.pos \in Nat
      /\ m.alter /\ m.todo \subseteq Versions
  BY DEF Inv, ReadersInv, Select, sourceVars, storeVars, ReaderType, Sound, Placed, Looping
<1>2. CASE Failed(r)
  BY <1>1, <1>2, FailedKnown
<1>3. CASE ~Failed(r)
  <2>1. PICK v \in m.todo :
          /\ v \in Registered
          /\ rd' = [rd EXCEPT ![r] =
                 IF rows[v].sgtid = m.entries[v].sgtid
                 THEN [[m EXCEPT !.at = v, !.entries[v] = Mutated(m.entries[v], m.pos)] EXCEPT !.pc = "commit"]
                 ELSE [[m EXCEPT !.at = v, !.entries[v] = Mutated(m.entries[v], m.pos)]
                          EXCEPT !.pc = "codec", !.entries[v] = Stored(@, m.pos), !.crossed = TRUE]]
          /\ locked' = [locked EXCEPT ![v] = [by |-> r, over |-> rows[v].sgtid # m.entries[v].sgtid]]
          /\ UNCHANGED missed
    BY <1>3 DEF Select
  <2> DEFINE ent == m.entries[v]
  <2>2. v \in Versions /\ v \in Lockable /\ ent \in EntryType /\ m.entries \in [Versions -> EntryType]
    BY <1>1, <2>1 DEF ReaderType, Lockable
  <2>3. /\ Mutated(ent, m.pos).id = ent.id /\ Mutated(ent, m.pos).sgtid = ent.sgtid /\ Mutated(ent, m.pos).raw = ent.raw \cup {m.pos}
        /\ Stored(Mutated(ent, m.pos), m.pos).id = ent.id /\ Stored(Mutated(ent, m.pos), m.pos).raw = ent.raw \cup {m.pos}
    BY <2>2 DEF Mutated, Stored, EntryType
  <2>4. \A p \in Readers \ {r} : rd'[p] = rd[p]
    BY <2>1 DEF Inv, ReadersInv
  <2>5. /\ rd'[r].pos = m.pos /\ rd'[r].alter /\ rd'[r].seen = m.seen /\ rd'[r].todo = m.todo /\ rd'[r].at = v
        /\ \A w \in Versions \ {v} : rd'[r].entries[w] = m.entries[w]
        /\ rows[v].sgtid = ent.sgtid => rd'[r].pc = "commit" /\ rd'[r].entries[v] = Mutated(ent, m.pos)
        /\ rows[v].sgtid # ent.sgtid => rd'[r].pc = "codec" /\ rd'[r].entries[v] = Stored(Mutated(ent, m.pos), m.pos)
    <3> DEFINE c == [[m EXCEPT !.at = v, !.entries[v] = Mutated(m.entries[v], m.pos)] EXCEPT !.pc = "commit"]
               d == [[m EXCEPT !.at = v, !.entries[v] = Mutated(m.entries[v], m.pos)]
                          EXCEPT !.pc = "codec", !.entries[v] = Stored(@, m.pos), !.crossed = TRUE]
    <3>1. rd'[r] = IF rows[v].sgtid = m.entries[v].sgtid THEN c ELSE d
      BY <2>1 DEF Inv, ReadersInv
    <3>2. /\ c.pos = m.pos /\ c.alter /\ c.seen = m.seen /\ c.todo = m.todo /\ c.at = v /\ c.pc = "commit"
          /\ c.entries = [m.entries EXCEPT ![v] = Mutated(m.entries[v], m.pos)]
      BY <1>1, <2>2 DEF ReaderType
    <3>3. /\ d.pos = m.pos /\ d.alter /\ d.seen = m.seen /\ d.todo = m.todo /\ d.at = v /\ d.pc = "codec"
          /\ d.entries = [m.entries EXCEPT ![v] = Stored(Mutated(m.entries[v], m.pos), m.pos)]
      BY <1>1, <2>2 DEF ReaderType
    <3> HIDE DEF c, d
    <3> QED
      BY <2>2, <3>1, <3>2, <3>3
  <2>6. m.entries[v] # NoEntry /\ \A w \in m.todo : m.entries[w] # NoEntry
    BY <1>1, <2>1 DEF Known, Holding, Looping
  <2>7. ent.id > 0 /\ NoEntry.id = 0
    BY <2>2, <2>6 DEF Known, Numbered, NoEntry
  <2>8. \A w \in Versions : rd'[r].entries[w].id = m.entries[w].id /\ (rd'[r].entries[w] # NoEntry => m.entries[w] # NoEntry)
    BY <2>3, <2>5, <2>6
  <2>9. WithinMaster'
    BY <1>1, <2>4, <2>5 DEF Known, WithinMaster
  <2>10. Holding(r, rd[r])'
    <3>1. \A w \in m.todo : rd'[r].entries[w] # NoEntry
      <4>1. rd'[r].entries[v].id = ent.id
        BY <2>3, <2>5
      <4> QED
        BY <1>1, <2>5, <2>6, <2>7, <4>1
    <3>2. rows[v].sgtid = ent.sgtid => locked'[v] = [by |-> r, over |-> FALSE]
      BY <2>1, <2>2 DEF Inv, LocksInv
    <3>3. Registered' = Registered
      BY <1>1 DEF Registered
    <3>4. /\ rd'[r].pc \in Looping /\ rd'[r].pc \notin {"down", "final", "read"} /\ rd'[r].todo = m.todo
          /\ rd'[r].pc = "commit" => rows[v].sgtid = ent.sgtid /\ rd'[r].at = v
      BY <2>5 DEF Looping
    <3>5. rd'[r].pc = "commit" => v \in Registered /\ rd'[r].pos \in rd'[r].entries[v].raw
      BY <2>1, <2>3, <2>5
    <3> QED
      BY ONLY <3>1, <3>2, <3>3, <3>4, <3>5 DEF Holding
  <2>11. \A w \in Registered : Matches(rd[r], w)'
    <3> SUFFICES ASSUME NEW w \in Registered PROVE Matches(rd[r], w)'
      OBVIOUS
    <3>1. Matches(m, w) /\ w \in Versions
      BY <1>1 DEF Known, Up, Registered
    <3>2. Settled(w, m.pos)' <=> Settled(w, m.pos)
      BY <1>1, <2>1, <2>5 DEF Settled
    <3>3. m.entries[w].id = rows[w].id \/ Settled(w, m.pos)
      BY <1>1, <3>1 DEF Matches
    <3>4. CASE w # v
      <4>1. rd'[r].entries[w] = m.entries[w] /\ rd'[r].at # w /\ rd'[r].pc # "add"
        BY <2>5, <3>1, <3>4
      <4>2. m.entries[w].id = rows[w].id => rows[w].raw \subseteq m.entries[w].raw /\ rows[w].sgtid = m.entries[w].sgtid
        BY <3>1 DEF Matches
      <4> QED
        BY <1>1, <2>5, <3>2, <3>3, <4>1, <4>2 DEF Matches
    <3>5. CASE w = v
      <4>1. ent.id = rows[v].id => rows[v].raw \subseteq ent.raw /\ rows[v].sgtid = ent.sgtid
        BY <3>1, <3>5 DEF Matches
      <4>2. CASE rows[v].sgtid = ent.sgtid
        <5>1. rd'[r].pc = "commit" /\ rd'[r].entries[v].id = ent.id /\ rd'[r].entries[v].sgtid = ent.sgtid
              /\ rd'[r].entries[v].raw = ent.raw \cup {m.pos}
          BY <2>3, <2>5, <4>2
        <5> QED
          BY <1>1, <2>5, <3>2, <3>3, <3>5, <4>1, <5>1 DEF Matches
      <4>3. CASE rows[v].sgtid # ent.sgtid
        <5>1. rd'[r].pc = "codec" /\ rd'[r].entries[v].id = ent.id
          BY <2>3, <2>5, <4>3
        <5>2. ent.id # rows[v].id /\ Settled(v, m.pos)
          BY <3>3, <3>5, <4>1, <4>3
        <5> QED
          BY <1>1, <2>5, <3>2, <3>5, <5>1, <5>2 DEF Matches
      <4> QED
        BY <4>2, <4>3
    <3> QED
      BY <3>4, <3>5
  <2>12. KeptBy(rd[r])'
    <3>1. rd'[r].pc \in {"commit", "codec"}
      BY <2>5
    <3>2. \A w \in Registered, k \in 1 .. MaxAlters : AheadOf(rd[r], w, k) => AheadOf(rd'[r], w, k)
      BY <1>1, <2>5, <3>1 DEF AheadOf
    <3> QED
      BY <1>1, <2>1, <2>5, <3>2, KeptMoves DEF Up
  <2> QED
    BY <1>1, <2>4, <2>5, <2>8, <2>9, <2>10, <2>11, <2>12, QuietKnown
<1> QED
  BY <1>2, <1>3

LEMMA CodecKnown ==
    ASSUME Inv, Inv', Known, NEW r \in Readers, Codec(r), \A p \in Readers \ {r} : ~Up(rd[p])
    PROVE  Known'
<1> DEFINE m == rd[r]
           n == [m EXCEPT !.entries[m.at].enc = columns]
           todo == m.todo \ {m.at}
<1>1. /\ m \in ReaderType /\ m.pc = "codec" /\ UNCHANGED <<req, lastId, rows, saved, master>> /\ m.pos \in Nat
      /\ m.alter /\ m.todo \subseteq Versions /\ m.at \in m.todo /\ columns \in SchemaOrNone
  BY DEF Inv, ReadersInv, Codec, sourceVars, storeVars, ReaderType, Sound, Placed, Looping, TablesInv
<1>2. CASE Failed(r)
  BY <1>1, <1>2, FailedKnown
<1>3. CASE rd' = [rd EXCEPT ![r] = Resume(n, todo)] /\ UNCHANGED missed
  <2>1. \A p \in Readers \ {r} : rd'[p] = rd[p]
    BY <1>3 DEF Inv, ReadersInv
  <2>2. m.entries \in [Versions -> EntryType] /\ m.at \in Versions
    BY <1>1 DEF ReaderType
  <2>3. [m.entries[m.at] EXCEPT !.enc = columns] \in EntryType
    BY <1>1, <2>2 DEF EntryType
  <2>4. n \in ReaderType /\ n.alter /\ n.pos = m.pos /\ n.seen = m.seen
        /\ n.entries = [m.entries EXCEPT ![m.at].enc = columns]
    BY <1>1, <2>2, <2>3 DEF ReaderType
  <2>5. \A v \in Versions : n.entries[v].id = m.entries[v].id /\ n.entries[v].sgtid = m.entries[v].sgtid
                            /\ n.entries[v].raw = m.entries[v].raw
    BY <2>2, <2>4 DEF EntryType
  <2>6. m.entries[m.at] # NoEntry /\ \A w \in m.todo : m.entries[w] # NoEntry
    BY <1>1 DEF Known, Holding, Looping
  <2>7. todo \in SUBSET Versions /\ rd'[r] = Resume(n, todo)
    BY <1>1, <1>3 DEF Inv, ReadersInv
  <2>8. \A w \in Versions : (n.entries[w] # NoEntry => m.entries[w] # NoEntry)
    BY <2>2, <2>4, <2>6
  <2>9. \A w \in m.todo : n.entries[w] # NoEntry
    <3>1. \A w \in m.todo : m.entries[w].id > 0 /\ w \in Versions
      BY <1>1, <2>6 DEF Known, Numbered
    <3> QED
      BY <2>5, <3>1 DEF NoEntry
  <2> HIDE DEF n, todo
  <2>10. /\ rd'[r].pos = m.pos /\ rd'[r].entries = n.entries /\ rd'[r].seen = m.seen /\ rd'[r].todo = todo
         /\ todo = {} => rd'[r].pc = "read" /\ ~rd'[r].alter
         /\ todo # {} => rd'[r].pc = "alter" /\ rd'[r].alter
    BY <2>4, <2>7, ResumeFields
  <2>11. Holding(r, rd[r])'
    BY <2>9, <2>10 DEF Holding, Looping, todo
  <2>12. \A v \in Registered : Matches(rd[r], v)'
    <3> SUFFICES ASSUME NEW v \in Registered PROVE Matches(rd[r], v)'
      OBVIOUS
    <3>1. Matches(rd[r], v) /\ v \in Versions
      BY <1>1 DEF Known, Up, Registered
    <3>2. rd'[r].pc \in {"read", "alter"}
      BY <2>10
    <3>3. Settled(v, m.pos)' <=> Settled(v, m.pos)
      BY <1>1, <1>3, <2>10 DEF Settled
    <3> QED
      BY <1>1, <2>5, <2>10, <3>1, <3>2, <3>3 DEF Matches
  <2>13. KeptBy(rd[r])'
    <3>1. ASSUME NEW v \in Registered, NEW k \in 1 .. MaxAlters, AheadOf(rd[r], v, k)
          PROVE  AheadOf(rd'[r], v, k) \/ Settled(v, k)'
      <4>1. CASE m.pos < k
        BY <2>10, <4>1 DEF AheadOf
      <4>2. CASE m.pos = k /\ v \in todo
        BY <2>10, <4>2 DEF AheadOf
      <4>3. CASE m.pos = k /\ v = m.at
        <5>1. Matches(rd[r], v)
          BY <1>1 DEF Known, Up
        <5>2. Settled(v, k)
          BY <1>1, <4>3, <5>1 DEF Matches
        <5> QED
          BY <1>1, <1>3, <5>2 DEF Settled
      <4> QED
        BY <1>1, <3>1, <4>1, <4>2, <4>3 DEF AheadOf, todo
    <3> QED
      BY <1>1, <1>3, <2>10, <3>1, KeptMoves DEF Up
  <2>14. WithinMaster'
    BY <1>1, <2>1, <2>10 DEF Known, WithinMaster
  <2> QED
    BY <1>1, <2>1, <2>5, <2>8, <2>10, <2>11, <2>12, <2>13, <2>14, QuietKnown
<1> QED
  BY <1>2, <1>3 DEF Codec

LEMMA CommitKnown ==
    ASSUME Inv, Inv', Known, NEW r \in Readers, Commit(r), \A p \in Readers \ {r} : ~Up(rd[p])
    PROVE  Known'
<1> DEFINE m == rd[r]
           at == m.at
           ent == m.entries[at]
           row == rows[at]
<1>1. /\ m \in ReaderType /\ m.pc = "commit" /\ UNCHANGED <<req, lastId, saved, master>> /\ m.pos \in Nat
      /\ m.alter /\ m.todo \subseteq Versions /\ at \in m.todo /\ rows \in [Versions -> RowType]
  BY DEF Inv, ReadersInv, Commit, sourceVars, storeVars, ReaderType, Sound, Placed, Looping, TablesInv
<1>2. CASE locked[Columns] # Free
  <2>1. Failed(r) /\ UNCHANGED rows
    BY <1>2 DEF Commit
  <2> QED
    BY <1>1, <2>1, FailedKnown
<1>3. CASE locked[Columns] = Free
  <2>1. /\ rows' = [rows EXCEPT ![at].raw = ent.raw, ![at].sgtid = m.pos]
        /\ rd' = [p \in Readers |-> IF p = r
                     THEN [m EXCEPT !.pc = "codec", !.entries[at] = Stored(@, m.pos)]
                     ELSE Crossed(rd[p])]
        /\ missed' = missed \cup {<<row.id, k>> : k \in IF row.id = ent.id THEN {} ELSE row.raw \ ent.raw}
    BY <1>3 DEF Commit
  <2>2. at \in Versions /\ m.entries \in [Versions -> EntryType] /\ ent \in EntryType
    BY <1>1 DEF ReaderType
  <2>3. /\ Stored(ent, m.pos).id = ent.id /\ Stored(ent, m.pos).sgtid = m.pos /\ Stored(ent, m.pos).raw = ent.raw
    BY <2>2 DEF Stored, EntryType
  <2>4. \A p \in Readers \ {r} : rd'[p] = rd[p]
    BY <2>1 DEF Crossed, Up
  <2>5. /\ rd'[r].pos = m.pos /\ rd'[r].alter = m.alter /\ rd'[r].seen = m.seen /\ rd'[r].todo = m.todo /\ rd'[r].at = at
        /\ rd'[r].pc = "codec" /\ rd'[r].entries = [m.entries EXCEPT ![at] = Stored(ent, m.pos)]
    BY <1>1, <2>1, <2>2 DEF ReaderType
  <2>6. /\ m.entries[at] # NoEntry /\ \A w \in m.todo : m.entries[w] # NoEntry
        /\ at \in Registered /\ m.pos \in ent.raw
    BY <1>1 DEF Known, Holding, Looping
  <2>7. /\ rows'[at].id = row.id /\ rows'[at].sgtid = m.pos /\ rows'[at].raw = ent.raw
        /\ \A w \in Versions \ {at} : rows'[w] = rows[w]
    BY <1>1, <2>1, <2>2 DEF RowType
  <2>8. row.id > 0 /\ NoRow.id = 0 /\ NoEntry.id = 0 /\ ent.id > 0
    BY <2>2, <2>6 DEF Known, Numbered, NoRow, NoEntry
  <2>9. Registered' = Registered
    BY <2>2, <2>6, <2>7, <2>8 DEF Registered
  <2>10. \A w \in Versions : /\ rows'[w].id = rows[w].id
                             /\ rd'[r].entries[w].id = m.entries[w].id
                             /\ rd'[r].entries[w] # NoEntry => m.entries[w] # NoEntry
    BY <2>2, <2>3, <2>5, <2>6, <2>7
  <2>11. WithinMaster'
    BY <1>1, <2>4, <2>5 DEF Known, WithinMaster
  <2>12. Holding(r, rd[r])'
    <3>1. rd'[r].entries[at].id = ent.id
      BY <2>2, <2>10
    <3>2. \A w \in m.todo : rd'[r].entries[w] # NoEntry
      BY <1>1, <2>2, <2>5, <2>6, <2>8, <3>1
    <3> QED
      BY <2>5, <3>2 DEF Holding
  <2>13. ASSUME NEW w \in Registered, NEW k, Settled(w, k) PROVE Settled(w, k)'
    <3>1. missed \subseteq missed'
      BY <2>1
    <3>2. w \in Versions
      BY DEF Registered
    <3>3. rows'[w].id = rows[w].id
      BY <2>10, <3>2
    <3>4. CASE w # at
      <4>1. rows'[w] = rows[w]
        BY <2>7, <3>2, <3>4
      <4> QED
        BY <2>13, <3>1, <4>1 DEF Settled
    <3>5. CASE w = at
      <4>1. rows'[w].raw = ent.raw /\ rows[w] = row
        BY <2>7, <3>5
      <4>2. row.id = ent.id => row.raw \subseteq ent.raw
        BY <1>1, <2>6 DEF Known, Up, Matches
      <4>3. row.id # ent.id /\ k \in row.raw \ ent.raw => <<row.id, k>> \in missed'
        BY <2>1
      <4> HIDE DEF ent, row, at, m
      <4> QED
        BY <2>13, <3>1, <3>3, <4>1, <4>2, <4>3 DEF Settled
    <3> QED
      BY <3>4, <3>5
  <2>14. \A w \in Registered : Matches(rd[r], w)'
    <3> SUFFICES ASSUME NEW w \in Registered PROVE Matches(rd[r], w)'
      OBVIOUS
    <3>1. Matches(m, w) /\ w \in Versions
      BY <1>1 DEF Known, Up, Registered
    <3>2. CASE w = at
      <4>1. rd'[r].entries[w] = Stored(ent, m.pos)
        BY <2>2, <2>5, <3>2
      <4>2. Settled(w, rd[r].pos)'
        <5>1. rd'[r].pos \in rows'[w].raw
          BY <2>5, <2>6, <2>7, <3>2
        <5> QED
          BY <5>1 DEF Settled
      <4> QED
        BY <2>3, <2>5, <2>7, <3>2, <4>1, <4>2 DEF Matches
    <3>3. CASE w # at
      <4>1. rd'[r].entries[w] = m.entries[w] /\ rows'[w] = rows[w] /\ rd'[r].at # w
        BY <2>2, <2>5, <2>7, <3>1, <3>3
      <4>2. m.entries[w].id = rows[w].id \/ Settled(w, m.pos)
        BY <1>1, <3>1 DEF Matches
      <4>3. m.entries[w].id = rows[w].id \/ Settled(w, rd[r].pos)'
        BY <2>5, <2>13, <4>2
      <4>4. m.entries[w].id = rows[w].id => rows[w].raw \subseteq m.entries[w].raw /\ rows[w].sgtid = m.entries[w].sgtid
        BY <3>1 DEF Matches
      <4> QED
        BY <2>5, <4>1, <4>3, <4>4 DEF Matches
    <3> QED
      BY <3>2, <3>3
  <2>15. KeptBy(rd[r])'
    <3> SUFFICES ASSUME NEW w \in Registered, NEW k \in 1 .. MaxAlters, k <= saved \/ k <= m.pos
                 PROVE  Settled(w, k)' \/ AheadOf(rd'[r], w, k)
      BY <1>1, <2>5, <2>9 DEF KeptBy
    <3>1. Settled(w, k) \/ AheadOf(m, w, k)
      BY <1>1, OwnKept DEF KeptBy, Up
    <3>2. AheadOf(m, w, k) => AheadOf(rd'[r], w, k)
      BY <1>1, <2>5 DEF AheadOf
    <3> QED
      BY <2>13, <3>1, <3>2
  <2> QED
    <3>1. \A v \in Versions : /\ rows'[v].id = rows[v].id
                              /\ rd'[r].entries[v].id \in {0, rd[r].entries[v].id, rd[r].seen[v].id}
                              /\ rd'[r].seen[v].id \in {0, rd[r].seen[v].id, rows[v].id}
                              /\ rd'[r].entries[v] # NoEntry => rd'[r].entries[v].id > 0
                              /\ rd'[r].seen[v] # NoRow => rd'[r].seen[v].id > 0
      BY <2>5, <2>10 DEF Known, Numbered
    <3> QED
      BY <1>1, <2>4, <2>9, <2>11, <2>12, <2>14, <2>15, <3>1, OneReaderKnown
<1> QED
  BY <1>2, <1>3

\* The reader is gone: what it leaves is settled up to the saved set.
LEMMA GoneKnown ==
    ASSUME Inv, Inv', Known, NEW r \in Readers, FinalSave(r) \/ Crash(r), \A p \in Readers \ {r} : ~Up(rd[p])
    PROVE  Known'
<1> DEFINE m == rd[r]
<1>1. /\ m \in ReaderType /\ m.pc # "down" /\ UNCHANGED <<req, lastId, rows, master>> /\ m.pos \in Nat /\ saved \in Nat
      /\ rd' = [rd EXCEPT ![r] = Down] /\ missed \subseteq missed'
  BY DEF Inv, ReadersInv, FinalSave, Crash, sourceVars, storeVars, ReaderType, TablesInv
<1>2. \A p \in Readers \ {r} : rd'[p] = rd[p]
  BY <1>1 DEF Inv, ReadersInv
<1>3. /\ rd'[r].pc = "down" /\ rd'[r].pos = 0 /\ ~rd'[r].alter
      /\ \A v \in Versions : rd'[r].entries[v] = NoEntry /\ rd'[r].seen[v] = NoRow
  BY <1>1 DEF Down, Inv, ReadersInv
<1>4. saved' \in {saved, m.pos}
  BY DEF FinalSave, Crash, storeVars
<1>5. WithinMaster'
  <2>1. 0 <= master
    BY DEF Inv, TablesInv
  <2> QED
    BY <1>1, <1>2, <1>3, <1>4, <2>1 DEF Known, WithinMaster
<1>6. Holding(r, rd[r])' /\ ~Up(rd'[r])
  BY <1>3 DEF Holding, Looping, Up
<1>7. KeptBy(rd[r])
  BY OwnKept
<1>8. KeptBy(rd[r])'
  <2> SUFFICES ASSUME NEW v \in Registered, NEW k \in 1 .. MaxAlters, k <= saved' PROVE Settled(v, k)'
    BY <1>1, <1>6 DEF KeptBy, Registered
  <2>0. k \in Nat
    BY BoundsAssumption
  <2>1. Settled(v, k) \/ AheadOf(m, v, k)
    BY <1>1, <1>4, <1>7 DEF KeptBy, Up
  <2>2. CASE FinalSave(r)
    <3>1. ~AheadOf(m, v, k)
      BY <2>2 DEF FinalSave, AheadOf, Known, Holding
    <3> QED
      BY <1>1, <2>1, <3>1, StaysSettled
  <2>3. CASE Crash(r)
    <3>1. missed' = missed \cup GivenUp(r, saved) /\ saved' = saved
      BY <2>3 DEF Crash, storeVars
    <3>2. CASE Settled(v, k)
      BY <1>1, <3>2, StaysSettled
    <3>3. CASE AheadOf(m, v, k)
      <4>1. k >= IF m.alter THEN m.pos ELSE m.pos + 1
        BY <1>1, <2>0, <3>3 DEF AheadOf
      <4>2. k \in (IF m.alter THEN m.pos ELSE m.pos + 1) .. saved
        BY <1>1, <2>0, <3>1, <4>1
      <4>3. k \in rows[v].raw \/ <<rows[v].id, k>> \in GivenUp(r, saved)
        BY <4>2 DEF GivenUp
      <4> QED
        BY <1>1, <3>1, <4>3 DEF Settled
    <3> QED
      BY <2>1, <3>2, <3>3
  <2> QED
    BY <2>2, <2>3
<1>9. \A v \in Versions : /\ rows'[v].id = rows[v].id
                          /\ rd'[r].entries[v].id \in {0, rd[r].entries[v].id, rd[r].seen[v].id}
                          /\ rd'[r].seen[v].id \in {0, rd[r].seen[v].id, rows[v].id}
                          /\ rd'[r].entries[v] # NoEntry => rd'[r].entries[v].id > 0
                          /\ rd'[r].seen[v] # NoRow => rd'[r].seen[v].id > 0
  BY <1>1, <1>3 DEF NoEntry, NoRow
<1> QED
  <2>1. Registered' = Registered
    BY <1>1 DEF Registered
  <2> QED
    BY <1>1, <1>2, <1>5, <1>6, <1>8, <1>9, <2>1, OneReaderKnown

\* Nobody takes a lock from a reader but itself.
LEMMA ReadersLocksStay ==
    ASSUME Inv, NEW h \in Handlers,
           \/ locked' \in {locked, Released(h), Abandoned(h), Dropped(h)}
           \/ \E v : locked[v] = Free /\ locked' = [locked EXCEPT ![v] = [by |-> h, over |-> FALSE]],
           NEW r \in Readers, NEW x \in Lockable, locked[x] = [by |-> r, over |-> FALSE]
    PROVE  locked'[x] = [by |-> r, over |-> FALSE]
<1>1. r # h /\ r # None /\ locked[x].by = r
  BY ProcessesAssumption
<1>2. locked[x] # Free
  BY <1>1 DEF Free
<1>3. CASE locked' \in {locked, Released(h), Abandoned(h), Dropped(h)}
  <2>1. locked[x] # [by |-> h, over |-> FALSE]
    BY <1>1
  <2> QED
    BY <1>1, <1>3, <2>1 DEF Released, Abandoned, Dropped
<1>4. CASE \E v : locked[v] = Free /\ locked' = [locked EXCEPT ![v] = [by |-> h, over |-> FALSE]]
  <2>1. PICK v : locked[v] = Free /\ locked' = [locked EXCEPT ![v] = [by |-> h, over |-> FALSE]]
    BY <1>4
  <2>2. v # x
    BY <1>2, <2>1
  <2>3. locked \in [Lockable -> [by : Processes, over : BOOLEAN]]
    BY DEF Inv, LocksInv
  <2> QED
    BY <2>1, <2>2, <2>3
<1> QED
  BY <1>3, <1>4

\* What touches neither the rows nor the readers.
LEMMA RowsStayKnown ==
    ASSUME Inv, Inv', Known, UNCHANGED <<rows, rd, saved, missed>>, master <= master', master' <= MaxAlters, lastId <= lastId',
           \A r \in Readers, x \in Lockable :
               locked[x] = [by |-> r, over |-> FALSE] => locked'[x] = [by |-> r, over |-> FALSE],
           NewIds'
    PROVE  Known'
<1>1. lastId \in Nat /\ lastId' \in Nat /\ master \in Nat /\ master' \in Nat /\ saved \in Nat /\ Registered' = Registered
  BY DEF Inv, TablesInv, Registered
<1>2. \A r \in Readers : rd[r] \in ReaderType
  BY DEF Inv, ReadersInv
<1>3. AllKept'
  BY <1>1 DEF Known, AllKept, AheadOf, Settled
<1>4. WithinMaster'
  BY <1>1, <1>2 DEF Known, WithinMaster, ReaderType
<1>5. Numbered'
  <2>1. \A v \in Versions : rows[v].id \in Nat
    BY DEF Inv, TablesInv, RowType
  <2>2. \A r \in Readers, v \in Versions : rd[r].entries[v].id \in Nat /\ rd[r].seen[v].id \in Nat
    BY <1>2 DEF ReaderType, EntryType, RowType
  <2> QED
    BY <1>1, <2>1, <2>2 DEF Known, Numbered
<1>6. ASSUME NEW r \in Readers PROVE Holding(r, rd[r])' /\ (Up(rd'[r]) => \A v \in Registered' : Matches(rd[r], v)')
  <2>1. Holding(r, rd[r])'
    <3>1. rd[r].pc = "commit" => locked'[rd[r].at] = [by |-> r, over |-> FALSE]
      <4>1. rd[r].pc = "commit" => rd[r].at \in Lockable /\ locked[rd[r].at] = [by |-> r, over |-> FALSE]
        BY DEF Known, Holding, Registered, Lockable
      <4> QED
        BY <4>1
    <3>2. Holding(r, rd[r])
      BY DEF Known
    <3> QED
      BY <1>1, <3>1, <3>2 DEF Holding
  <2>2. ASSUME Up(rd[r]), NEW v \in Registered PROVE Matches(rd[r], v)'
    <3>1. Matches(rd[r], v)
      BY <2>2 DEF Known
    <3> QED
      BY <3>1 DEF Matches, Settled
  <2> QED
    BY <1>1, <2>1, <2>2
<1> QED
  BY <1>3, <1>4, <1>5, <1>6 DEF Known

LEMMA RequestKnown ==
    ASSUME Inv, Inv', Known, NEW h \in Handlers,
           \/ Register(h) \/ ReadGtid(h) \/ ReadRaw(h) \/ Insert(h) \/ GiveUp(h) \/ FailRequest(h) \/ CrashRequest(h)
           \/ DeleteColumns(h)
    PROVE  Known'
<1>1. UNCHANGED <<rows, rd, saved, missed, master>> /\ lastId' \in {lastId, lastId + 1} /\ lastId \in Nat /\ master \in Nat
  BY DEF Register, ReadGtid, ReadRaw, Insert, GiveUp, FailRequest, CrashRequest, DeleteColumns, sourceVars, storeVars,
         Inv, TablesInv
<1>2. req \in [Handlers -> RequestType]
  BY DEF Inv, RequestsInv
<1>3. \A r \in Readers, x \in Lockable :
          locked[x] = [by |-> r, over |-> FALSE] => locked'[x] = [by |-> r, over |-> FALSE]
  <2>1. \/ locked' \in {locked, Released(h), Abandoned(h), Dropped(h)}
        \/ \E v : locked[v] = Free /\ locked' = [locked EXCEPT ![v] = [by |-> h, over |-> FALSE]]
    BY DEF Register, ReadGtid, ReadRaw, Insert, GiveUp, FailRequest, CrashRequest, DeleteColumns
  <2> QED
    BY <2>1, ReadersLocksStay
<1>4. NewIds'
  <2>1. CASE Insert(h) /\ req'[h].pc = "store"
    <3>1. lastId' = lastId + 1 /\ req' = [req EXCEPT ![h].pc = "store", ![h].id = lastId + 1]
      BY <1>2, <2>1 DEF Insert, Idle
    <3>2. req'[h].id = lastId + 1 /\ \A g \in Handlers \ {h} : req'[g] = req[g]
      BY <1>2, <3>1 DEF RequestType
    <3>3. \A v \in Versions : rows[v].id \in Nat /\ rows[v].id <= lastId
      BY DEF Inv, TablesInv, RowType, Known, Numbered
    <3>4. \A r \in Readers, v \in Versions :
              /\ rd[r].entries[v].id \in Nat /\ rd[r].entries[v].id <= lastId
              /\ rd[r].seen[v].id \in Nat /\ rd[r].seen[v].id <= lastId
      BY DEF Inv, ReadersInv, ReaderType, EntryType, RowType, Known, Numbered
    <3>5. New(req[h].id)'
      <4>1. lastId + 1 > 0 /\ \A i \in Nat : i <= lastId => i # lastId + 1
        BY <1>1
      <4>2. \A v \in Versions : rows[v].id # lastId + 1
        BY <3>3, <4>1
      <4>3. \A r \in Readers, v \in Versions : rd[r].entries[v].id # lastId + 1 /\ rd[r].seen[v].id # lastId + 1
        BY <3>4, <4>1
      <4>4. lastId' <= lastId'
        BY <1>1
      <4>5. req'[h].id = lastId + 1 /\ lastId' = lastId + 1 /\ UNCHANGED <<rows, rd>>
        BY <1>1, <3>1, <3>2
      <4> QED
        BY ONLY <4>1, <4>2, <4>3, <4>4, <4>5 DEF New
    <3>6. ASSUME NEW g \in Handlers \ {h}, req[g].pc = "store" PROVE New(req[g].id)' /\ req'[g].id # req'[h].id
      <4>1. New(req[g].id) /\ req[g].id \in Nat
        BY <1>2, <3>6 DEF Known, NewIds, RequestType
      <4>2. req[g].id <= lastId
        BY <4>1 DEF New
      <4>3. req[g].id <= lastId' /\ req[g].id # lastId + 1
        BY <1>1, <4>1, <4>2
      <4> QED
        BY <1>1, <3>1, <3>2, <4>1, <4>3 DEF New
    <3> QED
      BY <3>2, <3>5, <3>6 DEF NewIds, Known
  <2>2. CASE req'[h].pc # "store"
    <3>1. \A g \in Handlers \ {h} : req'[g] = req[g]
      BY <1>2 DEF Register, ReadGtid, ReadRaw, Insert, GiveUp, FailRequest, CrashRequest, DeleteColumns
    <3>2. ASSUME NEW g \in Handlers \ {h}, req[g].pc = "store" PROVE New(req[g].id)'
      <4>1. New(req[g].id) /\ req[g].id \in Nat
        BY <1>2, <3>2 DEF Known, NewIds, RequestType
      <4> QED
        BY <1>1, <3>1, <4>1 DEF New
    <3> QED
      BY <2>2, <3>1, <3>2 DEF NewIds, Known
  <2>3. CASE req'[h].pc = "store" /\ ~Insert(h)
    <3>1. CASE Register(h)
      <4>1. PICK v \in Versions : req' = [req EXCEPT ![h] = [Idle EXCEPT !.pc = "gtid", !.v = v, !.ts = 1 .. slave]]
        BY <3>1 DEF Register
      <4>2. req'[h].pc = "gtid"
        BY <1>2, <4>1 DEF Idle
      <4> QED
        BY <2>3, <4>2
    <3>2. CASE ReadGtid(h) \/ ReadRaw(h)
      BY <1>2, <2>3, <3>2 DEF ReadGtid, ReadRaw, RequestType
    <3>3. CASE GiveUp(h) \/ FailRequest(h) \/ CrashRequest(h) \/ DeleteColumns(h)
      <4>1. req'[h] = Idle
        BY <1>2, <3>3 DEF GiveUp, FailRequest, CrashRequest, DeleteColumns
      <4> QED
        BY <2>3, <4>1 DEF Idle
    <3> QED
      BY <2>3, <3>1, <3>2, <3>3
  <2> QED
    BY <2>1, <2>2, <2>3
<1> QED
  <2>1. lastId <= lastId' /\ master <= master' /\ master' <= MaxAlters
    BY <1>1 DEF Known, WithinMaster
  <2> QED
    BY <1>1, <1>3, <1>4, <2>1, RowsStayKnown

LEMMA CrossedFields ==
    ASSUME NEW m \in ReaderType
    PROVE  /\ Crossed(m).pc = m.pc /\ Crossed(m).pos = m.pos /\ Crossed(m).entries = m.entries /\ Crossed(m).seen = m.seen
           /\ Crossed(m).todo = m.todo /\ Crossed(m).at = m.at /\ Crossed(m).alter = m.alter
  BY DEF Crossed, ReaderType

\* A new row is settled with everything that a reader does not come to.
LEMMA CommitRegisterKnown ==
    ASSUME Inv, Inv', Known, NEW h \in Handlers, CommitRegister(h)
    PROVE  Known'
<1> DEFINE q == req[h]
<1>1. /\ q \in RequestType /\ q.pc = "store" /\ UNCHANGED <<saved, master, lastId>> /\ req' = [req EXCEPT ![h] = Idle]
      /\ lastId \in Nat /\ master \in Nat /\ saved \in Nat /\ rows \in [Versions -> RowType] /\ MaxAlters \in Nat
  BY BoundsAssumption DEF Inv, RequestsInv, TablesInv, CommitRegister, sourceVars
<1>2. \A g \in Handlers : req'[g].pc = "store" => g # h /\ req'[g] = req[g]
  BY <1>1 DEF Inv, RequestsInv, Idle
<1>3. \A r \in Readers, x \in Lockable :
          locked[x] = [by |-> r, over |-> FALSE] => locked'[x] = [by |-> r, over |-> FALSE]
  <2>1. locked' \in {Released(h), Abandoned(h)}
    BY DEF CommitRegister
  <2> QED
    BY <2>1, ReadersLocksStay
<1>4. CASE locked[Columns] # Free
  <2>1. UNCHANGED <<rows, rd, missed>>
    BY <1>4 DEF CommitRegister
  <2>2. NewIds'
    BY <1>1, <1>2, <2>1 DEF Known, NewIds, New
  <2>3. lastId <= lastId' /\ master <= master' /\ master' <= MaxAlters
    BY <1>1 DEF Known, WithinMaster
  <2> QED
    BY <1>1, <1>3, <2>1, <2>2, <2>3, RowsStayKnown
<1>5. CASE locked[Columns] = Free
  <2> DEFINE row == [id |-> q.id, sgtid |-> q.gtid, raw |-> q.raw]
  <2>1. /\ rows' = [rows EXCEPT ![q.v] = row]
        /\ rd' = [p \in Readers |-> Crossed(rd[p])]
        /\ missed' = missed \cup {<<q.id, k>> : k \in Behind \ q.raw}
    BY <1>5 DEF CommitRegister
  <2>2. \A p \in Readers : rd[p] \in ReaderType /\ rd[p].pos \in Nat
    BY DEF Inv, ReadersInv, ReaderType
  <2>3. \A p \in Readers : /\ rd'[p].pc = rd[p].pc /\ rd'[p].pos = rd[p].pos /\ rd'[p].entries = rd[p].entries
                           /\ rd'[p].seen = rd[p].seen /\ rd'[p].todo = rd[p].todo /\ rd'[p].at = rd[p].at
                           /\ rd'[p].alter = rd[p].alter
    BY <2>1, <2>2, CrossedFields
  <2>4. New(q.id) /\ \A g \in Handlers : req'[g].pc = "store" => New(req[g].id) /\ req[g].id # q.id
    BY <1>1, <1>2 DEF Known, NewIds
  <2>5. q.id > 0 /\ q.id <= lastId /\ q.id \in Nat
    BY <1>1, <2>4 DEF New, RequestType
  <2>6. \A v \in Versions : (v = q.v /\ rows'[v] = row) \/ (v # q.v /\ rows'[v] = rows[v])
    BY <1>1, <2>1
  <2>7. row # NoRow /\ row.id = q.id /\ row.raw = q.raw
    BY <2>5 DEF NoRow
  <2> HIDE DEF row, q
  <2>8. \A v \in Versions : /\ v = q.v => v \in Registered' /\ rows'[v].id = q.id /\ rows'[v].raw = q.raw
                            /\ v # q.v => (v \in Registered' <=> v \in Registered)
    BY <2>6, <2>7 DEF Registered
  <2>9. ASSUME NEW v \in Versions \ {q.v}, NEW k, Settled(v, k) PROVE Settled(v, k)'
    BY <2>1, <2>6, <2>9 DEF Settled
  <2>10. WithinMaster'
    BY <1>1, <2>3 DEF Known, WithinMaster
  <2>11. Numbered'
    <3>1. \A v \in Versions : rows'[v].id <= lastId' /\ (v \in Registered' => rows'[v].id > 0)
      <4> SUFFICES ASSUME NEW v \in Versions PROVE rows'[v].id <= lastId' /\ (v \in Registered' => rows'[v].id > 0)
        OBVIOUS
      <4>1. CASE v = q.v
        BY <1>1, <2>5, <2>8, <4>1
      <4>2. CASE v # q.v
        BY <1>1, <2>6, <2>8, <4>2 DEF Known, Numbered
      <4> QED
        BY <4>1, <4>2
    <3> QED
      BY <1>1, <2>3, <3>1 DEF Known, Numbered
  <2>12. NewIds'
    <3>1. ASSUME NEW g \in Handlers, req'[g].pc = "store" PROVE New(req[g].id)'
      <4>1. New(req[g].id) /\ req[g].id # q.id /\ req'[g] = req[g]
        BY <1>2, <2>4, <3>1
      <4>2. \A v \in Versions : rows'[v].id # req[g].id
        BY <2>6, <2>7, <4>1 DEF New
      <4> QED
        BY <1>1, <2>3, <4>1, <4>2 DEF New
    <3> QED
      BY <1>2, <3>1 DEF Known, NewIds
  <2>13. ASSUME NEW k \in 1 .. MaxAlters, NEW v \in Versions, v = q.v, k \in Behind PROVE Settled(v, k)'
    BY <2>1, <2>8, <2>13 DEF Settled
  <2>14. AllKept'
    <3> SUFFICES ASSUME NEW v \in Registered', NEW k \in 1 .. MaxAlters,
                        k <= saved \/ \E r \in Readers : Up(rd[r]) /\ k <= rd[r].pos
                 PROVE  Settled(v, k)' \/ \E r \in Readers : AheadOf(rd[r], v, k)
      BY <1>1, <2>3 DEF AllKept, AheadOf, Up
    <3>0. v \in Versions
      BY DEF Registered
    <3>1. CASE v # q.v
      <4>1. v \in Registered
        BY <2>8, <3>0, <3>1
      <4>2. Settled(v, k) \/ \E r \in Readers : AheadOf(rd[r], v, k)
        BY <4>1 DEF Known, AllKept
      <4> QED
        BY <2>9, <3>0, <3>1, <4>2
    <3>2. CASE v = q.v /\ k \in Behind
      BY <2>13, <3>0, <3>2
    <3>3. CASE v = q.v /\ k \notin Behind
      <4>1. PICK r \in Readers : Up(rd[r]) /\ k <= rd[r].pos
        BY <3>3 DEF Behind
      <4>2. k = rd[r].pos /\ rd[r].alter /\ rd[r].pc = "rows"
        BY <3>3, <4>1 DEF Behind, Up
      <4> QED
        BY <4>2 DEF AheadOf
    <3> QED
      BY <3>1, <3>2, <3>3
  <2>15. ASSUME NEW r \in Readers PROVE Holding(r, rd[r])'
    <3>1. Holding(r, rd[r])
      BY DEF Known
    <3>2. rd[r].pc = "commit" => rd[r].at \in Registered' /\ locked'[rd[r].at] = [by |-> r, over |-> FALSE]
      <4> SUFFICES ASSUME rd[r].pc = "commit" PROVE rd[r].at \in Registered' /\ locked'[rd[r].at] = [by |-> r, over |-> FALSE]
        OBVIOUS
      <4>1. rd[r].at \in Registered /\ rd[r].at \in Versions /\ rd[r].at \in Lockable /\ locked[rd[r].at] = [by |-> r, over |-> FALSE]
        BY <3>1 DEF Holding, Registered, Lockable
      <4> QED
        BY <1>3, <2>8, <4>1
    <3> QED
      BY <2>3, <3>1, <3>2 DEF Holding
  <2>16. ASSUME NEW r \in Readers, Up(rd[r]), NEW v \in Registered' PROVE Matches(rd[r], v)'
    <3>0. v \in Versions
      BY DEF Registered
    <3>1. CASE v # q.v
      <4>1. v \in Registered /\ Matches(rd[r], v) /\ rows'[v] = rows[v]
        BY <2>6, <2>8, <2>16, <3>0, <3>1 DEF Known
      <4>2. Settled(v, rd[r].pos) => Settled(v, rd[r].pos)'
        <5>1. rd'[r].pos = rd[r].pos /\ missed \subseteq missed'
          BY <2>1, <2>3
        <5> QED
          BY <4>1, <5>1 DEF Settled
      <4> QED
        BY <2>3, <4>1, <4>2 DEF Matches
    <3>2. CASE v = q.v
      <4>1. rd'[r].entries[v].id # rows'[v].id /\ rd'[r].seen[v].id # rows'[v].id
        BY <2>3, <2>4, <2>8, <3>0, <3>2 DEF New
      <4>2. rd[r].alter /\ rd[r].pc # "rows" => Settled(v, rd[r].pos)'
        <5> SUFFICES ASSUME rd[r].alter, rd[r].pc # "rows" PROVE Settled(v, rd[r].pos)'
          OBVIOUS
        <5>1. rd[r].pos > 0
          BY DEF Inv, ReadersInv, Sound, Placed
        <5>2. rd[r].pos <= MaxAlters
          BY <1>1, <2>2 DEF Known, WithinMaster
        <5>3. rd[r].pos \in 1 .. MaxAlters
          BY <1>1, <2>2, <5>1, <5>2
        <5>4. rd[r].pos \in Behind
          BY <2>2, <2>16, <5>3 DEF Behind, Up
        <5>5. rd[r].pos \in q.raw \/ <<q.id, rd[r].pos>> \in missed'
          BY <2>1, <5>4
        <5> QED
          BY <2>3, <2>8, <3>0, <3>2, <5>5 DEF Settled
      <4>3. rd[r].pc \in {"alter", "commit", "codec"} => rd[r].alter
        BY DEF Inv, ReadersInv, Sound, Placed, Looping
      <4> QED
        BY <2>3, <4>1, <4>2, <4>3 DEF Matches
    <3> QED
      BY <3>1, <3>2
  <2> QED
    <3>1. \A r \in Readers : Up(rd'[r]) <=> Up(rd[r])
      BY <2>3 DEF Up
    <3> QED
      BY <2>10, <2>11, <2>12, <2>14, <2>15, <2>16, <3>1 DEF Known
<1> QED
  BY <1>4, <1>5

LEMMA DeregisterKnown ==
    ASSUME Inv, Inv', Known, NEW h \in Handlers, Deregister(h)
    PROVE  Known'
<1>1. PICK v \in Registered : locked[v] = Free /\ rows' = [rows EXCEPT ![v] = NoRow]
  BY DEF Deregister
<1>2. /\ UNCHANGED <<master, saved, locked, rd, lastId, missed>> /\ req' = [req EXCEPT ![h] = [Idle EXCEPT !.pc = "columns"]]
      /\ rows \in [Versions -> RowType] /\ v \in Versions /\ lastId \in Nat
  BY DEF Deregister, sourceVars, Inv, TablesInv, Registered
<1>3. \A w \in Versions : (w = v /\ rows'[w] = NoRow) \/ (w # v /\ rows'[w] = rows[w])
  BY <1>1, <1>2
<1>4. \A w \in Registered' : w \in Registered /\ w # v /\ rows'[w] = rows[w]
  BY <1>3 DEF Registered
<1>5. \A w \in Registered \ {v} : w \in Registered'
  BY <1>3 DEF Registered
<1>6. AllKept'
  BY <1>2, <1>4 DEF Known, AllKept, Settled, AheadOf
<1>7. WithinMaster'
  BY <1>2 DEF Known, WithinMaster
<1>8. NoRow.id = 0
  BY DEF NoRow
<1>9. Numbered'
  <2>1. \A w \in Versions : rows'[w].id <= lastId' /\ (w \in Registered' => rows'[w].id > 0)
    BY <1>2, <1>3, <1>4, <1>8 DEF Known, Numbered
  <2> QED
    BY <1>2, <2>1 DEF Known, Numbered
<1>10. NewIds'
  <2>1. \A g \in Handlers : req'[g].pc = "store" => req'[g] = req[g] /\ req[g].pc = "store"
    BY <1>2 DEF Inv, RequestsInv, Idle
  <2>2. ASSUME NEW g \in Handlers, req'[g].pc = "store" PROVE New(req[g].id)'
    <3>1. New(req[g].id) /\ req'[g] = req[g]
      BY <2>1, <2>2 DEF Known, NewIds
    <3>2. \A w \in Versions : rows'[w].id # req[g].id
      BY <1>3, <1>8, <3>1 DEF New
    <3> QED
      BY <1>2, <3>1, <3>2 DEF New
  <2> QED
    BY <2>1, <2>2 DEF Known, NewIds
<1>11. ASSUME NEW r \in Readers PROVE Holding(r, rd[r])' /\ (Up(rd'[r]) => \A w \in Registered' : Matches(rd[r], w)')
  <2>1. Holding(r, rd[r])'
    <3>1. rd[r].pc = "commit" => rd[r].at # v
      <4>1. Free # [by |-> r, over |-> FALSE]
        BY ProcessesAssumption DEF Free
      <4> QED
        BY <1>1, <4>1 DEF Known, Holding
    <3> QED
      BY <1>2, <1>5, <3>1 DEF Known, Holding
  <2>2. \A w \in Registered' : Up(rd[r]) => Matches(rd[r], w)'
    BY <1>2, <1>4 DEF Known, Matches, Settled
  <2> QED
    BY <1>2, <2>1, <2>2
<1> QED
  BY <1>6, <1>7, <1>9, <1>10, <1>11 DEF Known

LEMMA InitKnown == Init => Known
<1> SUFFICES ASSUME Init PROVE Known
  OBVIOUS
<1>1. /\ \A r \in Readers : rd[r] = Down
      /\ Registered = {} /\ \A v \in Versions : rows[v] = NoRow
      /\ \A h \in Handlers : req[h].pc # "store"
      /\ master = 0 /\ saved = 0 /\ lastId = 0
  BY DEF Init, Registered, Idle
<1>2. /\ Down.pc = "down" /\ ~Down.alter /\ Down.pos = 0
      /\ \A v \in Versions : Down.entries[v] = NoEntry /\ Down.seen[v] = NoRow
      /\ NoEntry.id = 0 /\ NoRow.id = 0
  BY DEF Down, NoEntry, NoRow
<1>3. AllKept
  BY <1>1 DEF AllKept
<1>4. WithinMaster
  BY <1>1, <1>2, BoundsAssumption DEF WithinMaster
<1>5. Numbered
  BY <1>1, <1>2 DEF Numbered
<1>6. NewIds
  BY <1>1 DEF NewIds
<1>7. \A r \in Readers : Holding(r, rd[r]) /\ ~Up(rd[r])
  BY <1>1, <1>2 DEF Holding, Looping, Up
<1> QED
  BY <1>3, <1>4, <1>5, <1>6, <1>7 DEF Known

LEMMA ReaderKnown ==
    ASSUME Inv, Inv', Known, OneReaderAtATime, OneReaderAtATime',
           NEW r \in Readers, ReaderStep(r) \/ Tick(r) \/ FailReader(r) \/ Crash(r)
    PROVE  Known'
<1>1. CASE Start(r)
  BY <1>1, StartKnown
<1>2. CASE ~Start(r)
  <2>1. Up(rd[r])
    BY <1>2 DEF ReaderStep, GetRows, AddTables, Save, TakeAlter, Select, Commit, Codec, FinalSave, Tick, FailReader, Crash, Up
  <2>2. \A p \in Readers \ {r} : ~Up(rd[p])
    BY <2>1 DEF OneReaderAtATime
  <2>3. CASE FailReader(r)
    BY <2>2, <2>3, FailedKnown DEF FailReader, sourceVars, storeVars
  <2> QED
    BY <1>2, <2>2, <2>3, GetRowsKnown, AddTablesKnown, SaveKnown, TickKnown, TakeAlterKnown, SelectKnown, CommitKnown,
       CodecKnown, GoneKnown DEF ReaderStep
<1> QED
  BY <1>1, <1>2

LEMMA NextKnown == Inv /\ Inv' /\ OneReaderAtATime /\ OneReaderAtATime' /\ Known /\ [Next]_vars => Known'
<1> SUFFICES ASSUME Inv, Inv', OneReaderAtATime, OneReaderAtATime', Known, [Next]_vars PROVE Known'
  OBVIOUS
<1>1. CASE Alter \/ Replicate \/ LoseLock \/ UNCHANGED vars
  <2>1. /\ UNCHANGED <<rows, rd, saved, missed, lastId, locked, req>>
        /\ master' \in {master, master + 1} /\ master' <= MaxAlters
    <3>1. master \in Nat /\ master <= MaxAlters /\ MaxAlters \in Nat
      BY BoundsAssumption DEF Inv, TablesInv, Known, WithinMaster
    <3> QED
      BY <1>1, <3>1 DEF Alter, Replicate, LoseLock, vars, storeVars, sourceVars
  <2>2. lastId <= lastId' /\ master <= master'
    BY <2>1 DEF Inv, TablesInv
  <2>3. NewIds'
    BY <2>1 DEF Known, NewIds, New
  <2> QED
    BY <2>1, <2>2, <2>3, RowsStayKnown
<1>2. ASSUME NEW r \in Readers, ReaderStep(r) \/ Tick(r) \/ FailReader(r) \/ Crash(r) PROVE Known'
  BY <1>2, ReaderKnown
<1>3. ASSUME NEW h \in Handlers, \/ RequestStep(h) \/ Register(h) \/ Deregister(h)
                                 \/ GiveUp(h) \/ FailRequest(h) \/ CrashRequest(h)
      PROVE  Known'
  BY <1>3, RequestKnown, CommitRegisterKnown, DeregisterKnown DEF RequestStep
<1> QED
  BY <1>1, <1>2, <1>3 DEF Next

LEMMA KnownKeeps == Inv /\ Known => AltersAreKept
<1> SUFFICES ASSUME Inv, Known, NEW v \in Registered, NEW k \in 1 .. saved
             PROVE  Settled(v, k) \/ \E r \in Readers : AheadOf(rd[r], v, k)
  BY DEF AltersAreKept, Settled, Ahead, AheadOf
<1>1. k \in Nat /\ k > 0 /\ k <= saved /\ k <= MaxAlters
  <2>1. saved \in Nat /\ master \in Nat /\ saved <= master /\ master <= MaxAlters
    BY DEF Inv, TablesInv, Known, WithinMaster
  <2> QED
    BY <2>1, BoundsAssumption
<1>2. k \in 1 .. MaxAlters
  BY <1>1, BoundsAssumption
<1> QED
  BY <1>1, <1>2 DEF Known, AllKept

\* An ALTER TABLE that the saved GTID set is past is in every version's row, or
\* was given up, or is in the hands of the reader, in every history in which no
\* two readers are up at once: although the set is saved before the rows are
\* written (mysql.go:502), rows come and go by HTTP requests, and a version
\* whose row another stored is skipped (state.go:389).
THEOREM AltersKept == Spec /\ []OneReaderAtATime => []AltersAreKept
<1>1. Spec /\ []OneReaderAtATime => []Known
  BY InvAlways, InitKnown, NextKnown, PTL DEF Spec
<1> QED
  BY <1>1, InvAlways, KnownKeeps, PTL

\* With one process to read the binlog there is one reader at a time, and so
\* the cluster's lock may be lost at any moment.
THEOREM AltersKeptByOneReader ==
    ASSUME \A p, q \in Readers : p = q
    PROVE  Spec => []AltersAreKept
<1>1. OneReaderAtATime
  BY DEF OneReaderAtATime
<1>2. []OneReaderAtATime
  BY <1>1, PTL
<1> QED
  BY <1>2, AltersKept, PTL

-----------------------------------------------------------------------------
(* The lock of the cluster. *)

Locked == \A r \in Readers : Up(rd[r]) => cluster = r

LEMMA InitLocked == Init => Locked
  BY DEF Init, Locked, Up, Down

LEMMA NextLocked == Inv /\ Locked /\ [Next]_vars /\ [~LoseLock]_vars => Locked'
<1> SUFFICES ASSUME Inv, Locked, [Next]_vars, [~LoseLock]_vars PROVE Locked'
  OBVIOUS
<1>1. CASE UNCHANGED <<rd, cluster>>
  BY <1>1 DEF Locked
<1>2. CASE LoseLock
  <2>1. UNCHANGED vars
    BY <1>2
  <2> QED
    BY <2>1 DEF Locked, vars
<1>3. ASSUME NEW h \in Handlers, CommitRegister(h) PROVE Locked'
  <2>1. cluster' = cluster /\ \A p \in Readers : rd'[p].pc = rd[p].pc
    <3>1. \A p \in Readers : rd'[p] \in {rd[p], Crossed(rd[p])} /\ rd[p] \in ReaderType
      BY <1>3 DEF CommitRegister, Inv, ReadersInv
    <3>2. cluster' = cluster
      BY <1>3 DEF CommitRegister
    <3> QED
      BY <3>1, <3>2, CrossedFields
  <2> QED
    BY <2>1 DEF Locked, Up
<1>4. ASSUME NEW r \in Readers, Commit(r) PROVE Locked'
  <2>1. cluster' = cluster
    BY <1>4 DEF Commit
  <2>2. \A p \in Readers : Up(rd'[p]) => Up(rd[p])
    <3>1. \A p \in Readers \ {r} : rd'[p] \in {rd[p], Crossed(rd[p])} /\ rd[p] \in ReaderType
      BY <1>4 DEF Commit, Failed, Inv, ReadersInv
    <3>2. \A p \in Readers \ {r} : rd'[p].pc = rd[p].pc
      BY <3>1, CrossedFields
    <3>3. Up(rd[r])
      BY <1>4 DEF Commit, Up
    <3> QED
      BY <3>2, <3>3 DEF Up
  <2> QED
    BY <2>1, <2>2 DEF Locked
<1>5. ASSUME NEW r \in Readers, ReaderStep(r) \/ Tick(r) \/ FailReader(r) \/ Crash(r), ~Commit(r) PROVE Locked'
  <2>1. \A p \in Readers \ {r} : rd'[p] = rd[p]
    BY <1>5 DEF ReaderStep, Start, GetRows, AddTables, Save, TakeAlter, Select, Codec, FinalSave, Tick, FailReader, Crash,
                Failed, Inv, ReadersInv
  <2>2. CASE Start(r)
    BY <2>1, <2>2, ProcessesAssumption DEF Start, Locked, Up, Inv, LocksInv, ReadersInv
  <2>3. CASE FinalSave(r) \/ Crash(r)
    <3>1. Up(rd[r]) /\ ~Up(rd'[r]) /\ cluster' = Unlocked(r)
      BY <2>3 DEF FinalSave, Crash, Up, Inv, ReadersInv, Down
    <3> QED
      BY <2>1, <3>1 DEF Locked, Unlocked
  <2>4. CASE ~Start(r) /\ ~FinalSave(r) /\ ~Crash(r)
    <3>1. Up(rd[r]) /\ cluster' = cluster
      BY <1>5, <2>4 DEF ReaderStep, GetRows, AddTables, Save, TakeAlter, Select, Codec, Tick, FailReader, Up
    <3> QED
      BY <2>1, <3>1 DEF Locked
  <2> QED
    BY <2>2, <2>3, <2>4
<1> QED
  BY <1>1, <1>2, <1>3, <1>4, <1>5
  DEF Next, vars, Alter, Replicate, RequestStep, Register, ReadGtid, ReadRaw, Insert, Deregister, DeleteColumns, GiveUp,
      FailRequest, CrashRequest

\* A worker starts a reader only with the cluster's lock and gives the lock back
\* at the reader's end (mysql.go:770-778): while the server takes it from nobody,
\* one reader is up at a time, of any number.
THEOREM LockMeansOneReader == Spec /\ [][~LoseLock]_vars => []OneReaderAtATime
<1>1. Spec /\ [][~LoseLock]_vars => []Locked
  BY InvAlways, InitLocked, NextLocked, PTL DEF Spec
<1>2. Locked => OneReaderAtATime
  BY DEF Locked, OneReaderAtATime
<1> QED
  BY <1>1, <1>2, PTL

\* While the lock is lost by nobody no ALTER TABLE is lost, whatever number of
\* processes take the reading over from one another.
THEOREM AltersKeptByTheLock == Spec /\ [][~LoseLock]_vars => []AltersAreKept
  BY AltersKept, LockMeansOneReader, PTL

-----------------------------------------------------------------------------
(* The cluster's lock, with the sessions that are lost.                    *)

HasLock == IF cluster = None THEN {} ELSE {<<cluster, "cluster">>}
AreUp == {r \in Readers : Up(rd[r])}

\* A reader that is up and does not end stays up.
LEMMA StaysUp ==
    ASSUME Inv, NEW r \in Readers,
           GetRows(r) \/ AddTables(r) \/ Save(r) \/ TakeAlter(r) \/ Select(r) \/ Commit(r) \/ Codec(r) \/ Tick(r)
              \/ FailReader(r)
    PROVE  UNCHANGED cluster /\ Up(rd[r]) /\ Up(rd'[r])
<1>1. rd \in [Readers -> ReaderType] /\ rd[r] \in ReaderType
  BY DEF Inv, ReadersInv
<1>2. UNCHANGED cluster /\ Up(rd[r])
  BY DEF GetRows, AddTables, Save, TakeAlter, Select, Commit, Codec, Tick, FailReader, Up
<1>3. ASSUME Failed(r) PROVE Up(rd'[r])
  <2>1. rd'[r].pc = "final"
    BY <1>1, <1>3 DEF Failed, Down
  <2> QED
    BY <2>1 DEF Up
<1>4. CASE GetRows(r)
  BY <1>1, <1>3, <1>4 DEF GetRows, Up, ReaderType
<1>5. CASE AddTables(r)
  BY <1>1, <1>3, <1>5 DEF AddTables, Up, ReaderType
<1>6. \A m \in ReaderType : \A todo : Up(Resume(m, todo))
  BY DEF Resume, ReaderType, Up
<1>7. CASE Save(r)
  <2> DEFINE m == [rd[r] EXCEPT !.first = FALSE]
  <2>1. m \in ReaderType /\ Up([m EXCEPT !.pc = "read"])
    BY <1>1 DEF ReaderType, Up
  <2>2. Failed(r) \/ rd'[r] = [m EXCEPT !.pc = "read"] \/ \E todo : rd'[r] = Resume(m, todo)
    BY <1>1, <1>7 DEF Save
  <2> HIDE DEF m
  <2> QED
    BY <1>2, <1>3, <1>6, <2>1, <2>2
<1>8. CASE TakeAlter(r) \/ Tick(r)
  <2>1. ASSUME TakeAlter(r) PROVE rd'[r].pc = "rows"
    <3> DEFINE right == {v \in Versions : rd[r].entries[v] # NoEntry /\ rd[r].entries[v].raw = 1 .. rd[r].pos}
               n == [rd[r] EXCEPT !.pc = "rows", !.pos = @ + 1, !.alter = TRUE, !.crossed = FALSE, !.right = right]
    <3>1. rd' = [rd EXCEPT ![r] = n]
      BY <2>1 DEF TakeAlter
    <3>2. n.pc = "rows"
      BY ONLY <1>1 DEF ReaderType
    <3> HIDE DEF n
    <3> QED
      BY ONLY <1>1, <3>1, <3>2
  <2>2. ASSUME Tick(r) PROVE rd'[r].pc = "rows"
    BY ONLY <1>1, <2>2 DEF Tick, ReaderType
  <2> QED
    BY <1>2, <1>8, <2>1, <2>2 DEF Up
<1>9. CASE Select(r)
  <2>1. PICK v \in rd[r].todo :
            LET ent  == rd[r].entries[v]
                pos  == rd[r].pos
                next == [rd[r] EXCEPT !.at = v, !.entries[v] = Mutated(ent, pos)]
            IN  \/ Failed(r)
                \/ rd' = [rd EXCEPT ![r] = [next EXCEPT !.pc = "commit"]]
                \/ rd' = [rd EXCEPT ![r] = [next EXCEPT !.pc = "codec", !.entries[v] = Stored(@, pos), !.crossed = TRUE]]
    BY ONLY <1>9 DEF Select
  <2> DEFINE next == [rd[r] EXCEPT !.at = v, !.entries[v] = Mutated(rd[r].entries[v], rd[r].pos)]
             committed == [next EXCEPT !.pc = "commit"]
             coded == [next EXCEPT !.pc = "codec", !.entries[v] = Stored(@, rd[r].pos), !.crossed = TRUE]
  <2>2. committed.pc = "commit" /\ coded.pc = "codec"
    BY ONLY <1>1 DEF ReaderType
  <2>3. Failed(r) \/ rd' = [rd EXCEPT ![r] = committed] \/ rd' = [rd EXCEPT ![r] = coded]
    BY ONLY <2>1
  <2> HIDE DEF next, committed, coded
  <2>4. Failed(r) \/ rd'[r].pc \in {"commit", "codec"}
    BY ONLY <1>1, <2>2, <2>3
  <2> QED
    BY <1>2, <1>3, <2>4 DEF Up
<1>10. CASE Commit(r)
  <2>1. Failed(r) \/ rd'[r].pc = "codec"
    BY <1>1, <1>10 DEF Commit, ReaderType
  <2> QED
    BY <1>2, <1>3, <2>1 DEF Up
<1>11. CASE Codec(r)
  <2> DEFINE m == [rd[r] EXCEPT !.entries[rd[r].at].enc = columns]
  <2>1. m.pc = "codec"
    BY <1>1, <1>11 DEF Codec, ReaderType
  <2>2. Failed(r) \/ rd'[r] = Resume(m, rd[r].todo \ {rd[r].at})
    BY <1>1, <1>11 DEF Codec
  <2>3. \A todo : Up(Resume(m, todo))
    BY <1>1 DEF Resume, ReaderType, Up
  <2> HIDE DEF m
  <2> QED
    BY <1>2, <1>3, <2>2, <2>3
<1>12. CASE FailReader(r)
  BY <1>2, <1>3, <1>12 DEF FailReader
<1> QED
  BY <1>2, <1>4, <1>5, <1>7, <1>8, <1>9, <1>10, <1>11, <1>12

LEMMA NextLocks ==
    ASSUME Inv, [Next]_vars
    PROVE  ClusterLock!Next \/ UNCHANGED ClusterLock!vars
<1>1. ASSUME UNCHANGED <<HasLock, AreUp>> PROVE UNCHANGED ClusterLock!vars
  BY <1>1 DEF ClusterLock!vars, HasLock, AreUp, Up
<1>2. cluster \in Readers \cup {None} /\ None \notin Readers /\ rd \in [Readers -> ReaderType]
  BY ProcessesAssumption DEF Inv, LocksInv, ReadersInv
<1>3. CASE UNCHANGED <<rd, cluster>>
  BY <1>1, <1>3 DEF HasLock, AreUp
<1>4. CASE LoseLock
  <2>1. cluster \in Readers /\ HasLock = {<<cluster, "cluster">>} /\ HasLock' = {} /\ UNCHANGED AreUp
    BY <1>2, <1>4 DEF LoseLock, HasLock, AreUp
  <2>2. HasLock' = {h \in HasLock : h[1] # cluster}
    BY <2>1
  <2> QED
    BY <2>1, <2>2 DEF ClusterLock!Next, ClusterLock!Lose, ClusterLock!Without, HasLock, AreUp, Up
<1>5. ASSUME NEW h \in Handlers, CommitRegister(h) PROVE UNCHANGED ClusterLock!vars
  <2>1. cluster' = cluster /\ \A p \in Readers : rd'[p] \in {rd[p], Crossed(rd[p])} /\ rd[p] \in ReaderType
    BY <1>2, <1>5 DEF CommitRegister
  <2>2. \A p \in Readers : rd'[p].pc = rd[p].pc
    BY <2>1, CrossedFields
  <2> QED
    BY <1>1, <2>1, <2>2 DEF HasLock, AreUp, Up
<1>6. ASSUME NEW r \in Readers,
             GetRows(r) \/ AddTables(r) \/ Save(r) \/ TakeAlter(r) \/ Select(r) \/ Commit(r) \/ Codec(r) \/ Tick(r)
                \/ FailReader(r)
      PROVE  UNCHANGED ClusterLock!vars
  <2>1. UNCHANGED cluster /\ Up(rd[r]) /\ Up(rd'[r])
    BY <1>6, StaysUp
  <2>2. \A p \in Readers \ {r} : rd'[p].pc = rd[p].pc
    <3>1. \A p \in Readers \ {r} : rd'[p] \in {rd[p], Crossed(rd[p])} /\ rd[p] \in ReaderType
      BY <1>2, <1>6 DEF GetRows, AddTables, Save, TakeAlter, Select, Commit, Codec, Tick, FailReader, Failed
    <3> QED
      BY <3>1, CrossedFields
  <2> QED
    BY <1>1, <2>1, <2>2 DEF HasLock, AreUp, Up
<1>7. ASSUME NEW r \in Readers, FinalSave(r) \/ Crash(r) PROVE ClusterLock!Next
  <2>1. rd' = [rd EXCEPT ![r] = Down] /\ cluster' = Unlocked(r)
    BY <1>7 DEF FinalSave, Crash
  <2>2. AreUp' = AreUp \ {r}
    BY <1>2, <2>1 DEF AreUp, Up, Down
  <2>3. HasLock' = {h \in HasLock : h[1] # r}
    BY <1>2, <2>1 DEF HasLock, Unlocked
  <2> QED
    BY <2>2, <2>3 DEF ClusterLock!Next, ClusterLock!GiveUp, ClusterLock!Without, HasLock, AreUp, Up
<1>8. ASSUME NEW r \in Readers, Start(r) PROVE ClusterLock!Next
  <2>1. HasLock = {} /\ HasLock' = {<<r, "cluster">>}
    BY <1>2, <1>8 DEF Start, HasLock
  <2>2. rd'[r].pc = "rows" /\ \A p \in Readers \ {r} : rd'[p] = rd[p]
    BY <1>2, <1>8 DEF Start, Down
  <2>3. AreUp' = AreUp \cup {r}
    BY <2>2 DEF AreUp, Up
  <2> QED
    BY <2>1, <2>3
    DEF ClusterLock!Next, ClusterLock!Take, ClusterLock!HasNone, ClusterLock!Free, HasLock, AreUp, Up
<1>9. UNCHANGED <<rd, cluster>> \/ LoseLock \/ (\E h \in Handlers : CommitRegister(h))
         \/ \E r \in Readers : ReaderStep(r) \/ Tick(r) \/ FailReader(r) \/ Crash(r)
  BY DEF Next, vars, Alter, Replicate, RequestStep, Register, ReadGtid, ReadRaw, Insert, Deregister, DeleteColumns,
         GiveUp, FailRequest, CrashRequest
<1> QED
  BY <1>3, <1>4, <1>5, <1>6, <1>7, <1>8, <1>9 DEF ReaderStep

\* Whatever becomes of readers, requests and sessions, a reader is up between
\* taking the cluster's lock, which was free, and giving it up (mysql.go:770-790).
THEOREM ReaderUsesNamedLock == Spec => UsesNamedLock
<1>1. Init => ClusterLock!Init
  BY DEF Init, ClusterLock!Init, Down
<1>2. Inv /\ [Next]_vars => [ClusterLock!Next]_ClusterLock!vars
  <2> SUFFICES ASSUME Inv, [Next]_vars PROVE ClusterLock!Next \/ UNCHANGED ClusterLock!vars
    OBVIOUS
  <2> QED
    BY NextLocks
<1> QED
  BY <1>1, <1>2, InvAlways, PTL DEF Spec, UsesNamedLock, ClusterLock!Spec

=============================================================================
