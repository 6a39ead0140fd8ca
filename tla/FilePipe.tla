-------------------------------- MODULE FilePipe --------------------------------
(***************************************************************************)
(* pipe/file.go: a topic is a directory of files.  The producer keeps one  *)
(* file per key open, under a name that ends in ".open", and renames it    *)
(* when it is full; the consumer reads the files in the order of their     *)
(* names and waits, with a watch on the directory, for the one that comes  *)
(* next.                                                                   *)
(*                                                                         *)
(* There is one producer at a time (the lock on a table sees to it) and    *)
(* one consumer.  A message counts 1 of a file's size.  The clock that     *)
(* names files may move before each, and need not.  Creating a file with   *)
(* its header is one step, and so are closing one and opening one, each    *)
(* with the errors that leave something behind.                            *)
(***************************************************************************)
EXTENDS Integers, Sequences, Functions

CONSTANTS
    NumKeys,       \* keys of messages, ordered as strings are
    MaxFileSize,   \* config max_file_size, in messages
    Encrypted,     \* a key for AES is configured
    SeqBase,       \* sequence numbers are printed with this base, 10, ...
    SeqLimit,      \* ... and from here on, 1000, with one more digit ("%03d")
    MaxMsgs,       \* bound on messages pushed
    MaxSec,        \* bound on the seconds of the clock
    MaxSchemas,    \* bound on calls of PushSchema
    MaxProducers,  \* bound on producers opened
    MaxConsumers,  \* bound on consumers opened
    MaxFaults      \* bound on crashes and I/O errors

ASSUME SizeAssumption == NumKeys \in Nat \ {0} /\ MaxFileSize \in Nat \ {0}
ASSUME EncryptedAssumption == Encrypted \in BOOLEAN
ASSUME SeqAssumption == SeqBase \in Nat \ {0} /\ SeqLimit \in Nat

VARIABLES
    content,    \* every file ever created, in the order of creation
    dirExists,  \* the topic's directory was made
    dir,        \* the names in it, and the file of each
    call,       \* what the producer is doing
    files,      \* fileProducer.files
    seqno,      \* fileProducer.seqno
    header,     \* fileProducer.header, one for all files
    sec,        \* the second in which the last file was named
    cons,       \* fileConsumer, with the step it is at
    event,      \* a Create event waits in the consumer's watch
    got,        \* what the consumer has fetched (history)
    pushed,     \* the keys of the messages whose push succeeded, a message being
                \* its place in this sequence (history)
    lost,       \* those a crash or a failed flush lost (history)
    misnamed,   \* the clock stood still while producers changed, or while a
                \* sequence number got a digit more (history)
    missed,     \* ReadDir missed a file renamed meanwhile (history)
    faults, producers, consumers, schemas

disk     == <<content, dirExists, dir>>
producer == <<call, files, seqno, header, sec>>
history  == <<pushed, lost, misnamed>>
consumer == <<cons, got, missed>>
vars == <<disk, producer, consumer, event, history, faults, producers, consumers, schemas>>

Keys == 1 .. NumKeys
NoFile == [name |-> <<>>, id |-> 0, size |-> 0, buf |-> <<>>, broken |-> FALSE]
FilesOpen == {k \in Keys : files[k] # NoFile}

NewHeader == [iv |-> 0, schema |-> 0]

\* No header, or a part of one.
NoHeader == [iv |-> -1, schema |-> -1]

\* A closed file can be read with its header: it has the IV that the messages
\* were encrypted with, and it ends where they begin.
OwnIV(id) == IF Encrypted THEN id ELSE 0
Sound(id) == ~content[id].torn /\ content[id].hdr.iv = OwnIV(id)

Down == [op |-> "down", key |-> 0, batch |-> FALSE]
Idle == [op |-> "idle", key |-> 0, batch |-> FALSE]
Closing == [op |-> "close", key |-> 0, batch |-> FALSE]
Call(op, k, b) == [op |-> op, key |-> k, batch |-> b]

-----------------------------------------------------------------------------
(* Names: seconds, the place of seqno, key, and 1 for the suffix ".open". *)

\* The place of the string of a sequence number among such strings: the one with
\* a digit more comes right after its first digits (up to two widths).
Place(s) ==
    IF s < SeqLimit THEN s * (SeqBase + 1)
    ELSE (s \div SeqBase) * (SeqBase + 1) + 1 + (s % SeqBase)

NoName == <<0, 0, 0, 0>>
Names == DOMAIN dir
IsOpen(name) == name[4] = 1
TrimOpen(name) == [name EXCEPT ![4] = 0]

\* The order of the strings.
Less(a, b) ==
    \E i \in 1 .. 4 : a[i] < b[i] /\ \A j \in 1 .. i - 1 : a[j] = b[j]

Renamed(name) ==
    [n \in (Names \ {name}) \cup {TrimOpen(name)} |->
        IF n = TrimOpen(name) THEN dir[name] ELSE dir[n]]

\* The first name of a list after the current one; seek wants the last.
NextAfter(list, cur) ==
    LET after == {n \in list : Less(cur, n)}
    IN  IF after = {} THEN NoName
        ELSE CHOOSE n \in after : \A m \in after : m = n \/ Less(n, m)

Newest == CHOOSE n \in Names : \A m \in Names : m = n \/ Less(m, n)

-----------------------------------------------------------------------------
(* The producer. *)

\* Any event of the directory, or the directory itself where the parent is
\* watched, wakes the consumer.
Watching == cons.pc \in {"list", "stat", "wait"}
Notify == event' = (event \/ (Watching /\ (cons.onTopic \/ ~dirExists)))

\* An error, or a crash; n of them.
Fault(n) == faults + n <= MaxFaults /\ faults' = faults + n
Count(b) == IF b THEN 1 ELSE 0

\* A new producer, with seqno 0.
NewProducer ==
    /\ call = Down /\ producers < MaxProducers
    /\ producers' = producers + 1
    /\ call' = Idle /\ UNCHANGED <<seqno, header, sec>>
    /\ UNCHANGED <<disk, files, consumer, event, history, faults, consumers, schemas>>

NextMsg == Len(pushed) + 1

\* Wrong: the sequence number is left out.
NewFileNameNoSeq(k, t) == <<t, 0, k, 1>>
NewFileName(k, t) == <<t, Place(seqno + 1), k, 1>>

\* A file is named in second t.  Its name comes after those of all earlier ones
\* if the clock moved; if not, when the former file is of the same producer, and
\* its number not the last with fewer digits.
Named(t) ==
    /\ seqno + 1 < SeqBase * SeqLimit
    /\ seqno' = seqno + 1 /\ sec' = t
    /\ misnamed' = (misnamed \/ (t = sec /\ (seqno = 0 \/ Place(seqno) >= Place(seqno + 1))))

Seconds == {t \in {sec, sec + 1} : 0 < t /\ t <= MaxSec}

\* The files of the other keys, for which the header is no longer right.
Shared(k) ==
    LET others == {files[j].id : j \in FilesOpen \ {k}}
    IN  [i \in DOMAIN content |->
            IF i \in others THEN [content[i] EXCEPT !.shared = TRUE] ELSE content[i]]

\* OpenWrite creates the file or opens what is there; nothing is truncated, and
\* a header written only to an empty file.  The header's IV is a new one.
FileId(n) == IF n \in Names THEN dir[n] ELSE Len(content) + 1
FreshIV(n) == IF ~Encrypted THEN 0 ELSE IF n \in Names THEN -1 - FileId(n) ELSE FileId(n)
Header(n) == [header EXCEPT !.iv = FreshIV(n)]

NewContent(hdr) == [msgs |-> <<>>, hdr |-> hdr, schema |-> header.schema,
                    shared |-> FALSE, torn |-> FALSE]

Reopened(c, hdr) ==
    {[c EXCEPT !.shared = TRUE]} \cup
    (IF c.hdr = NoHeader THEN {[c EXCEPT !.shared = TRUE, !.hdr = hdr]} ELSE {})

PutFile(c, n, file) == IF n \in Names THEN [c EXCEPT ![dir[n]] = file] ELSE Append(c, file)
PutName(n) == [m \in Names \cup {n} |-> IF m = n THEN FileId(n) ELSE dir[m]]

\* newFile
NewFile(k, t) ==
    LET n == NewFileName(k, t)
    IN  /\ Named(t)
        /\ header' = Header(n)
        /\ \E file \in IF n \in Names THEN Reopened(content[dir[n]], Header(n))
                       ELSE {NewContent(Header(n))} :
              /\ content' = PutFile(Shared(k), n, file)
              /\ files' = [files EXCEPT ![k] =
                              [name |-> n, id |-> FileId(n), size |-> Len(file.msgs),
                               buf |-> <<>>, broken |-> FALSE]]
        /\ dir' = PutName(n)
        /\ dirExists' = TRUE
        /\ Notify

\* newFile fails: in MkdirAll, in OpenWrite, or later, which leaves a file without
\* a header, and with the header changed or not.
NotOpened(k, t) ==
    LET n == NewFileName(k, t)
    IN  /\ Fault(1)
        /\ UNCHANGED files
        /\ \/ UNCHANGED <<disk, seqno, header, sec, event, misnamed>>
           \/ /\ Named(t) /\ dirExists' = TRUE
              /\ IF dirExists THEN UNCHANGED event ELSE Notify
              /\ UNCHANGED <<content, dir, header>>
           \/ /\ Named(t) /\ dirExists' = TRUE /\ Notify
              /\ dir' = PutName(n)
              /\ \E changed \in BOOLEAN :
                    LET c == IF changed THEN Shared(k) ELSE content
                    IN  /\ header' = IF changed THEN Header(n) ELSE header
                        /\ content' = IF n \in Names THEN c ELSE Append(c, NewContent(NoHeader))

\* push, first half: getFile.  The program pushes rows in batches only; the
\* schema is not part of one.
GetFile(k, batch) ==
    /\ \/ call = Idle /\ batch /\ NextMsg <= MaxMsgs
       \/ call = Call("get", k, batch)
    /\ \/ /\ files[k] # NoFile
          /\ call' = Call("write", k, batch)
          /\ UNCHANGED <<disk, files, seqno, header, sec, event, misnamed, faults>>
       \/ /\ files[k] = NoFile
          /\ \E t \in Seconds :
                \/ NewFile(k, t) /\ call' = Call("write", k, batch) /\ UNCHANGED faults
                \/ NotOpened(k, t) /\ call' = Idle
    /\ UNCHANGED <<consumer, pushed, lost, producers, consumers, schemas>>

\* How many of the messages in f's buffer a flush may write.  The writer does
\* not recover from an error.
Writable(f) ==
    IF f.broken THEN {0}
    ELSE {Len(f.buf)} \cup (IF faults < MaxFaults THEN 0 .. Len(f.buf) ELSE {})

Failed(f, n) == n < Len(f.buf)
Unwritten(f, n) == Range(SubSeq(f.buf, n + 1, Len(f.buf)))

\* The file's content after n messages were written.
Written(c, f, n) == [c EXCEPT ![f.id].msgs = @ \o SubSeq(f.buf, 1, n)]

\* The file after the flush.
Flushed(f, n) == [f EXCEPT !.buf = <<>>, !.broken = @ \/ Failed(f, n)]

\* The header is written over the one the file was opened with.  If their schemas
\* differ in length, it ends elsewhere: on the first messages, or before the rest
\* of the old one.  If the write fails, nothing is known of it.
Tears(c, whole) ==
    IF ~whole THEN {TRUE}
    ELSE {c.torn} \cup {c.torn \/ c.schema # header.schema \/ header.iv < 0}

\* Wrong: the header is the next file's.
CloseFileNextHeader(c, f, n, whole, rename) ==
    /\ content' = [Written(c, f, n) EXCEPT ![f.id].hdr = [header EXCEPT !.schema = schemas]]
    /\ dir' = IF rename THEN Renamed(f.name) ELSE dir
    /\ IF rename THEN Notify ELSE UNCHANGED event

\* closeFile: flush, write the producer's header, close, rename; each is tried
\* whatever became of those before.
CloseFile(c, f, n, whole, rename) ==
    /\ \E torn \in Tears(c[f.id], whole) :
          content' = [Written(c, f, n) EXCEPT
                         ![f.id].hdr = IF whole THEN header ELSE NoHeader, ![f.id].torn = torn]
    /\ dir' = IF rename THEN Renamed(f.name) ELSE dir
    /\ IF rename THEN Notify ELSE UNCHANGED event

Full(size) == size >= MaxFileSize

\* push, second half.  Outside of a batch a failed flush is only logged.  When
\* the file is full it is closed, and the next message opens another.
Write ==
    LET k == call.key
        f == [files[k] EXCEPT !.buf = Append(@, NextMsg), !.size = @ + 1]
        close == Full(f.size)
    IN  /\ call.op = "write"
        /\ call' = Idle
        /\ \/ /\ files[k].broken
              /\ UNCHANGED <<disk, files, event, pushed, lost, faults>>
           \/ /\ ~files[k].broken /\ call.batch /\ ~close
              /\ files' = [files EXCEPT ![k] = f]
              /\ pushed' = Append(pushed, k)
              /\ UNCHANGED <<disk, event, lost, faults>>
           \/ /\ ~files[k].broken /\ (~call.batch \/ close)
              /\ \E n \in Writable(f), whole, rename \in BOOLEAN :
                    LET fails  == Failed(f, n)
                        closes == close /\ ~(call.batch /\ fails)
                    IN  /\ closes \/ (whole /\ rename)
                        /\ Fault(Count(fails) + Count(~whole) + Count(~rename))
                        /\ IF closes
                           THEN CloseFile(content, f, n, whole, rename)
                           ELSE content' = Written(content, f, n) /\ UNCHANGED <<dir, event>>
                        /\ files' = [files EXCEPT ![k] = IF closes THEN NoFile ELSE Flushed(f, n)]
                        /\ pushed' = IF call.batch /\ fails THEN pushed ELSE Append(pushed, k)
                        /\ lost' = lost \cup (Unwritten(f, n) \cap DOMAIN pushed')
              /\ UNCHANGED dirExists
        /\ UNCHANGED <<seqno, header, sec, misnamed, consumer, producers, consumers, schemas>>

\* A flush of every file, in which file bad writes only the first n messages.
FlushAll(bad, n) ==
    LET count(k) == IF k = bad THEN n ELSE IF files[k].broken THEN 0 ELSE Len(files[k].buf)
        flushed(k) == SubSeq(files[k].buf, 1, count(k))
    IN  /\ content' = [i \in DOMAIN content |->
              IF \E k \in FilesOpen : files[k].id = i
              THEN LET k == CHOOSE k \in FilesOpen : files[k].id = i
                   IN  [content[i] EXCEPT !.msgs = @ \o flushed(k)]
              ELSE content[i]]
        /\ files' = [k \in Keys |-> IF k \in FilesOpen THEN Flushed(files[k], count(k)) ELSE NoFile]
        /\ lost' = lost \cup UNION {Unwritten(files[k], count(k)) : k \in FilesOpen}
        /\ Fault(Count(bad \in Keys))

\* PushBatchCommit: whatever the flushes return, it reports success.
Commit(then) ==
    /\ call = Idle /\ call' = then
    /\ \/ FlushAll(0, 0)
       \/ \E bad \in FilesOpen, n \in 0 .. MaxMsgs :
             ~files[bad].broken /\ n < Len(files[bad].buf) /\ FlushAll(bad, n)
    /\ UNCHANGED <<dirExists, dir, seqno, header, sec, consumer, event, pushed, misnamed,
                   producers, consumers>>

PushBatchCommit == Commit(Idle) /\ UNCHANGED schemas

\* PushSchema commits, closes the file of the key, and pushes the schema into
\* a new one.  No caller passes an empty schema.
PushSchema(k) ==
    /\ schemas < MaxSchemas /\ NextMsg <= MaxMsgs
    /\ schemas' = schemas + 1
    /\ Commit(Call("schema", k, FALSE))

NewSchema == [header EXCEPT !.schema = schemas]

ReplaceSchema ==
    LET k == call.key
        f == files[k]
    IN  /\ call.op = "schema"
        /\ \/ /\ f = NoFile
              /\ content' = Shared(k)
              /\ UNCHANGED <<dir, event, faults>>
           \/ /\ f # NoFile
              /\ \E whole, rename \in BOOLEAN :
                    /\ Fault(Count(~whole) + Count(~rename))
                    /\ CloseFile(Shared(k), f, 0, whole, rename)
        /\ files' = [files EXCEPT ![k] = NoFile]
        /\ header' = NewSchema
        /\ call' = Call("get", k, FALSE)
        /\ UNCHANGED <<dirExists, seqno, sec, consumer, history, producers, consumers, schemas>>

\* A producer that is gone leaves nothing but its files.
Gone == call' = Down /\ seqno' = 0 /\ header' = NewHeader

\* Close: one file after the other, in the order of the keys.
Close ==
    /\ call \in {Idle, Closing}
    /\ \/ /\ FilesOpen = {} /\ Gone
          /\ UNCHANGED <<disk, files, event, lost, faults>>
       \/ /\ FilesOpen # {} /\ call' = Closing
          /\ UNCHANGED <<seqno, header>>
          /\ \E k \in FilesOpen :
                LET f == files[k]
                IN  /\ \A j \in FilesOpen : k <= j
                    /\ \E n \in Writable(f), whole, rename \in BOOLEAN :
                          LET fails == Failed(f, n)
                          IN  /\ Fault(Count(fails /\ ~f.broken) + Count(~whole) + Count(~rename))
                              /\ CloseFile(content, f, n, whole, rename)
                              /\ lost' = lost \cup Unwritten(f, n)
                    /\ files' = [files EXCEPT ![k] = NoFile]
          /\ UNCHANGED dirExists
    /\ UNCHANGED <<sec, consumer, pushed, misnamed, producers, consumers, schemas>>

\* The process of the producer dies; its files stay ".open" for good.
Crash ==
    /\ call # Down /\ Gone /\ Fault(1)
    /\ files' = [k \in Keys |-> NoFile]
    /\ lost' = lost \cup UNION {Range(files[k].buf) : k \in Keys}
    /\ UNCHANGED <<disk, sec, consumer, event, pushed, misnamed,
                   producers, consumers, schemas>>

-----------------------------------------------------------------------------
(* The consumer. *)

NoCons == [pc |-> "closed", name |-> NoName, id |-> 0, pos |-> 0, list |-> {},
           garbled |-> FALSE, onTopic |-> FALSE, start |-> NoName, blind |-> FALSE,
           bad |-> {}]

\* openFile.  An error before p.name is set leaves the file to the next attempt,
\* which may meet it again: that of OpenRead, of a header that is not whole or
\* whose HMAC is not that of the messages, as in a file that is open or torn.  An
\* error after that, of the filters, passes the file over.
OpenFile(n, pos, start) ==
    LET id    == dir[n]
        fails == IF IsOpen(n) \/ ~Sound(id) THEN UNCHANGED faults ELSE Fault(1)
    IN  \/ /\ IsOpen(n) => content[id].hdr # NoHeader
           /\ cons' = [cons EXCEPT !.pc = "read", !.name = n, !.id = id, !.pos = pos, !.list = {},
                                   !.start = start, !.garbled = ~Sound(id)]
           /\ UNCHANGED faults
        \/ fails /\ cons' = [cons EXCEPT !.pc = "watch", !.pos = 0, !.list = {}]
        \/ fails /\ cons' = [cons EXCEPT !.pc = "watch", !.name = n, !.pos = 0, !.list = {},
                                         !.start = start, !.bad = @ \cup {n}]

\* initConsumer, which starts at the end of the newest file: seek ...
NewConsumer ==
    /\ cons.pc = "closed" /\ consumers < MaxConsumers
    /\ consumers' = consumers + 1
    /\ cons' = IF Names = {} THEN [NoCons EXCEPT !.pc = "watch"]
               ELSE [NoCons EXCEPT !.pc = "open", !.list = {Newest},
                                   !.pos = Len(content[dir[Newest]].msgs)]
    /\ got' = <<>> /\ missed' = FALSE
    /\ UNCHANGED <<disk, producer, event, history, faults, producers, schemas>>

\* The filters of an encrypted file are set up at its beginning.
FirstPos == IF Encrypted THEN 0 ELSE cons.pos

\* ... and openFile.  An error, as that the file was renamed since, is ignored,
\* and the consumer is one of an empty directory: it starts at the first file.
OpenFirst ==
    /\ cons.pc = "open"
    /\ \E n \in cons.list :
          IF n \in Names THEN OpenFile(n, FirstPos, n)
          ELSE cons' = [NoCons EXCEPT !.pc = "watch"] /\ UNCHANGED faults
    /\ UNCHANGED <<disk, producer, event, history, got, missed, producers, consumers, schemas>>

\* What is read of a file is not what was pushed: it was opened with another IV,
\* or has a header over its beginning.
Garbled == cons.garbled \/ content[cons.id].torn

\* FetchNext: the next message of the file, or an error.  At its end the file is
\* closed, an open one too.  A garbled file may yield its messages, or not, or
\* the same error (of its decompression) for ever.
Read ==
    /\ cons.pc = "read"
    /\ LET msgs == content[cons.id].msgs
       IN  \/ /\ cons.pos < Len(msgs)
              /\ got' = Append(got, msgs[cons.pos + 1])
              /\ cons' = [cons EXCEPT !.pos = @ + 1]
              /\ UNCHANGED faults
           \/ /\ cons.pos < Len(msgs)
              /\ IF Garbled THEN UNCHANGED faults ELSE Fault(1)
              /\ cons' = [cons EXCEPT !.pos = @ + 1,
                                      !.bad = IF Garbled THEN @ ELSE @ \cup {cons.name}]
              /\ UNCHANGED got
           \/ /\ Garbled
              /\ cons' = [cons EXCEPT !.pc = "stuck"]
              /\ UNCHANGED <<got, faults>>
           \/ /\ cons.pos >= Len(msgs)
              /\ cons' = [cons EXCEPT !.pc = "watch", !.id = 0, !.pos = 0, !.garbled = FALSE]
              /\ UNCHANGED <<got, faults>>
    /\ UNCHANGED <<disk, producer, event, history, missed, producers, consumers, schemas>>

\* waitForNextFilePrepare: a new watch, of the directory or ...
Watch ==
    /\ cons.pc = "watch"
    /\ event' = FALSE
    /\ cons' = IF dirExists THEN [cons EXCEPT !.pc = "list", !.onTopic = TRUE]
               ELSE [cons EXCEPT !.pc = "parent", !.onTopic = FALSE]
    /\ UNCHANGED <<disk, producer, history, got, missed, faults, producers, consumers, schemas>>

\* ... of its parent.
WatchParent ==
    /\ cons.pc = "parent"
    /\ cons' = [cons EXCEPT !.pc = "list"]
    /\ UNCHANGED <<disk, producer, event, history, got, missed, faults, producers, consumers, schemas>>

\* nextFile: ReadDir reads the names, or fails, which nobody notices ...
ReadNames ==
    /\ cons.pc = "list"
    /\ \/ /\ cons' = [cons EXCEPT !.pc = "stat", !.list = Names]
          /\ UNCHANGED faults
       \/ /\ faults < MaxFaults /\ faults' = faults + 1
          /\ cons' = [cons EXCEPT !.pc = "wait", !.blind = TRUE]
    /\ UNCHANGED <<disk, producer, event, history, got, missed, producers, consumers, schemas>>

\* Wrong: the watch begins when the directory has been read.
NextFileThenWatch ==
    /\ cons.pc = "stat"
    /\ LET n == NextAfter(cons.list, cons.name)
       IN  \/ /\ n # NoName /\ ~IsOpen(n) /\ OpenFile(n, 0, cons.start)
              /\ UNCHANGED event
           \/ /\ n = NoName \/ IsOpen(n)
              /\ cons' = [cons EXCEPT !.pc = "wait", !.list = {}]
              /\ event' = FALSE /\ UNCHANGED faults
    /\ UNCHANGED <<disk, producer, history, got, missed, producers, consumers, schemas>>

\* Wrong: a file is read while the producer writes it.
NextFileOpenToo ==
    /\ cons.pc = "stat"
    /\ LET n == NextAfter(cons.list \cap Names, cons.name)
       IN  \/ n # NoName /\ OpenFile(n, 0, cons.start)
           \/ /\ n = NoName
              /\ cons' = [cons EXCEPT !.pc = "wait", !.list = {}]
              /\ UNCHANGED faults
    /\ UNCHANGED <<disk, producer, event, history, got, missed, producers, consumers, schemas>>

\* ... and leaves out those that are gone when it looks at each.  The next name
\* is opened unless it ends in ".open".
NextFile ==
    /\ cons.pc = "stat"
    /\ \E seen \in SUBSET cons.list :
          LET n == NextAfter(seen, cons.name)
          IN  /\ cons.list \cap Names \subseteq seen
              /\ \/ /\ n # NoName /\ ~IsOpen(n)
                    /\ OpenFile(n, 0, cons.start)
                    /\ missed' = (missed \/ \E m \in cons.list \ seen : Less(cons.name, m) /\ Less(m, n))
                 \/ /\ n = NoName \/ IsOpen(n)
                    /\ cons' = [cons EXCEPT !.pc = "wait", !.list = {}]
                    /\ UNCHANGED <<missed, faults>>
    /\ UNCHANGED <<disk, producer, event, history, got, producers, consumers, schemas>>

\* waitForNextFile.
Wake ==
    /\ cons.pc = "wait" /\ event
    /\ cons' = [cons EXCEPT !.pc = "watch", !.blind = FALSE]
    /\ event' = FALSE
    /\ UNCHANGED <<disk, producer, history, got, missed, faults, producers, consumers, schemas>>

CloseConsumer ==
    /\ cons.pc # "closed"
    /\ cons' = NoCons /\ got' = <<>> /\ missed' = FALSE /\ event' = FALSE
    /\ UNCHANGED <<disk, producer, history, faults, producers, consumers, schemas>>

Consumer == OpenFirst \/ Read \/ Watch \/ WatchParent \/ ReadNames \/ NextFile \/ Wake

-----------------------------------------------------------------------------

Init ==
    /\ content = <<>> /\ dirExists = FALSE /\ dir = <<>>
    /\ call = Down /\ files = [k \in Keys |-> NoFile] /\ seqno = 0
    /\ header = NewHeader /\ sec = 0
    /\ cons = NoCons /\ event = FALSE /\ got = <<>> /\ missed = FALSE
    /\ pushed = <<>> /\ lost = {} /\ misnamed = FALSE
    /\ faults = 0 /\ producers = 0 /\ consumers = 0 /\ schemas = 0

Next ==
    \/ NewProducer
    \/ \E k \in Keys, b \in BOOLEAN : GetFile(k, b) \/ PushSchema(k)
    \/ Write \/ PushBatchCommit \/ ReplaceSchema \/ Close \/ Crash
    \/ NewConsumer \/ Consumer \/ CloseConsumer

Spec == Init /\ [][Next]_vars

\* A consumer calls FetchNext again and again; a producer is owed nothing.
Fairness == WF_vars(Consumer)
FairSpec == Spec /\ Fairness

-----------------------------------------------------------------------------
(* Properties. *)

\* The messages pushed with key k; its files, what was written to the file of a
\* name and what is in it still, and what all of them have.
Of(k) == {m \in DOMAIN pushed : pushed[m] = k}
NamesOf(k) == {n \in Names : n[3] = k}
Msgs(n) == Range(content[dir[n]].msgs)
Torn(n) == content[dir[n]].torn
Held(k) == UNION {Msgs(n) : n \in {m \in NamesOf(k) : ~Torn(m)}}
HeldTorn(k) == UNION {Msgs(n) : n \in {m \in NamesOf(k) : Torn(m)}}

Ascending(s) == \A i, j \in DOMAIN s : i < j => s[i] < s[j]
Below(S, T) == \A x \in S, y \in T : x < y

\* What was pushed with a key and not lost is, in this order and once, in the
\* key's files in the order of their names, and then in the buffer of the open
\* one.  Excepted are files with a header over their first messages, for which
\* there are two causes: another file was opened or a schema pushed while they
\* were open (file.go:326, 390), or the write of the header failed.  And the
\* "precaution" of file.go:281 has to suffice: two producers have named no files
\* in one second, and no producer its 999th and 1000th.
FilesHoldMessages ==
    ~misnamed =>
        \A k \in Keys :
            /\ Held(k) \cup HeldTorn(k) \cup Range(files[k].buf) = Of(k) \ lost
            /\ Ascending(files[k].buf)
            /\ \A n \in NamesOf(k) :
                  /\ Ascending(content[dir[n]].msgs) /\ Below(Msgs(n), Range(files[k].buf))
                  /\ \A m \in NamesOf(k) : Less(n, m) => Below(Msgs(n), Msgs(m))
                  /\ Torn(n) => content[dir[n]].shared \/ content[dir[n]].hdr = NoHeader

\* A consumer has read, to the end and once, every file between the one it began
\* with and the one it is at, and none of them changes or turns up later,
\* whichever file of which key is full first (file.go:525).  It passes over what
\* is added to files that were open when it began, and one that ReadDir lost while
\* it was renamed; over messages for which FetchNext reported an error, of a file
\* it had got as far as to name (file.go:757); and it reads anything or nothing of
\* a file that is torn or closed with the IV of another.
NothingPassedOver ==
    ~missed /\ ~misnamed =>
        /\ \A n \in Names : Less(cons.start, n) /\ Less(n, cons.name)
              => /\ ~IsOpen(n)
                 /\ Sound(dir[n]) /\ n \notin cons.bad => Msgs(n) \subseteq Range(got)
        /\ \A k \in Keys : \A i, j \in DOMAIN got :
              i < j /\ {got[i], got[j]} \subseteq Of(k) => got[i] < got[j]

\* A closed file carries the IV it was encrypted with and the schema it was
\* opened with, and is not torn.  The header is one for all files of a producer,
\* and written anew when a file is closed: it is that of the file only when no
\* other was opened and no schema pushed meanwhile (file.go:326, 390), and if it
\* could be written.
HeaderIsOwn ==
    ~misnamed =>
        \A n \in Names :
            LET c == content[dir[n]]
            IN  ~IsOpen(n) /\ ~c.shared /\ c.hdr # NoHeader
                    => ~c.torn /\ c.hdr = [iv |-> OwnIV(dir[n]), schema |-> c.schema]

\* Watching the parent, with the directory made between the two calls of
\* watcher.Add: no event of the directory will be seen (file.go:548-553).
Stranded == cons.pc = "wait" /\ ~cons.onTopic /\ dirExists /\ ~event

\* A file that the consumer does not get past: one that is open, or cannot be read.
Blocks(n) ==
    \/ IsOpen(n) /\ Less(cons.start, n)
    \/ ~Sound(dir[n]) /\ ~Less(n, TrimOpen(cons.start))

Consumed ==
    \A n \in Names :
        Less(cons.start, n) /\ (\A m \in Names : Blocks(m) => Less(n, m))
            => Msgs(n) \subseteq Range(got) \/ n \in cons.bad

\* Again and again the consumer has read every closed file that no open one
\* precedes, and no damaged one: no rename escapes its watch (file.go:582), unless
\* ReadDir failed or missed one, or it is stranded.  An open file that a crashed
\* producer, or a failed newFile, left holds up all that follow.
AllConsumed ==
    []<>(cons.pc = "closed" \/ Consumed \/ Stranded \/ missed \/ cons.blind \/ misnamed)

=============================================================================
