------------------------------ MODULE FilePipeProofs ------------------------------
(***************************************************************************)
(* Names, headers and messages of the files of a topic, for any number of  *)
(* keys, files, producers, consumers, crashes and errors.  Nearly all      *)
(* holds only until the clock stood still at the wrong moment (misnamed):  *)
(* then a new file takes the name of a former one, or comes before it.     *)
(* Until then a name never leads to another file than before; a closed     *)
(* file has the header it needs, and in its place, unless it was open      *)
(* while another was opened or a schema pushed (FilePipe calls it shared)  *)
(* or its header could not be written; the files hold what was pushed, in  *)
(* its order; and a consumer passes over no file it can read without an    *)
(* error.                                                                  *)
(*                                                                         *)
(* Names: a name is at most that of the producer's second and sequence     *)
(* number, and no two names have both in common, so neither a new file     *)
(* nor the rename of a closed one meets a name that is there (NamesInv).   *)
(*                                                                         *)
(* Headers: closeFile writes the one header a producer has.  HeaderInv     *)
(* says that an open file that is not shared owns that header, which       *)
(* needs that the directory leads to an open file by its own name only     *)
(* (FilesInv), and that a file is torn only for one of the two reasons.    *)
(*                                                                         *)
(* Messages: those of a key ascend through its files, in the order in      *)
(* which the names were chosen, and then its buffer; together they are     *)
(* what was pushed and not lost (HoldInv), torn files included.            *)
(*                                                                         *)
(* The consumer: Goes is all that the producer's steps may do to the       *)
(* disk: a name is kept or trimmed, a new one comes after all others, and  *)
(* a file only grows, a closed one not even that.  Whatever the consumer   *)
(* knows of the files survives such a step (ReadInv): the list it read,    *)
(* where it is, what it has read of each file that can be read.            *)
(***************************************************************************)
EXTENDS FilePipe, SequenceTheorems, WellFoundedInduction, TLAPS

Name == Nat \X Nat \X Nat \X {0, 1}

\* The records of the model, with the fields that matter here typed.
IsFile(c) ==
    c \in [msgs : {c.msgs}, hdr : {c.hdr}, schema : {c.schema}, shared : BOOLEAN, torn : BOOLEAN]

IsHandle(f) ==
    f \in [name : Name, id : Nat \ {0}, size : {f.size}, buf : {f.buf}, broken : {f.broken}]

DirInv ==
    /\ content \in Seq(Range(content))
    /\ \A i \in 1 .. Len(content) : IsFile(content[i])
    /\ dir \in [Names -> 1 .. Len(content)]

NamesInv ==
    /\ sec \in Nat /\ seqno \in Nat
    /\ \A n \in Names :
          n \in Name /\ n[1] <= sec /\ (seqno > 0 /\ n[1] = sec => n[2] <= Place(seqno))
    /\ \A n, m \in Names : n[1] = m[1] /\ n[2] = m[2] => n = m

\* An open file has a name of its key that ends in ".open", and no other name.
FileInv(k) ==
    /\ IsHandle(files[k]) /\ files[k].id \in 1 .. Len(content)
    /\ files[k].name \in Names /\ files[k].name[3] = k /\ files[k].name[4] = 1
    /\ \A n \in Names : dir[n] = files[k].id <=> n = files[k].name

FilesInv ==
    /\ files \in [Keys -> Range(files)]
    /\ \A k \in Keys : files[k] # NoFile => FileInv(k)

\* The header that file i needs.
Own(c, i) == [iv |-> OwnIV(i), schema |-> c[i].schema]

HeadersOwn ==
    \A n \in Names :
        LET c == content[dir[n]]
        IN  ~IsOpen(n) /\ ~c.shared /\ c.hdr # NoHeader => ~c.torn /\ c.hdr = Own(content, dir[n])

\* An open file that is not shared owns the header, and a file is torn for a reason.
HeaderInv ==
    /\ header \in [iv : {header.iv}, schema : {header.schema}]
    /\ \A k \in Keys : files[k] # NoFile /\ ~content[files[k].id].shared
          => header = Own(content, files[k].id) /\ ~content[files[k].id].torn
    /\ \A i \in 1 .. Len(content) : content[i].torn => content[i].shared \/ content[i].hdr = NoHeader
    /\ HeadersOwn

CallInv ==
    /\ call.op \in {"get", "write", "schema"} => call.key \in Keys
    /\ call.op = "write" => files[call.key] # NoFile

Inv == DirInv /\ NamesInv /\ FilesInv /\ HeaderInv /\ CallInv

-----------------------------------------------------------------------------
(* Sequences and names. *)

LEMMA FunctionIsSeq ==
    ASSUME NEW n \in Nat, NEW f, f = [i \in 1 .. n |-> f[i]]
    PROVE  f \in Seq(Range(f)) /\ Len(f) = n
<1>1. DOMAIN f = 1 .. n
  OBVIOUS
<1>2. \A i \in 1 .. n : f[i] \in Range(f)
  BY <1>1 DEF Range
<1> DEFINE R == Range(f)
<1> HIDE DEF R
<1>3. f \in [1 .. n -> R]
  BY <1>2 DEF R
<1>4. f \in Seq(R)
  BY <1>3, SeqDef
<1>5. Len(f) \in Nat /\ DOMAIN f = 1 .. Len(f)
  BY <1>4, LenProperties
<1>6. Len(f) = n
  BY <1>1, <1>5
<1> QED
  BY <1>4, <1>6 DEF R

LEMMA SeqIsFunction ==
    ASSUME NEW c, c \in Seq(Range(c))
    PROVE  Len(c) \in Nat /\ DOMAIN c = 1 .. Len(c) /\ c = [i \in 1 .. Len(c) |-> c[i]]
BY LenProperties

LEMMA AppendFile ==
    ASSUME NEW c, c \in Seq(Range(c)), NEW e
    PROVE  LET d == Append(c, e)
           IN  /\ d \in Seq(Range(d)) /\ Len(d) = Len(c) + 1
               /\ \A i \in 1 .. Len(c) : d[i] = c[i]
               /\ d[Len(c) + 1] = e
<1> DEFINE S == Range(c) \cup {e}
           d == Append(c, e)
<1>1. c \in Seq(S)
  BY SeqMonotonic
<1> HIDE DEF S
<1>2. e \in S
  BY DEF S
<1>3. /\ d \in Seq(S) /\ Len(d) = Len(c) + 1 /\ Len(c) \in Nat
      /\ \A i \in 1 .. Len(c) : d[i] = c[i]
      /\ d[Len(c) + 1] = e
  BY <1>1, <1>2
<1>4. d = [i \in 1 .. Len(d) |-> d[i]] /\ Len(d) \in Nat
  BY <1>3, LenProperties
<1> HIDE DEF d
<1>5. d \in Seq(Range(d))
  BY <1>4, FunctionIsSeq
<1> QED
  BY <1>3, <1>5 DEF d

LEMMA Trimmed ==
    ASSUME NEW n \in Name
    PROVE  /\ TrimOpen(n) \in Name /\ TrimOpen(n)[1] = n[1] /\ TrimOpen(n)[2] = n[2]
           /\ TrimOpen(n)[3] = n[3] /\ TrimOpen(n)[4] = 0
BY DEF Name, TrimOpen

LEMMA KeysAreNumbers == Keys \subseteq Nat \ {0}
BY SizeAssumption DEF Keys

LEMMA NoFileHasNoId == NoFile.id = 0
BY DEF NoFile

\* Two open files are two.
LEMMA Apart ==
    ASSUME FilesInv, NEW k \in Keys, NEW j \in Keys, k # j,
           files[k] # NoFile, files[j] # NoFile
    PROVE  files[k].id # files[j].id /\ files[k].name # files[j].name
<1>1. FileInv(k) /\ FileInv(j)
  BY DEF FilesInv
<1> QED
  BY <1>1 DEF FileInv

-----------------------------------------------------------------------------
(* What the steps have in common. *)

\* d is c with messages added, or marked as shared.
SameFile(c, d) ==
    IsFile(d) /\ d.hdr = c.hdr /\ d.schema = c.schema /\ d.torn = c.torn /\ (c.shared => d.shared)

\* f and g are one open file, or none.
SameHandle(f, g) ==
    /\ f = NoFile <=> g = NoFile
    /\ f # NoFile => IsHandle(g) /\ g.name = f.name /\ g.id = f.id

FilesGrow ==
    /\ content' \in Seq(Range(content')) /\ Len(content') = Len(content)
    /\ \A i \in 1 .. Len(content) : SameFile(content[i], content'[i])

HandlesStay ==
    /\ files' \in [Keys -> Range(files')]
    /\ \A k \in Keys : SameHandle(files[k], files'[k])

\* The header stays, or it may change as all open files but that of k are shared.
HeaderMayChange(k, c) ==
    \/ header' = header
    \/ /\ header' \in [iv : {header'.iv}, schema : {header'.schema}]
       /\ \A j \in Keys \ {k} : files[j] # NoFile => c[files[j].id].shared

\* A step that opens and closes no file.
LEMMA Steady ==
    ASSUME Inv, FilesGrow, HandlesStay, UNCHANGED <<dir, seqno, sec>>,
           NEW none, files[none] = NoFile \/ none \notin Keys, HeaderMayChange(none, content'),
           CallInv'
    PROVE  Inv'
<1>1. DirInv'
  BY DEF Inv, DirInv, FilesGrow, SameFile, Names
<1>2. NamesInv'
  BY DEF Inv, NamesInv, Names
<1>3. \A i \in 1 .. Len(content) : /\ content'[i].hdr = content[i].hdr
                                   /\ content'[i].schema = content[i].schema
                                   /\ content'[i].torn = content[i].torn
                                   /\ content[i].shared => content'[i].shared
  BY DEF FilesGrow, SameFile
<1>4. ASSUME NEW k \in Keys, files'[k] # NoFile
      PROVE  /\ FileInv(k)' /\ FileInv(k) /\ files[k] # NoFile
             /\ files'[k].id = files[k].id /\ files[k].id \in 1 .. Len(content)
  <2>1. /\ files[k] # NoFile /\ IsHandle(files'[k])
        /\ files'[k].name = files[k].name /\ files'[k].id = files[k].id
    BY <1>4 DEF HandlesStay, SameHandle
  <2>2. FileInv(k)
    BY <2>1 DEF Inv, FilesInv
  <2>3. Len(content') = Len(content) /\ dir' = dir
    BY DEF FilesGrow
  <2> QED
    BY <2>1, <2>2, <2>3 DEF FileInv, Names
<1>5. FilesInv'
  BY <1>4 DEF FilesInv, HandlesStay
<1>6. ASSUME NEW k \in Keys, files'[k] # NoFile, ~content'[files'[k].id].shared
      PROVE  header' = Own(content', files'[k].id) /\ ~content'[files'[k].id].torn
  <2>1. header = Own(content, files[k].id) /\ ~content[files[k].id].torn
    BY <1>3, <1>4, <1>6 DEF Inv, HeaderInv
  <2>2. header' = header
    BY <1>4, <1>6 DEF HeaderMayChange
  <2> QED
    BY <1>3, <1>4, <1>6, <2>1, <2>2 DEF Own
<1>7. ASSUME NEW n \in Names', ~IsOpen(n), ~content'[dir'[n]].shared, content'[dir'[n]].hdr # NoHeader
      PROVE  ~content'[dir'[n]].torn /\ content'[dir'[n]].hdr = Own(content', dir'[n])
  <2>1. n \in Names /\ dir[n] \in 1 .. Len(content) /\ dir'[n] = dir[n]
    BY DEF Inv, DirInv, Names
  <2>2. ~content[dir[n]].torn /\ content[dir[n]].hdr = Own(content, dir[n])
    BY <1>3, <1>7, <2>1 DEF Inv, HeaderInv, HeadersOwn
  <2> QED
    BY <1>3, <2>1, <2>2 DEF Own
<1>8. HeadersOwn'
  BY <1>7 DEF HeadersOwn
<1>9. header' \in [iv : {header'.iv}, schema : {header'.schema}]
  BY DEF Inv, HeaderInv, HeaderMayChange
<1>10. \A i \in 1 .. Len(content') :
          content'[i].torn => content'[i].shared \/ content'[i].hdr = NoHeader
  BY <1>3 DEF Inv, HeaderInv, FilesGrow
<1>11. HeaderInv'
  BY <1>4, <1>6, <1>8, <1>9, <1>10 DEF HeaderInv, Inv
<1> QED
  BY <1>1, <1>2, <1>5, <1>11 DEF Inv

\* ... and leaves the header alone.
LEMMA SteadyHeader ==
    ASSUME Inv, FilesGrow, HandlesStay, UNCHANGED <<dir, header, seqno, sec>>,
           CallInv'
    PROVE  Inv'
<1>1. 0 \notin Keys
  BY SizeAssumption DEF Keys
<1>2. HeaderMayChange(0, content')
  BY DEF HeaderMayChange
<1> QED
  BY <1>1, <1>2, Steady

LEMMA SameFileTwice ==
    ASSUME NEW c, NEW d, NEW e, SameFile(c, d), SameFile(d, e)
    PROVE  SameFile(c, e)
BY DEF SameFile

\* An unchanged disk, and unchanged handles.
LEMMA NothingGrows ==
    ASSUME Inv, UNCHANGED content
    PROVE  FilesGrow
<1>1. \A i \in 1 .. Len(content) : SameFile(content[i], content[i])
  BY DEF Inv, DirInv, SameFile
<1> QED
  BY <1>1 DEF FilesGrow, Inv, DirInv

LEMMA HandlesUnchanged ==
    ASSUME Inv, UNCHANGED files
    PROVE  HandlesStay
<1>1. \A k \in Keys : SameHandle(files[k], files[k])
  BY DEF Inv, FilesInv, FileInv, SameHandle
<1> QED
  BY <1>1 DEF HandlesStay, Inv, FilesInv

\* One handle changes.
LEMMA HandleChanges ==
    ASSUME Inv, NEW k \in Keys, NEW g, SameHandle(files[k], g),
           files' = [files EXCEPT ![k] = g]
    PROVE  HandlesStay
<1>1. files' = [j \in Keys |-> IF j = k THEN g ELSE files[j]]
  BY DEF Inv, FilesInv
<1>2. files' \in [Keys -> Range(files')]
  BY <1>1 DEF Range
<1>3. \A j \in Keys : SameHandle(files[j], files[j])
  BY DEF Inv, FilesInv, FileInv, SameHandle
<1> QED
  BY <1>1, <1>2, <1>3 DEF HandlesStay

LEMMA StutterInv ==
    ASSUME Inv, UNCHANGED <<content, dir, call, files, seqno, header, sec>>
    PROVE  Inv'
<1>1. CallInv'
  BY DEF Inv, CallInv
<1> QED
  BY <1>1, SteadyHeader, NothingGrows, HandlesUnchanged

\* A file whose messages change.
LEMMA MessagesChange ==
    ASSUME NEW c, IsFile(c), NEW m
    PROVE  SameFile(c, [c EXCEPT !.msgs = m])
BY DEF SameFile, IsFile

-----------------------------------------------------------------------------
(* A file is closed: with the name it has, or renamed. *)

LEMMA RenamedNames ==
    ASSUME Inv, NEW k \in Keys, files[k] # NoFile
    PROVE  LET name == files[k].name
               new == Renamed(name)
           IN  /\ DOMAIN new = (Names \ {name}) \cup {TrimOpen(name)}
               /\ TrimOpen(name) \notin Names
               /\ new[TrimOpen(name)] = files[k].id
               /\ \A n \in Names \ {name} : new[n] = dir[n]
               /\ new \in [DOMAIN new -> 1 .. Len(content)]
<1> DEFINE name == files[k].name
           t == TrimOpen(name)
<1>1. FileInv(k)
  BY DEF Inv, FilesInv
<1>2. name \in Name /\ name \in Names /\ name[4] = 1 /\ dir[name] = files[k].id
  BY <1>1 DEF FileInv, IsHandle
<1>3. t[1] = name[1] /\ t[2] = name[2] /\ t[4] = 0
  BY <1>2, Trimmed
<1> HIDE DEF t
<1>4. t \notin Names
  <2>1. t \in Names => t = name
    BY <1>2, <1>3 DEF Inv, NamesInv
  <2> QED
    BY <1>2, <1>3, <2>1
<1>5. Renamed(name) = [n \in (Names \ {name}) \cup {t} |-> IF n = t THEN dir[name] ELSE dir[n]]
  BY DEF Renamed, t
<1>6. \A n \in Names : dir[n] \in 1 .. Len(content)
  BY DEF Inv, DirInv
<1> QED
  BY <1>2, <1>4, <1>5, <1>6 DEF t

LEMMA RenamedNamesInv ==
    ASSUME Inv, NEW k \in Keys, files[k] # NoFile, UNCHANGED <<seqno, sec>>,
           dir' = Renamed(files[k].name)
    PROVE  NamesInv'
<1> DEFINE name == files[k].name
           t == TrimOpen(name)
<1>1. /\ Names' = (Names \ {name}) \cup {t}
      /\ t \notin Names
  BY RenamedNames DEF Names
<1>2. name \in Name /\ name \in Names
  BY DEF Inv, FilesInv, FileInv, IsHandle
<1>3. t \in Name /\ t[1] = name[1] /\ t[2] = name[2]
  BY <1>2, Trimmed
<1> HIDE DEF t, name
<1>4. \A n \in Names' : n \in Name /\ n[1] <= sec /\ (seqno > 0 /\ n[1] = sec => n[2] <= Place(seqno))
  BY <1>1, <1>2, <1>3 DEF Inv, NamesInv
<1>5. \A n \in Names : n[1] = name[1] /\ n[2] = name[2] => n = name
  BY <1>2 DEF Inv, NamesInv
<1>6. \A n, m \in Names' : n[1] = m[1] /\ n[2] = m[2] => n = m
  BY <1>1, <1>3, <1>5 DEF Inv, NamesInv
<1> QED
  BY <1>4, <1>6 DEF Inv, NamesInv

\* The file of k is closed with the producer's header, which may change then
\* when all other open files are shared.
LEMMA ClosingInv ==
    ASSUME Inv, NEW k \in Keys, files[k] # NoFile,
           content' \in Seq(Range(content')), Len(content') = Len(content),
           \A i \in 1 .. Len(content) :
               IF i = files[k].id
               THEN /\ IsFile(content'[i]) /\ content'[i].schema = content[i].schema
                    /\ content[i].shared => content'[i].shared
                    /\ \/ content'[i].hdr = NoHeader
                       \/ /\ content'[i].hdr = header
                          /\ content'[i].torn => \/ content[i].torn \/ header.iv < 0
                                                 \/ content[i].schema # header.schema
               ELSE SameFile(content[i], content'[i]),
           HeaderMayChange(k, content'),
           dir' \in {dir, Renamed(files[k].name)},
           files' = [files EXCEPT ![k] = NoFile],
           UNCHANGED <<seqno, sec>>, CallInv'
    PROVE  Inv'
<1> DEFINE name == files[k].name
           t == TrimOpen(name)
<1>1. /\ FileInv(k) /\ name \in Names /\ dir[name] = files[k].id
      /\ name[4] = 1 /\ name[3] = k /\ files[k].id \in 1 .. Len(content)
  BY DEF Inv, FilesInv, FileInv
<1>2. \/ dir' = dir /\ Names' = Names
      \/ /\ Names' = (Names \ {name}) \cup {t} /\ t \notin Names /\ t[4] = 0
         /\ dir'[t] = files[k].id /\ \A n \in Names \ {name} : dir'[n] = dir[n]
  <2>1. CASE dir' = dir
    BY <2>1 DEF Names
  <2>2. CASE dir' = Renamed(name)
    <3>1. name \in Name
      BY <1>1 DEF FileInv, IsHandle
    <3>2. t[4] = 0
      BY <3>1, Trimmed
    <3> QED
      BY <2>2, <3>2, RenamedNames DEF Names
  <2> QED
    BY <2>1, <2>2
<1>3. dir' \in [Names' -> 1 .. Len(content')]
  BY RenamedNames DEF Inv, DirInv, Names
<1>4. DirInv'
  BY <1>3 DEF DirInv, SameFile
<1>5. NamesInv'
  <2>1. CASE dir' = dir
    BY <2>1 DEF Inv, NamesInv, Names
  <2>2. CASE dir' = Renamed(name)
    BY <2>2, RenamedNamesInv
  <2> QED
    BY <2>1, <2>2
<1> HIDE DEF t, name
<1>6. files' = [j \in Keys |-> IF j = k THEN NoFile ELSE files[j]]
  BY DEF Inv, FilesInv
<1>7. ASSUME NEW j \in Keys, files'[j] # NoFile
      PROVE  /\ j # k /\ files'[j] = files[j] /\ files[j] # NoFile /\ FileInv(j) /\ FileInv(j)'
             /\ files[j].id \in 1 .. Len(content) /\ files[j].id # files[k].id
  <2>1. j # k /\ files'[j] = files[j] /\ files[j] # NoFile
    BY <1>6, <1>7
  <2>2. FileInv(j)
    BY <2>1 DEF Inv, FilesInv
  <2>3. files[j].id # files[k].id /\ files[j].name # name
    BY <2>1, Apart DEF Inv, name
  <2>4. files[j].name \in Names' /\ \A n \in Names' : dir'[n] = files[j].id <=> n = files[j].name
    BY <1>1, <1>2, <2>2, <2>3 DEF FileInv
  <2> QED
    BY <2>1, <2>2, <2>3, <2>4 DEF FileInv
<1>8. FilesInv'
  <2>1. files' \in [Keys -> Range(files')]
    BY <1>6 DEF Range
  <2> QED
    BY <1>7, <2>1 DEF FilesInv
<1>9. \A i \in 1 .. Len(content) : /\ content'[i].schema = content[i].schema
                                   /\ content[i].shared => content'[i].shared
                                   /\ i # files[k].id => /\ content'[i].hdr = content[i].hdr
                                                         /\ content'[i].torn = content[i].torn
  BY DEF SameFile
<1>10. ASSUME NEW j \in Keys, files'[j] # NoFile, ~content'[files'[j].id].shared
       PROVE  header' = Own(content', files'[j].id) /\ ~content'[files'[j].id].torn
  <2>1. header' = header
    BY <1>7, <1>10 DEF HeaderMayChange
  <2>2. header = Own(content, files[j].id) /\ ~content[files[j].id].torn
    BY <1>7, <1>9, <1>10 DEF Inv, HeaderInv
  <2> QED
    BY <1>7, <1>9, <1>10, <2>1, <2>2 DEF Own
<1> DEFINE id == files[k].id
<1>11. ASSUME ~content[id].shared, content'[id].hdr # NoHeader
       PROVE  ~content'[id].torn /\ content'[id].hdr = Own(content', id)
  <2>1. header = Own(content, id) /\ ~content[id].torn
    BY <1>11 DEF Inv, HeaderInv
  <2>2. header.schema = content[id].schema /\ header.iv = OwnIV(id)
    BY <2>1 DEF Own
  <2>3. ~(header.iv < 0)
    BY <1>1, <2>2 DEF OwnIV
  <2>4. content'[id].hdr = header /\ ~content'[id].torn
    BY <1>1, <1>11, <2>1, <2>2, <2>3
  <2> QED
    BY <1>1, <1>9, <2>1, <2>4 DEF Own
<1>12. ASSUME NEW n \in Names', ~IsOpen(n), ~content'[dir'[n]].shared, content'[dir'[n]].hdr # NoHeader
       PROVE  ~content'[dir'[n]].torn /\ content'[dir'[n]].hdr = Own(content', dir'[n])
  <2>1. CASE n \in Names /\ dir'[n] = dir[n]
    <3>1. dir[n] \in 1 .. Len(content) /\ dir[n] # id
      BY <1>1, <1>12, <2>1 DEF Inv, DirInv, FileInv, IsOpen, name
    <3>2. ~content[dir[n]].torn /\ content[dir[n]].hdr = Own(content, dir[n])
      BY <1>9, <1>12, <2>1, <3>1 DEF Inv, HeaderInv, HeadersOwn
    <3> QED
      BY <1>9, <2>1, <3>1, <3>2 DEF Own
  <2>2. CASE dir'[n] = id
    <3>1. ~content[id].shared
      BY <1>1, <1>9, <1>12, <2>2
    <3> QED
      BY <1>11, <1>12, <2>2, <3>1
  <2> QED
    BY <1>2, <2>1, <2>2
<1>13. HeadersOwn'
  BY <1>12 DEF HeadersOwn
<1>14. header' \in [iv : {header'.iv}, schema : {header'.schema}]
  BY DEF Inv, HeaderInv, HeaderMayChange
<1>15. ASSUME NEW i \in 1 .. Len(content'), content'[i].torn
       PROVE  content'[i].shared \/ content'[i].hdr = NoHeader
  <2>1. CASE i # id
    <3>1. content[i].torn => content[i].shared \/ content[i].hdr = NoHeader
      BY DEF Inv, HeaderInv
    <3> QED
      BY <1>9, <1>15, <2>1, <3>1
  <2>2. CASE i = id
    BY <1>1, <1>9, <1>11, <1>15, <2>2
  <2> QED
    BY <2>1, <2>2
<1>16. HeaderInv'
  <2> HIDE DEF id
  <2> QED
    BY <1>7, <1>10, <1>13, <1>14, <1>15 DEF HeaderInv
<1> QED
  BY <1>4, <1>5, <1>8, <1>16 DEF Inv

-----------------------------------------------------------------------------
(* A file is opened. *)

\* What Shared does: the files of the other keys are marked.
LEMMA SharedFiles ==
    ASSUME Inv, NEW k \in Keys
    PROVE  LET c == Shared(k)
           IN  /\ c \in Seq(Range(c)) /\ Len(c) = Len(content)
               /\ \A i \in 1 .. Len(content) : SameFile(content[i], c[i])
               /\ \A j \in Keys \ {k} : files[j] # NoFile => c[files[j].id].shared
               /\ files[k] # NoFile => c[files[k].id] = content[files[k].id]
<1> DEFINE others == {files[j].id : j \in FilesOpen \ {k}}
           c == Shared(k)
<1>1. Len(content) \in Nat /\ DOMAIN content = 1 .. Len(content)
  BY SeqIsFunction DEF Inv, DirInv
<1>2. c = [i \in 1 .. Len(content) |->
              IF i \in others THEN [content[i] EXCEPT !.shared = TRUE] ELSE content[i]]
  BY <1>1 DEF Shared
<1>3. \A j \in Keys \ {k} : files[j] # NoFile
          => files[j].id \in others /\ files[j].id \in 1 .. Len(content)
  BY DEF FilesOpen, Inv, FilesInv, FileInv
<1>4. files[k] # NoFile => files[k].id \notin others /\ files[k].id \in 1 .. Len(content)
  <2>1. files[k] # NoFile => \A j \in FilesOpen \ {k} : files[j].id # files[k].id
    BY Apart DEF FilesOpen, Inv
  <2> QED
    BY <2>1 DEF Inv, FilesInv, FileInv
<1> HIDE DEF others
<1>5. \A i \in 1 .. Len(content) : SameFile(content[i], c[i])
  <2> SUFFICES ASSUME NEW i \in 1 .. Len(content) PROVE SameFile(content[i], c[i])
    OBVIOUS
  <2>1. IsFile(content[i])
    BY DEF Inv, DirInv
  <2>2. c[i] \in {content[i], [content[i] EXCEPT !.shared = TRUE]}
    BY <1>2
  <2> HIDE DEF c
  <2> QED
    BY <2>1, <2>2 DEF SameFile, IsFile
<1>6. \A j \in Keys \ {k} : files[j] # NoFile => c[files[j].id].shared
  <2> SUFFICES ASSUME NEW j \in Keys \ {k}, files[j] # NoFile PROVE c[files[j].id].shared
    OBVIOUS
  <2>1. IsFile(content[files[j].id])
    BY <1>3 DEF Inv, DirInv
  <2>2. c[files[j].id] = [content[files[j].id] EXCEPT !.shared = TRUE]
    BY <1>2, <1>3
  <2> QED
    BY <2>1, <2>2 DEF IsFile
<1>7. files[k] # NoFile => c[files[k].id] = content[files[k].id]
  BY <1>2, <1>4
<1>8. c = [i \in 1 .. Len(content) |-> c[i]]
  BY <1>2
<1> HIDE DEF c
<1>9. c \in Seq(Range(c)) /\ Len(c) = Len(content)
  BY <1>1, <1>8, FunctionIsSeq
<1> QED
  BY <1>5, <1>6, <1>7, <1>9 DEF c

LEMMA PlaceType == ASSUME NEW n \in Nat PROVE Place(n) \in Nat
<1>1. SeqBase \in Nat \ {0} /\ SeqLimit \in Nat
  BY SeqAssumption
<1>2. n * (SeqBase + 1) \in Nat
  BY <1>1
<1>3. n \div SeqBase \in Nat /\ n % SeqBase \in Nat
  BY <1>1
<1>4. (n \div SeqBase) * (SeqBase + 1) \in Nat
  BY <1>1, <1>3
<1> DEFINE a == n * (SeqBase + 1)
           b == (n \div SeqBase) * (SeqBase + 1)
           m == n % SeqBase
<1>5. Place(n) = IF n < SeqLimit THEN a ELSE b + 1 + m
  BY DEF Place
<1> HIDE DEF a, b, m
<1>6. a \in Nat /\ b \in Nat /\ m \in Nat
  BY <1>2, <1>3, <1>4 DEF a, b, m
<1> QED
  BY <1>5, <1>6

LEMMA NewNameType ==
    ASSUME Inv, NEW k \in Keys, NEW t \in Nat
    PROVE  LET n == NewFileName(k, t)
           IN  n \in Name /\ n[1] = t /\ n[2] = Place(seqno + 1) /\ n[3] = k /\ n[4] = 1
<1>1. Place(seqno + 1) \in Nat /\ k \in Nat
  BY KeysAreNumbers, PlaceType DEF Inv, NamesInv
<1> QED
  BY <1>1 DEF NewFileName, Name

\* A new name comes after all others.
LEMMA NewNameIsNew ==
    ASSUME Inv, NEW k \in Keys, NEW t \in Seconds, Named(t), ~misnamed'
    PROVE  /\ t \in Nat /\ sec <= t /\ t > 0
           /\ \A m \in Names : m[1] < t \/ (m[1] = t /\ m[2] < Place(seqno + 1))
           /\ t = sec => seqno > 0 /\ Place(seqno) < Place(seqno + 1)
           /\ NewFileName(k, t) \notin Names
<1>1. sec \in Nat /\ seqno \in Nat /\ t \in Nat /\ sec <= t /\ t > 0
  BY DEF Inv, NamesInv, Seconds
<1>2. t = sec => seqno > 0 /\ Place(seqno) < Place(seqno + 1)
  <2>1. Place(seqno) \in Nat /\ Place(seqno + 1) \in Nat
    BY <1>1, PlaceType
  <2>2. ~(t = sec /\ (seqno = 0 \/ Place(seqno) >= Place(seqno + 1)))
    BY DEF Named
  <2> QED
    BY ONLY <1>1, <2>1, <2>2
<1>3. \A m \in Names : /\ m[1] \in Nat /\ m[2] \in Nat /\ m[1] <= sec
                       /\ seqno > 0 /\ m[1] = sec => m[2] <= Place(seqno)
  BY DEF Inv, NamesInv, Name
<1>4. \A m \in Names : m[1] < t \/ (m[1] = t /\ m[2] < Place(seqno + 1))
  <2> SUFFICES ASSUME NEW m \in Names PROVE m[1] < t \/ (m[1] = t /\ m[2] < Place(seqno + 1))
    OBVIOUS
  <2>1. Place(seqno) \in Nat /\ Place(seqno + 1) \in Nat
    BY <1>1, PlaceType
  <2> QED
    BY <1>1, <1>2, <1>3, <2>1
<1>5. LET n == NewFileName(k, t) IN n[1] = t /\ n[2] = Place(seqno + 1)
  BY <1>1, NewNameType
<1>6. NewFileName(k, t) \notin Names
  <2>1. Place(seqno + 1) \in Nat
    BY <1>1, PlaceType
  <2> QED
    BY <1>1, <1>4, <1>5, <2>1
<1> QED
  BY <1>1, <1>2, <1>4, <1>6

LEMMA NamedInv ==
    ASSUME Inv, NEW k \in Keys, NEW t \in Seconds, Named(t), ~misnamed',
           Names' \subseteq Names \cup {NewFileName(k, t)}
    PROVE  NamesInv'
<1> DEFINE n == NewFileName(k, t)
           p == Place(seqno + 1)
<1>1. seqno \in Nat /\ seqno' = seqno + 1 /\ sec' = t /\ t \in Nat /\ p \in Nat /\ p = Place(seqno')
  BY NewNameIsNew, PlaceType DEF Inv, NamesInv, Named
<1>2. n \in Name /\ n[1] = t /\ n[2] = p
  BY <1>1, NewNameType
<1>3. \A m \in Names : m \in Name /\ (m[1] < t \/ (m[1] = t /\ m[2] < p))
  BY NewNameIsNew DEF Inv, NamesInv
<1>4. \A m \in Name : m[1] \in Nat /\ m[2] \in Nat
  BY DEF Name
<1> HIDE DEF n, p
<1>5. \A m \in Names' : m \in Name /\ m[1] <= t /\ (m[1] = t => m[2] <= p)
  <2> SUFFICES ASSUME NEW m \in Names'
               PROVE  m \in Name /\ m[1] <= t /\ (m[1] = t => m[2] <= p)
    OBVIOUS
  <2>1. m \in Names \/ m = n
    BY DEF n
  <2>2. CASE m \in Names
    BY <1>1, <1>3, <1>4, <2>2
  <2>3. CASE m = n
    BY <1>1, <1>2, <2>3
  <2> QED
    BY <2>1, <2>2, <2>3
<1>6. \A m, l \in Names' : m[1] = l[1] /\ m[2] = l[2] => m = l
  <2> SUFFICES ASSUME NEW m \in Names', NEW l \in Names', m[1] = l[1], m[2] = l[2] PROVE m = l
    OBVIOUS
  <2>1. (m \in Names \/ m = n) /\ (l \in Names \/ l = n)
    BY DEF n
  <2>2. \A q \in Names : ~(q[1] = n[1] /\ q[2] = n[2])
    BY <1>1, <1>2, <1>3, <1>4
  <2>3. m \in Names /\ l \in Names => m = l
    BY DEF Inv, NamesInv
  <2> QED
    BY <2>1, <2>2, <2>3
<1> QED
  BY <1>1, <1>5, <1>6 DEF NamesInv

\* A file is added, and k has it open or not.
LEMMA AddedInv ==
    ASSUME Inv, NEW k \in Keys, files[k] = NoFile, NEW n \in Name, n \notin Names,
           n[3] = k, n[4] = 1, NamesInv', CallInv',
           NEW c, c \in Seq(Range(c)), Len(c) = Len(content),
           \A i \in 1 .. Len(content) : SameFile(content[i], c[i]),
           NEW file, IsFile(file), ~file.torn, content' = Append(c, file),
           dir' = [m \in Names \cup {n} |-> IF m = n THEN Len(content) + 1 ELSE dir[m]],
           HeaderMayChange(k, c),
           NEW handle, files' = [files EXCEPT ![k] = handle],
           \/ handle = NoFile
           \/ /\ IsHandle(handle) /\ handle.name = n /\ handle.id = Len(content) + 1
              /\ header' = [iv |-> OwnIV(Len(content) + 1), schema |-> file.schema]
              /\ header' \in [iv : {header'.iv}, schema : {header'.schema}]
    PROVE  Inv'
<1> DEFINE id == Len(content) + 1
<1>1. Len(content) \in Nat /\ id \in Nat \ {0} /\ id \notin 1 .. Len(content)
  BY SeqIsFunction DEF Inv, DirInv
<1>2. \A j \in Keys : files[j] # NoFile => FileInv(j) /\ files[j].id \in 1 .. Len(content)
  BY DEF Inv, FilesInv, FileInv
<1> HIDE DEF id
<1>3. /\ content' \in Seq(Range(content')) /\ Len(content') = id
      /\ \A i \in 1 .. Len(content) : content'[i] = c[i]
      /\ content'[id] = file
  BY AppendFile DEF id
<1>4. \A i \in 1 .. Len(content) : /\ SameFile(content[i], content'[i])
                                   /\ content'[i].hdr = content[i].hdr
                                   /\ content'[i].schema = content[i].schema
                                   /\ content'[i].torn = content[i].torn
                                   /\ content[i].shared => content'[i].shared
  BY <1>3 DEF SameFile
<1>5. Names' = Names \cup {n} /\ dir'[n] = id /\ \A m \in Names : dir'[m] = dir[m]
  BY DEF Names, id
<1>6. \A m \in Names : dir[m] \in 1 .. Len(content)
  BY DEF Inv, DirInv
<1>7. 1 .. id = 1 .. Len(content) \cup {id}
  BY <1>1 DEF id
<1>8. DirInv'
  <2>1. dir' \in [Names' -> 1 .. id]
    BY <1>5, <1>6, <1>7 DEF id
  <2>2. \A i \in 1 .. id : IsFile(content'[i])
    BY <1>3, <1>4, <1>7 DEF SameFile
  <2> QED
    BY <1>3, <2>1, <2>2 DEF DirInv, Names
<1>9. files' = [j \in Keys |-> IF j = k THEN handle ELSE files[j]]
  BY DEF Inv, FilesInv
<1>10. ASSUME NEW j \in Keys, j # k, files'[j] # NoFile
       PROVE  files'[j] = files[j] /\ files[j] # NoFile /\ FileInv(j) /\ FileInv(j)'
  <2>1. files'[j] = files[j] /\ files[j] # NoFile
    BY <1>9, <1>10
  <2>2. FileInv(j) /\ files[j].id \in 1 .. Len(content) /\ files[j].id # id
    BY <1>1, <1>2, <2>1
  <2>3. \A m \in Names' : dir'[m] = files[j].id <=> m = files[j].name
    BY <1>5, <2>2 DEF FileInv
  <2>4. files[j].id \in 1 .. Len(content')
    BY <1>3, <1>7, <2>2
  <2> QED
    BY <1>5, <2>1, <2>2, <2>3, <2>4 DEF FileInv
<1>11. handle # NoFile => FileInv(k)'
  <2> SUFFICES ASSUME handle # NoFile PROVE FileInv(k)'
    OBVIOUS
  <2>1. files'[k] = handle /\ IsHandle(handle) /\ handle.name = n /\ handle.id = id
    BY <1>9 DEF id
  <2>2. \A m \in Names' : dir'[m] = id <=> m = n
    BY <1>1, <1>5, <1>6
  <2>3. id \in 1 .. Len(content') /\ n \in Names'
    BY <1>3, <1>5, <1>7
  <2> QED
    BY <2>1, <2>2, <2>3 DEF FileInv
<1>12. FilesInv'
  <2>1. files' \in [Keys -> Range(files')]
    BY <1>9 DEF Range
  <2>2. files'[k] # NoFile => handle # NoFile
    BY <1>9
  <2> QED
    BY <1>10, <1>11, <2>1, <2>2 DEF FilesInv
<1>13. ASSUME NEW j \in Keys, files'[j] # NoFile, ~content'[files'[j].id].shared
       PROVE  header' = Own(content', files'[j].id) /\ ~content'[files'[j].id].torn
  <2>1. CASE j = k
    BY <1>3, <1>9, <1>13, <2>1 DEF Own, id
  <2>2. CASE j # k
    <3>1. files'[j] = files[j] /\ files[j] # NoFile /\ files[j].id \in 1 .. Len(content)
      BY <1>2, <1>10, <1>13, <2>2
    <3>2. header' = header
      BY <1>3, <1>13, <2>2, <3>1 DEF HeaderMayChange
    <3>3. header = Own(content, files[j].id) /\ ~content[files[j].id].torn
      BY <1>4, <1>13, <3>1 DEF Inv, HeaderInv
    <3> QED
      BY <1>4, <3>1, <3>2, <3>3 DEF Own
  <2> QED
    BY <2>1, <2>2
<1>14. ASSUME NEW m \in Names', ~IsOpen(m), ~content'[dir'[m]].shared, content'[dir'[m]].hdr # NoHeader
       PROVE  ~content'[dir'[m]].torn /\ content'[dir'[m]].hdr = Own(content', dir'[m])
  <2>1. m \in Names /\ dir'[m] = dir[m] /\ dir[m] \in 1 .. Len(content)
    BY <1>5, <1>6, <1>14 DEF IsOpen
  <2>2. ~content[dir[m]].torn /\ content[dir[m]].hdr = Own(content, dir[m])
    BY <1>4, <1>14, <2>1 DEF Inv, HeaderInv, HeadersOwn
  <2> QED
    BY <1>4, <2>1, <2>2 DEF Own
<1>15. HeadersOwn'
  BY <1>14 DEF HeadersOwn
<1>16. header' \in [iv : {header'.iv}, schema : {header'.schema}]
  BY DEF Inv, HeaderInv, HeaderMayChange
<1>17. \A i \in 1 .. Len(content') :
          content'[i].torn => content'[i].shared \/ content'[i].hdr = NoHeader
  <2>1. \A i \in 1 .. Len(content) :
           content[i].torn => content[i].shared \/ content[i].hdr = NoHeader
    BY DEF Inv, HeaderInv
  <2>2. \A i \in 1 .. Len(content) :
           content'[i].torn => content'[i].shared \/ content'[i].hdr = NoHeader
    BY ONLY <1>4, <2>1
  <2> QED
    BY <1>3, <1>7, <2>2
<1>18. HeaderInv'
  BY <1>13, <1>15, <1>16, <1>17 DEF HeaderInv
<1> QED
  BY <1>8, <1>12, <1>18 DEF Inv

\* The header for a new file.
LEMMA NewHeaderIs ==
    ASSUME Inv, NEW n, n \notin Names
    PROVE  /\ FileId(n) = Len(content) + 1
           /\ Header(n) = [iv |-> OwnIV(Len(content) + 1), schema |-> header.schema]
           /\ Header(n) \in [iv : {Header(n).iv}, schema : {Header(n).schema}]
<1>1. FileId(n) = Len(content) + 1
  BY DEF FileId
<1>2. FreshIV(n) = OwnIV(Len(content) + 1)
  BY <1>1 DEF FreshIV, OwnIV
<1>3. header \in [iv : {header.iv}, schema : {header.schema}]
  BY DEF Inv, HeaderInv
<1>4. Header(n) = [iv |-> FreshIV(n), schema |-> header.schema]
  BY <1>3 DEF Header
<1>5. Header(n) \in [iv : {Header(n).iv}, schema : {Header(n).schema}]
  BY <1>4
<1> QED
  BY <1>1, <1>2, <1>4, <1>5

LEMMA NewFileInv ==
    ASSUME Inv, NEW k \in Keys, files[k] = NoFile, NEW t \in Seconds, NewFile(k, t), ~misnamed',
           call'.op = "write", call'.key = k
    PROVE  Inv'
<1> DEFINE n == NewFileName(k, t)
           file == NewContent(Header(n))
           handle == [name |-> n, id |-> Len(content) + 1, size |-> Len(file.msgs),
                      buf |-> <<>>, broken |-> FALSE]
<1>1. Named(t)
  BY DEF NewFile
<1>2. n \notin Names /\ t \in Nat
  BY <1>1, NewNameIsNew
<1>3. n \in Name /\ n[3] = k /\ n[4] = 1
  BY <1>2, NewNameType
<1>4. /\ FileId(n) = Len(content) + 1
      /\ Header(n) = [iv |-> OwnIV(Len(content) + 1), schema |-> header.schema]
      /\ Header(n) \in [iv : {Header(n).iv}, schema : {Header(n).schema}]
  BY <1>2, NewHeaderIs
<1>5. /\ header' = Header(n)
      /\ content' = Append(Shared(k), file)
      /\ files' = [files EXCEPT ![k] = handle]
      /\ dir' = [m \in Names \cup {n} |-> IF m = n THEN Len(content) + 1 ELSE dir[m]]
  BY <1>2, <1>4 DEF NewFile, PutFile, PutName
<1>6. IsFile(file) /\ file.schema = header.schema /\ ~file.torn
  BY DEF IsFile, NewContent
<1>7. Len(content) + 1 \in Nat \ {0}
  BY SeqIsFunction DEF Inv, DirInv
<1>8. IsHandle(handle) /\ handle.name = n /\ handle.id = Len(content) + 1 /\ handle # NoFile
  BY <1>3, <1>7 DEF IsHandle, NoFile
<1>9. Names' = Names \cup {n}
  BY <1>5 DEF Names
<1>10. NamesInv'
  BY <1>1, <1>9, NamedInv
<1>11. CallInv'
  <2>1. files'[k] = handle
    BY <1>5 DEF Inv, FilesInv
  <2> QED
    BY <1>8, <2>1 DEF CallInv
<1> DEFINE c == Shared(k)
<1> HIDE DEF n, file, handle, c
<1>12. /\ c \in Seq(Range(c)) /\ Len(c) = Len(content)
       /\ \A i \in 1 .. Len(content) : SameFile(content[i], c[i])
       /\ HeaderMayChange(k, c)
  BY <1>4, <1>5, SharedFiles DEF HeaderMayChange, c
<1>13. header' = [iv |-> OwnIV(Len(content) + 1), schema |-> file.schema]
  BY <1>4, <1>5, <1>6
<1>14. content' = Append(c, file)
  BY <1>5 DEF c
<1>15. header' \in [iv : {header'.iv}, schema : {header'.schema}]
  BY <1>4, <1>5
<1>16. Inv /\ k \in Keys /\ files[k] = NoFile /\ n \notin Names /\ ~file.torn
  BY <1>2, <1>6
<1>17. files' = [files EXCEPT ![k] = handle]
  BY <1>5
<1>18. dir' = [m \in Names \cup {n} |-> IF m = n THEN Len(content) + 1 ELSE dir[m]]
  BY <1>5
<1>19. \/ handle = NoFile
       \/ /\ IsHandle(handle) /\ handle.name = n /\ handle.id = Len(content) + 1
          /\ header' = [iv |-> OwnIV(Len(content) + 1), schema |-> file.schema]
          /\ header' \in [iv : {header'.iv}, schema : {header'.schema}]
  BY <1>8, <1>13, <1>15
<1>20. IsFile(file)
  BY <1>6
<1> QED
  BY ONLY <1>3, <1>10, <1>11, <1>12, <1>14, <1>16, <1>17, <1>18, <1>19, <1>20, AddedInv, Zenon

\* The cases of NotOpened.
LEMMA NotOpenedCases ==
    ASSUME Inv, NEW k \in Keys, NEW t \in Seconds, NotOpened(k, t), ~misnamed'
    PROVE  /\ files' = files
           /\ \/ UNCHANGED <<content, dir, seqno, header, sec>>
              \/ Named(t) /\ UNCHANGED <<content, dir, header>>
              \/ /\ Named(t)
                 /\ \E c \in {Shared(k), content} : content' = Append(c, NewContent(NoHeader))
                 /\ \/ header' = header
                    \/ /\ header' = Header(NewFileName(k, t))
                       /\ content' = Append(Shared(k), NewContent(NoHeader))
                 /\ dir' = [m \in Names \cup {NewFileName(k, t)} |->
                               IF m = NewFileName(k, t) THEN Len(content) + 1 ELSE dir[m]]
<1> DEFINE n == NewFileName(k, t)
<1>1. Named(t) => n \notin Names /\ FileId(n) = Len(content) + 1
  BY NewNameIsNew, NewHeaderIs
<1> HIDE DEF n
<1>2. files' = files
  BY DEF NotOpened
<1>3. CASE UNCHANGED <<disk, seqno, header, sec, event, misnamed>>
  BY <1>2, <1>3 DEF disk
<1>4. CASE Named(t) /\ UNCHANGED <<content, dir, header>>
  BY <1>2, <1>4
<1>5. CASE /\ Named(t) /\ dir' = PutName(n)
           /\ \E changed \in BOOLEAN :
                 LET c == IF changed THEN Shared(k) ELSE content
                 IN  /\ header' = IF changed THEN Header(n) ELSE header
                     /\ content' = IF n \in Names THEN c ELSE Append(c, NewContent(NoHeader))
  <2>1. PICK changed \in BOOLEAN :
                 LET c == IF changed THEN Shared(k) ELSE content
                 IN  /\ header' = IF changed THEN Header(n) ELSE header
                     /\ content' = IF n \in Names THEN c ELSE Append(c, NewContent(NoHeader))
    BY <1>5
  <2>2. dir' = [m \in Names \cup {n} |-> IF m = n THEN Len(content) + 1 ELSE dir[m]]
    BY <1>1, <1>5 DEF PutName
  <2>3. CASE changed = TRUE
    BY <1>1, <1>2, <1>5, <2>1, <2>2, <2>3 DEF n
  <2>4. CASE changed = FALSE
    BY <1>1, <1>2, <1>5, <2>1, <2>2, <2>4 DEF n
  <2> QED
    BY <2>3, <2>4
<1> QED
  BY <1>3, <1>4, <1>5 DEF NotOpened, n

LEMMA NotOpenedInv ==
    ASSUME Inv, NEW k \in Keys, files[k] = NoFile, NEW t \in Seconds, NotOpened(k, t), ~misnamed',
           call' = Idle
    PROVE  Inv'
<1> DEFINE n == NewFileName(k, t)
           file == NewContent(NoHeader)
<1>1. files' = files
  BY NotOpenedCases
<1>2. CallInv'
  BY DEF CallInv, Idle
<1>3. CASE UNCHANGED <<content, dir, seqno, header, sec>>
  BY <1>1, <1>2, <1>3, SteadyHeader, NothingGrows, HandlesUnchanged
<1>4. CASE Named(t) /\ UNCHANGED <<content, dir, header>>
  <2>1. Names' = Names
    BY <1>4 DEF Names
  <2>2. NamesInv'
    BY <1>4, <2>1, NamedInv
  <2>3. DirInv' /\ FilesInv' /\ HeaderInv'
    BY <1>1, <1>4, <2>1 DEF Inv, DirInv, FilesInv, FileInv, HeaderInv, HeadersOwn, Own
  <2> QED
    BY <1>2, <2>2, <2>3 DEF Inv
<1>5. CASE /\ Named(t)
           /\ \E c \in {Shared(k), content} : content' = Append(c, file)
           /\ \/ header' = header
              \/ header' = Header(n) /\ content' = Append(Shared(k), file)
           /\ dir' = [m \in Names \cup {n} |-> IF m = n THEN Len(content) + 1 ELSE dir[m]]
  <2>1. n \notin Names /\ t \in Nat
    BY <1>5, NewNameIsNew
  <2>2. n \in Name /\ n[3] = k /\ n[4] = 1
    BY <2>1, NewNameType
  <2>3. Header(n) \in [iv : {Header(n).iv}, schema : {Header(n).schema}]
    BY <2>1, NewHeaderIs
  <2>4. IsFile(file) /\ ~file.torn
    BY DEF IsFile, NewContent
  <2>5. NamesInv'
    <3>1. Names' = Names \cup {n}
      BY <1>5 DEF Names
    <3> QED
      BY <1>5, <3>1, NamedInv
  <2> DEFINE c1 == Shared(k)
  <2>6. /\ c1 \in Seq(Range(c1)) /\ Len(c1) = Len(content)
        /\ \A i \in 1 .. Len(content) : SameFile(content[i], c1[i])
        /\ \A j \in Keys \ {k} : files[j] # NoFile => c1[files[j].id].shared
    BY SharedFiles
  <2>7. /\ content \in Seq(Range(content))
        /\ \A i \in 1 .. Len(content) : SameFile(content[i], content[i])
    BY DEF Inv, DirInv, SameFile
  <2> HIDE DEF n, file, c1
  <2>8. PICK c \in {c1, content} : /\ content' = Append(c, file)
                                   /\ HeaderMayChange(k, c)
    <3>1. CASE header' = header
      BY <1>5, <3>1 DEF HeaderMayChange, c1
    <3>2. CASE header' = Header(n) /\ content' = Append(Shared(k), file)
      BY <2>3, <2>6, <3>2 DEF HeaderMayChange, c1
    <3> QED
      BY <1>5, <3>1, <3>2
  <2>9. /\ c \in Seq(Range(c)) /\ Len(c) = Len(content)
        /\ \A i \in 1 .. Len(content) : SameFile(content[i], c[i])
    BY <2>6, <2>7
  <2>10. files' = [files EXCEPT ![k] = NoFile]
    BY <1>1 DEF Inv, FilesInv
  <2> QED
    BY <1>2, <1>5, <2>1, <2>2, <2>4, <2>5, <2>8, <2>9, <2>10, AddedInv
<1> QED
  BY <1>3, <1>4, <1>5, NotOpenedCases

-----------------------------------------------------------------------------
(* The producer. *)

LEMMA KeyIn == ASSUME Inv PROVE Len(content) \in Nat /\ DOMAIN content = 1 .. Len(content)
BY SeqIsFunction DEF Inv, DirInv

LEMMA NewProducerInv == ASSUME Inv, NewProducer PROVE Inv'
<1>1. /\ UNCHANGED <<content, dir, files, seqno, header, sec>> /\ call' = Idle
  BY DEF NewProducer, disk
<1>2. CallInv'
  BY <1>1 DEF CallInv, Idle
<1> QED
  BY <1>1, <1>2, SteadyHeader, NothingGrows, HandlesUnchanged

LEMMA GetFileInv ==
    ASSUME Inv, NEW k \in Keys, NEW b \in BOOLEAN, GetFile(k, b), ~misnamed'
    PROVE  Inv'
<1>1. CASE files[k] = NoFile
  <2>1. PICK t \in Seconds : \/ NewFile(k, t) /\ call' = Call("write", k, b)
                             \/ NotOpened(k, t) /\ call' = Idle
    BY <1>1 DEF GetFile
  <2>2. CASE NewFile(k, t) /\ call' = Call("write", k, b)
    BY <1>1, <2>2, NewFileInv DEF Call
  <2>3. CASE NotOpened(k, t) /\ call' = Idle
    BY <1>1, <2>3, NotOpenedInv
  <2> QED
    BY <2>1, <2>2, <2>3
<1>2. CASE files[k] # NoFile
  <2>1. UNCHANGED <<content, dir, files, seqno, header, sec>> /\ call' = Call("write", k, b)
    BY <1>2 DEF GetFile, disk
  <2>2. CallInv'
    BY <1>2, <2>1 DEF CallInv, Call
  <2> QED
    BY <2>1, <2>2, SteadyHeader, NothingGrows, HandlesUnchanged
<1> QED
  BY <1>1, <1>2

\* The flush of one file.
LEMMA WrittenFiles ==
    ASSUME Inv, NEW k \in Keys, files[k] # NoFile, NEW c, NEW f, f.id = files[k].id, NEW n,
           c \in Seq(Range(c)), Len(c) = Len(content),
           \A i \in 1 .. Len(content) : SameFile(content[i], c[i])
    PROVE  LET d == Written(c, f, n)
           IN  /\ d = [i \in 1 .. Len(content) |-> d[i]]
               /\ \A i \in 1 .. Len(content) : SameFile(content[i], d[i])
<1> DEFINE d == Written(c, f, n)
           m == c[f.id].msgs \o SubSeq(f.buf, 1, n)
<1>1. Len(content) \in Nat /\ c = [i \in 1 .. Len(content) |-> c[i]]
  BY SeqIsFunction
<1>2. f.id \in 1 .. Len(content)
  BY DEF Inv, FilesInv, FileInv
<1>3. d = [c EXCEPT ![f.id] = [c[f.id] EXCEPT !.msgs = m]]
  BY <1>1, <1>2 DEF Written
<1> HIDE DEF m
<1>4. d = [i \in 1 .. Len(content) |-> IF i = f.id THEN [c[i] EXCEPT !.msgs = m] ELSE c[i]]
  BY <1>1, <1>2, <1>3
<1> HIDE DEF d
<1>5. ASSUME NEW i \in 1 .. Len(content)
      PROVE  SameFile(content[i], d[i])
  <2>1. SameFile(content[i], c[i]) /\ IsFile(c[i])
    BY DEF SameFile
  <2>2. SameFile(c[i], [c[i] EXCEPT !.msgs = m])
    BY <2>1, MessagesChange
  <2>3. d[i] \in {c[i], [c[i] EXCEPT !.msgs = m]}
    BY <1>4
  <2> QED
    BY <2>1, <2>2, <2>3, SameFileTwice
<1>6. d = [i \in 1 .. Len(content) |-> d[i]]
  BY <1>4
<1> QED
  BY <1>5, <1>6 DEF d

\* closeFile.
LEMMA CloseFileInv ==
    ASSUME Inv, NEW k \in Keys, files[k] # NoFile, NEW c, NEW f, f.id = files[k].id,
           f.name = files[k].name, NEW n, NEW whole \in BOOLEAN, NEW rename \in BOOLEAN,
           CloseFile(c, f, n, whole, rename),
           c \in Seq(Range(c)), Len(c) = Len(content),
           \A i \in 1 .. Len(content) : SameFile(content[i], c[i]),
           HeaderMayChange(k, c),
           files' = [files EXCEPT ![k] = NoFile],
           UNCHANGED <<seqno, sec>>, CallInv'
    PROVE  Inv'
<1> DEFINE d == Written(c, f, n)
           hdr == IF whole THEN header ELSE NoHeader
<1>1. /\ d = [i \in 1 .. Len(content) |-> d[i]]
      /\ \A i \in 1 .. Len(content) : SameFile(content[i], d[i])
  BY WrittenFiles
<1>2. dir' \in {dir, Renamed(files[k].name)}
  BY DEF CloseFile
<1>3. PICK torn \in Tears(c[f.id], whole) :
          content' = [d EXCEPT ![f.id].hdr = hdr, ![f.id].torn = torn]
  BY DEF CloseFile
<1>4. f.id \in 1 .. Len(content) /\ Len(content) \in Nat
  BY KeyIn DEF Inv, FilesInv, FileInv
<1>5. SameFile(content[f.id], c[f.id]) /\ c[f.id].torn \in BOOLEAN
  BY <1>4 DEF SameFile, IsFile
<1>6. torn \in BOOLEAN /\ (torn => \/ ~whole \/ content[f.id].torn \/ header.iv < 0
                                   \/ content[f.id].schema # header.schema)
  BY <1>5 DEF Tears, SameFile
<1> HIDE DEF d, hdr
<1>7. content' = [i \in 1 .. Len(content) |->
                     IF i = f.id THEN [d[i] EXCEPT !.hdr = hdr, !.torn = torn] ELSE d[i]]
  BY <1>1, <1>3, <1>4
<1>8. content' = [i \in 1 .. Len(content) |-> content'[i]]
  BY <1>7
<1>9. content' \in Seq(Range(content')) /\ Len(content') = Len(content)
  BY <1>4, <1>8, FunctionIsSeq
<1>10. \A i \in 1 .. Len(content) : i # f.id => SameFile(content[i], content'[i])
  BY <1>1, <1>7
<1>11. LET e == content'[f.id]
       IN  /\ IsFile(e) /\ e.hdr = hdr /\ e.torn = torn /\ e.schema = content[f.id].schema
           /\ content[f.id].shared => e.shared
  <2>1. SameFile(content[f.id], d[f.id]) /\ content'[f.id] = [d[f.id] EXCEPT !.hdr = hdr, !.torn = torn]
    BY <1>1, <1>4, <1>7
  <2>2. d[f.id] \in [msgs : {d[f.id].msgs}, hdr : {d[f.id].hdr}, schema : {d[f.id].schema},
                     shared : BOOLEAN, torn : BOOLEAN]
    BY <2>1 DEF SameFile, IsFile
  <2> QED
    BY <1>6, <2>1, <2>2 DEF SameFile, IsFile
<1>12. LET e == content'[f.id]
       IN  \/ e.hdr = NoHeader
           \/ /\ e.hdr = header
              /\ e.torn => \/ content[f.id].torn \/ header.iv < 0
                           \/ content[f.id].schema # header.schema
  BY <1>6, <1>11 DEF hdr
<1>13. \A j \in Keys \ {k} : files[j] # NoFile /\ c[files[j].id].shared => content'[files[j].id].shared
  <2> SUFFICES ASSUME NEW j \in Keys \ {k}, files[j] # NoFile, c[files[j].id].shared
               PROVE  content'[files[j].id].shared
    OBVIOUS
  <2>1. files[j].id \in 1 .. Len(content) /\ files[j].id # f.id
    BY Apart DEF Inv, FilesInv, FileInv
  <2>2. content'[files[j].id] = d[files[j].id]
    BY <1>7, <2>1
  <2>3. d[files[j].id] = c[files[j].id]
    <3>1. c = [i \in 1 .. Len(content) |-> c[i]] /\ DOMAIN c = 1 .. Len(content)
      BY SeqIsFunction
    <3> QED
      BY <1>4, <2>1, <3>1 DEF d, Written
  <2> QED
    BY <2>2, <2>3
<1>14. HeaderMayChange(k, content')
  BY <1>13 DEF HeaderMayChange
<1> QED
  BY <1>2, <1>9, <1>10, <1>11, <1>12, <1>14, ClosingInv

\* A handle whose buffer, size or error changes.
LEMMA HandleFills ==
    ASSUME NEW f, IsHandle(f), NEW b, NEW z
    PROVE  LET g == [f EXCEPT !.buf = b, !.size = z]
           IN  IsHandle(g) /\ g # NoFile /\ g.name = f.name /\ g.id = f.id
BY DEF IsHandle, NoFile

LEMMA HandleFlushes ==
    ASSUME NEW f, IsHandle(f), NEW n
    PROVE  LET g == Flushed(f, n)
           IN  IsHandle(g) /\ g # NoFile /\ g.name = f.name /\ g.id = f.id
BY DEF IsHandle, NoFile, Flushed

\* The handle that push fills.
LEMMA PushFills ==
    ASSUME NEW f, IsHandle(f)
    PROVE  LET g == [f EXCEPT !.buf = Append(@, NextMsg), !.size = @ + 1]
           IN  IsHandle(g) /\ g # NoFile /\ g.name = f.name /\ g.id = f.id
<1> DEFINE b == Append(f.buf, NextMsg)
           z == f.size + 1
<1>1. LET g == [f EXCEPT !.buf = b, !.size = z]
      IN  IsHandle(g) /\ g # NoFile /\ g.name = f.name /\ g.id = f.id
  <2> HIDE DEF b, z
  <2> QED
    BY DEF IsHandle, NoFile
<1> QED
  BY <1>1

\* A flush that closes nothing.
LEMMA WrittenInv ==
    ASSUME Inv, NEW k \in Keys, files[k] # NoFile, NEW f, f.id = files[k].id, NEW n,
           content' = Written(content, f, n), NEW g, SameHandle(files[k], g),
           files' = [files EXCEPT ![k] = g],
           UNCHANGED <<dir, header, seqno, sec>>, CallInv'
    PROVE  Inv'
<1>1. \A i \in 1 .. Len(content) : SameFile(content[i], content[i])
  BY DEF Inv, DirInv, SameFile
<1>2. /\ content' = [i \in 1 .. Len(content) |-> content'[i]]
      /\ \A i \in 1 .. Len(content) : SameFile(content[i], content'[i])
  BY <1>1, WrittenFiles DEF Inv, DirInv
<1>3. content' \in Seq(Range(content')) /\ Len(content') = Len(content)
  BY <1>2, KeyIn, FunctionIsSeq
<1>4. FilesGrow
  BY <1>2, <1>3 DEF FilesGrow
<1> QED
  BY <1>4, HandleChanges, SteadyHeader

LEMMA WriteInv == ASSUME Inv, Write PROVE Inv'
<1> DEFINE k == call.key
           f == [files[k] EXCEPT !.buf = Append(@, NextMsg), !.size = @ + 1]
<1>1. /\ call.op = "write" /\ call' = Idle /\ UNCHANGED <<seqno, header, sec>>
  BY DEF Write
<1>2. k \in Keys /\ files[k] # NoFile /\ FileInv(k) /\ IsHandle(files[k])
  BY <1>1 DEF Inv, CallInv, FilesInv, FileInv
<1>3. CallInv'
  BY <1>1 DEF CallInv, Idle
<1>4. IsHandle(f) /\ f # NoFile /\ f.name = files[k].name /\ f.id = files[k].id
  BY <1>2, PushFills
<1>5. SameHandle(files[k], f)
  BY <1>2, <1>4 DEF SameHandle
<1>6. ASSUME UNCHANGED <<content, dir, files>>
      PROVE  Inv'
  BY <1>1, <1>3, <1>6, SteadyHeader, NothingGrows, HandlesUnchanged
<1>7. ASSUME UNCHANGED <<content, dir>>, files' = [files EXCEPT ![k] = f]
      PROVE  Inv'
  <2> HIDE DEF f, k
  <2> QED
    BY <1>1, <1>2, <1>3, <1>5, <1>7, SteadyHeader, NothingGrows, HandleChanges
<1>8. ASSUME NEW n \in Writable(f), NEW whole \in BOOLEAN, NEW rename \in BOOLEAN,
             CloseFile(content, f, n, whole, rename), files' = [files EXCEPT ![k] = NoFile]
      PROVE  Inv'
  <2>1. \A i \in 1 .. Len(content) : SameFile(content[i], content[i])
    BY DEF Inv, DirInv, SameFile
  <2> HIDE DEF f, k
  <2> QED
    BY <1>1, <1>2, <1>3, <1>4, <1>8, <2>1, CloseFileInv DEF Inv, DirInv, HeaderMayChange
<1>9. ASSUME NEW n \in Writable(f), content' = Written(content, f, n), UNCHANGED dir,
             files' = [files EXCEPT ![k] = Flushed(f, n)]
      PROVE  Inv'
  <2> HIDE DEF f, k
  <2>1. SameHandle(files[k], Flushed(f, n))
    BY <1>2, <1>4, HandleFlushes DEF SameHandle
  <2> QED
    BY <1>1, <1>2, <1>3, <1>4, <1>9, <2>1, WrittenInv
<1> DEFINE close == Full(f.size)
<1>10. \/ UNCHANGED <<content, dir, files>>
       \/ UNCHANGED <<content, dir>> /\ files' = [files EXCEPT ![k] = f]
       \/ \E n \in Writable(f), whole, rename \in BOOLEAN :
             \/ CloseFile(content, f, n, whole, rename) /\ files' = [files EXCEPT ![k] = NoFile]
             \/ /\ content' = Written(content, f, n) /\ UNCHANGED dir
                /\ files' = [files EXCEPT ![k] = Flushed(f, n)]
  BY DEF Write, disk
<1> QED
  BY <1>6, <1>7, <1>8, <1>9, <1>10

LEMMA FlushAllInv ==
    ASSUME Inv, NEW bad, NEW n, FlushAll(bad, n), UNCHANGED <<dir, header, seqno, sec>>,
           CallInv'
    PROVE  Inv'
<1> DEFINE count(k) == IF k = bad THEN n ELSE IF files[k].broken THEN 0 ELSE Len(files[k].buf)
           written(i) == LET k == CHOOSE k \in FilesOpen : files[k].id = i
                         IN  content[i].msgs \o SubSeq(files[k].buf, 1, count(k))
<1>1. /\ content' = [i \in DOMAIN content |->
              IF \E k \in FilesOpen : files[k].id = i
              THEN [content[i] EXCEPT !.msgs = written(i)] ELSE content[i]]
      /\ files' = [k \in Keys |-> IF k \in FilesOpen THEN Flushed(files[k], count(k)) ELSE NoFile]
  BY DEF FlushAll
<1> HIDE DEF written, count
<1>2. Len(content) \in Nat /\ DOMAIN content = 1 .. Len(content)
  BY KeyIn
<1>3. content' = [i \in 1 .. Len(content) |-> content'[i]]
  BY <1>1, <1>2
<1>4. content' \in Seq(Range(content')) /\ Len(content') = Len(content)
  BY <1>2, <1>3, FunctionIsSeq
<1>5. ASSUME NEW i \in 1 .. Len(content)
      PROVE  SameFile(content[i], content'[i])
  <2>1. IsFile(content[i])
    BY DEF Inv, DirInv
  <2>2. SameFile(content[i], [content[i] EXCEPT !.msgs = written(i)])
    BY <2>1, MessagesChange
  <2>3. SameFile(content[i], content[i])
    BY <2>1 DEF SameFile
  <2> QED
    BY <1>1, <1>2, <2>2, <2>3
<1>6. FilesGrow
  BY <1>4, <1>5 DEF FilesGrow
<1>7. ASSUME NEW k \in Keys
      PROVE  SameHandle(files[k], files'[k])
  <2>1. CASE files[k] # NoFile
    <3>1. files'[k] = Flushed(files[k], count(k))
      BY <1>1, <2>1 DEF FilesOpen
    <3>2. IsHandle(files[k])
      BY <2>1 DEF Inv, FilesInv, FileInv
    <3> QED
      BY <2>1, <3>1, <3>2, HandleFlushes DEF SameHandle
  <2>2. CASE files[k] = NoFile
    BY <1>1, <2>2 DEF FilesOpen, SameHandle
  <2> QED
    BY <2>1, <2>2
<1>8. files' \in [Keys -> Range(files')]
  BY <1>1 DEF Range
<1>9. HandlesStay
  BY <1>7, <1>8 DEF HandlesStay
<1> QED
  BY <1>6, <1>9, SteadyHeader

LEMMA CommitInv ==
    ASSUME Inv, NEW next, Commit(next), CallInv'
    PROVE  Inv'
<1>1. /\ UNCHANGED <<dir, header, seqno, sec>>
      /\ \E bad \in {0} \cup FilesOpen, n \in {0} \cup 0 .. MaxMsgs : FlushAll(bad, n)
  BY DEF Commit
<1> QED
  BY <1>1, FlushAllInv

LEMMA PushBatchCommitInv == ASSUME Inv, PushBatchCommit PROVE Inv'
<1>1. Commit(Idle) /\ call' = Idle
  BY DEF PushBatchCommit, Commit
<1>2. CallInv'
  BY <1>1 DEF CallInv, Idle
<1> QED
  BY <1>1, <1>2, CommitInv

LEMMA PushSchemaInv == ASSUME Inv, NEW k \in Keys, PushSchema(k) PROVE Inv'
<1>1. Commit(Call("schema", k, FALSE)) /\ call' = Call("schema", k, FALSE)
  BY DEF PushSchema, Commit
<1>2. CallInv'
  BY <1>1 DEF CallInv, Call
<1> QED
  BY <1>1, <1>2, CommitInv

LEMMA ReplaceSchemaInv == ASSUME Inv, ReplaceSchema PROVE Inv'
<1> DEFINE k == call.key
<1>1. /\ call.op = "schema" /\ UNCHANGED <<seqno, sec>> /\ header' = NewSchema
      /\ files' = [files EXCEPT ![k] = NoFile] /\ call' = Call("get", k, FALSE)
  BY DEF ReplaceSchema
<1>2. k \in Keys
  BY <1>1 DEF Inv, CallInv
<1>3. CallInv'
  BY <1>1, <1>2 DEF CallInv, Call
<1>4. header' \in [iv : {header'.iv}, schema : {header'.schema}]
  BY <1>1 DEF NewSchema, Inv, HeaderInv
<1>5. /\ Shared(k) \in Seq(Range(Shared(k))) /\ Len(Shared(k)) = Len(content)
      /\ \A i \in 1 .. Len(content) : SameFile(content[i], Shared(k)[i])
      /\ HeaderMayChange(k, Shared(k))
  BY <1>2, <1>4, SharedFiles DEF HeaderMayChange
<1>6. CASE files[k] # NoFile
  <2>1. PICK whole, rename \in BOOLEAN : CloseFile(Shared(k), files[k], 0, whole, rename)
    BY <1>6 DEF ReplaceSchema
  <2> HIDE DEF k
  <2> QED
    BY <1>1, <1>2, <1>3, <1>4, <1>5, <1>6, <2>1, CloseFileInv
<1>7. CASE files[k] = NoFile
  <2>1. content' = Shared(k) /\ UNCHANGED dir
    BY <1>7 DEF ReplaceSchema
  <2>2. FilesGrow /\ HeaderMayChange(k, content')
    BY <1>5, <2>1 DEF FilesGrow
  <2>3. files' = files
    BY <1>1, <1>2, <1>7 DEF Inv, FilesInv
  <2> QED
    BY <1>1, <1>2, <1>3, <1>7, <2>1, <2>2, <2>3, HandlesUnchanged, Steady
<1> QED
  BY <1>6, <1>7

\* The producer is gone, and has no file open.
LEMMA GoneInv ==
    ASSUME Inv, Gone, UNCHANGED <<content, dir, sec>>,
           files' \in [Keys -> Range(files')], \A k \in Keys : files'[k] = NoFile
    PROVE  Inv'
<1>1. /\ seqno' = 0 /\ header' = NewHeader /\ call'.op = "down"
  BY DEF Gone, Down
<1>2. DirInv'
  BY DEF Inv, DirInv, Names
<1>3. NamesInv'
  BY <1>1 DEF Inv, NamesInv, Names
<1>4. FilesInv'
  BY DEF FilesInv
<1>5. HeaderInv'
  BY <1>1 DEF Inv, HeaderInv, HeadersOwn, Own, Names, NewHeader
<1>6. CallInv'
  BY <1>1 DEF CallInv
<1> QED
  BY <1>2, <1>3, <1>4, <1>5, <1>6 DEF Inv

LEMMA CloseInv == ASSUME Inv, Close PROVE Inv'
<1>1. CASE FilesOpen = {} /\ Gone /\ UNCHANGED <<disk, files>>
  BY <1>1, GoneInv DEF Close, disk, FilesOpen, Inv, FilesInv
<1>2. CASE FilesOpen # {} /\ call' = Closing /\ UNCHANGED <<seqno, header>>
  <2>1. PICK k \in FilesOpen :
            /\ \E n \in Writable(files[k]), whole, rename \in BOOLEAN :
                  CloseFile(content, files[k], n, whole, rename)
            /\ files' = [files EXCEPT ![k] = NoFile] /\ sec' = sec
    BY <1>2 DEF Close, Gone, Closing, Down
  <2>2. k \in Keys /\ files[k] # NoFile
    BY DEF FilesOpen
  <2>3. CallInv'
    BY <1>2 DEF CallInv, Close, Closing, Idle
  <2>4. \A i \in 1 .. Len(content) : SameFile(content[i], content[i])
    BY DEF Inv, DirInv, SameFile
  <2> QED
    BY <1>2, <2>1, <2>2, <2>3, <2>4, CloseFileInv DEF Inv, DirInv, HeaderMayChange
<1> QED
  BY <1>1, <1>2 DEF Close

LEMMA CrashInv == ASSUME Inv, Crash PROVE Inv'
<1>1. /\ Gone /\ UNCHANGED <<content, dir, sec>> /\ files' = [k \in Keys |-> NoFile]
  BY DEF Crash, disk
<1>2. files' \in [Keys -> Range(files')]
  BY <1>1 DEF Range
<1> QED
  BY <1>1, <1>2, GoneInv

LEMMA InitInv == Init => Inv
<1> SUFFICES ASSUME Init PROVE Inv
  OBVIOUS
<1>1. content = <<>> /\ dir = <<>> /\ files = [k \in Keys |-> NoFile] /\ Names = {}
  BY DEF Init, Names
<1>2. content = [i \in 1 .. 0 |-> content[i]]
  BY <1>1
<1>3. content \in Seq(Range(content)) /\ Len(content) = 0
  BY <1>2, FunctionIsSeq
<1>4. DirInv
  BY <1>1, <1>3 DEF DirInv
<1>5. NamesInv
  BY <1>1 DEF NamesInv, Init
<1>6. FilesInv
  <2>1. files \in [Keys -> Range(files)]
    BY <1>1 DEF Range
  <2> QED
    BY <1>1, <2>1 DEF FilesInv
<1>7. HeaderInv
  BY <1>1, <1>3 DEF HeaderInv, HeadersOwn, Init, NewHeader
<1>8. CallInv
  BY DEF CallInv, Init, Down
<1> QED
  BY <1>4, <1>5, <1>6, <1>7, <1>8 DEF Inv

LEMMA NextInv == Inv /\ [Next]_vars /\ ~misnamed' => Inv'
<1> SUFFICES ASSUME Inv, [Next]_vars, ~misnamed' PROVE Inv'
  OBVIOUS
<1>1. CASE UNCHANGED vars
  BY <1>1, StutterInv DEF vars, disk, producer
<1>2. CASE NewConsumer \/ Consumer \/ CloseConsumer
  <2>1. UNCHANGED <<content, dir, call, files, seqno, header, sec>>
    BY <1>2 DEF NewConsumer, Consumer, CloseConsumer, OpenFirst, Read, Watch, WatchParent,
                ReadNames, NextFile, Wake, disk, producer
  <2> QED
    BY <2>1, StutterInv
<1> QED
  BY <1>1, <1>2, NewProducerInv, GetFileInv, PushSchemaInv, WriteInv, PushBatchCommitInv,
     ReplaceSchemaInv, CloseInv, CrashInv DEF Next

LEMMA MisnamedStays == misnamed /\ [Next]_vars => misnamed'
<1> SUFFICES ASSUME misnamed, [Next]_vars PROVE misnamed'
  OBVIOUS
<1>1. CASE UNCHANGED vars
  BY <1>1 DEF vars, history
<1>2. ASSUME NEW k \in Keys, NEW b \in BOOLEAN, GetFile(k, b) PROVE misnamed'
  BY <1>2 DEF GetFile, NewFile, NotOpened, Named
<1>3. CASE \/ NewProducer \/ Write \/ PushBatchCommit \/ ReplaceSchema \/ Close \/ Crash
           \/ NewConsumer \/ Consumer \/ CloseConsumer \/ \E k \in Keys : PushSchema(k)
  BY <1>3 DEF NewProducer, Write, PushBatchCommit, PushSchema, Commit, ReplaceSchema, Close, Crash,
              NewConsumer, Consumer, CloseConsumer, OpenFirst, Read, Watch, WatchParent,
              ReadNames, NextFile, Wake, history
<1> QED
  BY <1>1, <1>2, <1>3 DEF Next

LEMMA InvAlways == Spec => [](misnamed \/ Inv)
<1>1. (misnamed \/ Inv) /\ [Next]_vars => (misnamed \/ Inv)'
  BY NextInv, MisnamedStays
<1> QED
  BY <1>1, InitInv, PTL DEF Spec

-----------------------------------------------------------------------------

\* A closed file carries the IV it was encrypted with and the schema it was
\* opened with, and its messages are where its header ends, unless another was
\* opened or a schema pushed meanwhile (file.go:326, 390), or the write of its
\* header failed.
THEOREM HeadersAreOwn == Spec => []HeaderIsOwn
<1>1. misnamed \/ Inv => HeaderIsOwn
  BY DEF Inv, HeaderInv, HeadersOwn, HeaderIsOwn, Own
<1> QED
  BY <1>1, InvAlways, PTL

\* While no two producers name files in one second, and none its 999th and
\* 1000th, neither a new file nor the rename of a closed one takes a name that is
\* there: a name never leads to another file than before.  That much the
\* "precaution" of file.go:281 is good for.
NothingOverwritten == misnamed' \/ \A n \in Names \cap DOMAIN dir' : dir'[n] = dir[n]

THEOREM NamesAreKept == Spec => [][NothingOverwritten]_vars
<1>1. (misnamed \/ Inv) /\ [Next]_vars => [NothingOverwritten]_vars
  <2> SUFFICES ASSUME misnamed \/ Inv, [Next]_vars PROVE [NothingOverwritten]_vars
    OBVIOUS
  <2> SUFFICES ASSUME ~misnamed' PROVE NothingOverwritten
    BY DEF NothingOverwritten
  <2> USE DEF NothingOverwritten
  <2>0. Inv
    BY MisnamedStays
  <2>1. ASSUME dir' = dir PROVE NothingOverwritten
    BY <2>1 DEF Names
  <2> SUFFICES ASSUME dir' # dir PROVE NothingOverwritten
    BY <2>1
  <2>2. ASSUME NEW k \in Keys, files[k] # NoFile, dir' = Renamed(files[k].name)
        PROVE  NothingOverwritten
    BY <2>0, <2>2, RenamedNames
  <2>3. ASSUME NEW k \in Keys, NEW t \in Seconds, NewFile(k, t) \/ NotOpened(k, t)
        PROVE  NothingOverwritten
    <3>1. CASE Named(t) /\ dir' = PutName(NewFileName(k, t))
      BY <2>0, <3>1, NewNameIsNew DEF PutName
    <3> QED
      BY <2>1, <2>3, <3>1 DEF NewFile, NotOpened, disk
  <2>4. ASSUME NEW k \in Keys, files[k] # NoFile, NEW c, NEW f, f.name = files[k].name,
               NEW n, NEW whole, NEW rename, CloseFile(c, f, n, whole, rename)
        PROVE  NothingOverwritten
    BY <2>1, <2>2, <2>4 DEF CloseFile
  <2>5. ~UNCHANGED vars
    BY DEF vars, disk
  <2>6. CASE NewProducer \/ Crash \/ NewConsumer \/ Consumer \/ CloseConsumer
    <3>1. dir' = dir
      BY <2>6 DEF NewProducer, Crash, NewConsumer, Consumer, CloseConsumer, OpenFirst, Read, Watch,
                  WatchParent, ReadNames, NextFile, Wake, disk
    <3> QED
      BY <2>1, <3>1
  <2>7. ASSUME NEW k \in Keys, NEW b \in BOOLEAN, GetFile(k, b)
        PROVE  NothingOverwritten
    <3>1. dir' = dir \/ \E t \in Seconds : NewFile(k, t) \/ NotOpened(k, t)
      BY <2>7 DEF GetFile, disk
    <3> QED
      BY <2>1, <2>3, <3>1
  <2>8. ASSUME NEW next, Commit(next)
        PROVE  NothingOverwritten
    BY <2>1, <2>8 DEF Commit
  <2>9. CASE Write
    <3> DEFINE k == call.key
               f == [files[k] EXCEPT !.buf = Append(@, NextMsg), !.size = @ + 1]
    <3>1. k \in Keys /\ files[k] # NoFile /\ IsHandle(files[k])
      BY <2>0, <2>9 DEF Write, Inv, CallInv, FilesInv, FileInv
    <3>2. f.name = files[k].name
      BY <3>1, PushFills
    <3>3. dir' = dir \/ \E n \in Writable(f), whole, rename \in BOOLEAN : CloseFile(content, f, n, whole, rename)
      BY <2>9 DEF Write, disk
    <3> HIDE DEF k, f
    <3> QED
      BY <2>1, <2>4, <3>1, <3>2, <3>3
  <2>10. CASE ReplaceSchema
    <3>1. \/ dir' = dir
          \/ /\ files[call.key] # NoFile
             /\ \E whole, rename \in BOOLEAN :
                   CloseFile(Shared(call.key), files[call.key], 0, whole, rename)
      BY <2>10 DEF ReplaceSchema
    <3>2. call.key \in Keys
      BY <2>0, <2>10 DEF ReplaceSchema, Inv, CallInv
    <3> QED
      BY <2>1, <2>4, <3>1, <3>2
  <2>11. CASE Close
    <3>1. \/ dir' = dir
          \/ \E k \in Keys : /\ files[k] # NoFile
                             /\ \E n \in Writable(files[k]), whole, rename \in BOOLEAN :
                                   CloseFile(content, files[k], n, whole, rename)
      BY <2>11 DEF Close, FilesOpen, disk
    <3> QED
      BY <2>1, <2>4, <3>1
  <2> HIDE DEF NothingOverwritten
  <2> QED
    BY <2>5, <2>6, <2>7, <2>8, <2>9, <2>10, <2>11 DEF Next, PushBatchCommit, PushSchema
<1> QED
  BY <1>1, InvAlways, PTL DEF Spec

-----------------------------------------------------------------------------
(* Messages in order. *)

IsMsgs(s) == s \in Seq(Nat) /\ Ascending(s)

LEMMA JoinMsgs ==
    ASSUME NEW s, NEW t, IsMsgs(s), IsMsgs(t), Below(Range(s), Range(t))
    PROVE  IsMsgs(s \o t) /\ Range(s \o t) = Range(s) \cup Range(t)
<1> DEFINE u == s \o t
<1>1. /\ s \in Seq(Nat) /\ t \in Seq(Nat) /\ u \in Seq(Nat)
      /\ Len(s) \in Nat /\ Len(t) \in Nat /\ Len(u) = Len(s) + Len(t)
      /\ DOMAIN s = 1 .. Len(s) /\ DOMAIN t = 1 .. Len(t) /\ DOMAIN u = 1 .. Len(s) + Len(t)
  BY DEF IsMsgs
<1>2. \A i \in 1 .. Len(s) : u[i] = s[i]
  BY <1>1
<1>3. \A i \in 1 .. Len(t) : u[Len(s) + i] = t[i]
  BY <1>1
<1> HIDE DEF u
<1>4. \A i \in DOMAIN u : \/ i \in DOMAIN s
                          \/ i - Len(s) \in DOMAIN t /\ i = Len(s) + (i - Len(s))
  BY <1>1
<1>5. Range(u) = Range(s) \cup Range(t)
  <2>1. ASSUME NEW i \in DOMAIN u PROVE u[i] \in Range(s) \cup Range(t)
    BY <1>1, <1>2, <1>3, <1>4 DEF Range
  <2>2. ASSUME NEW i \in DOMAIN s PROVE s[i] \in Range(u)
    <3>1. i \in DOMAIN u /\ u[i] = s[i]
      BY <1>1, <1>2
    <3> QED
      BY <3>1 DEF Range
  <2>3. ASSUME NEW i \in DOMAIN t PROVE t[i] \in Range(u)
    <3>1. Len(s) + i \in DOMAIN u /\ u[Len(s) + i] = t[i]
      BY <1>1, <1>3
    <3> QED
      BY <3>1 DEF Range
  <2> QED
    BY <2>1, <2>2, <2>3 DEF Range
<1>6. ASSUME NEW i \in DOMAIN u, NEW j \in DOMAIN u, i < j
      PROVE  u[i] < u[j]
  <2>1. CASE i \in DOMAIN s /\ j \in DOMAIN s
    BY <1>1, <1>2, <1>6, <2>1 DEF IsMsgs, Ascending
  <2>2. CASE i \in DOMAIN s /\ j \notin DOMAIN s
    <3>1. s[i] \in Range(s) /\ t[j - Len(s)] \in Range(t)
      BY <1>4, <2>2 DEF Range
    <3>2. u[i] = s[i] /\ u[j] = t[j - Len(s)]
      BY <1>1, <1>2, <1>3, <1>4, <2>2
    <3> QED
      BY <3>1, <3>2 DEF Below
  <2>3. CASE i \notin DOMAIN s
    <3>1. j \notin DOMAIN s
      BY <1>1, <1>6, <2>3
    <3>2. /\ i - Len(s) \in DOMAIN t /\ j - Len(s) \in DOMAIN t /\ i - Len(s) < j - Len(s)
          /\ u[i] = t[i - Len(s)] /\ u[j] = t[j - Len(s)]
      BY <1>1, <1>3, <1>4, <1>6, <2>3, <3>1
    <3> QED
      BY <3>2 DEF IsMsgs, Ascending
  <2> QED
    BY <2>1, <2>2, <2>3
<1> QED
  BY <1>1, <1>5, <1>6 DEF IsMsgs, Ascending, u

LEMMA AddMsg ==
    ASSUME NEW s, IsMsgs(s), NEW e \in Nat, \A x \in Range(s) : x < e
    PROVE  /\ IsMsgs(Append(s, e)) /\ Range(Append(s, e)) = Range(s) \cup {e}
           /\ Len(Append(s, e)) = Len(s) + 1 /\ Append(s, e)[Len(s) + 1] = e
<1> DEFINE u == Append(s, e)
<1>1. /\ s \in Seq(Nat) /\ u \in Seq(Nat) /\ Len(s) \in Nat /\ Len(u) = Len(s) + 1
      /\ DOMAIN s = 1 .. Len(s) /\ DOMAIN u = 1 .. Len(s) + 1
      /\ u[Len(s) + 1] = e /\ \A i \in 1 .. Len(s) : u[i] = s[i]
  BY DEF IsMsgs
<1> HIDE DEF u
<1>2. \A i \in DOMAIN u : i \in DOMAIN s \/ i = Len(s) + 1
  BY <1>1
<1>3. Range(u) = Range(s) \cup {e}
  <2>1. \A i \in DOMAIN u : u[i] \in Range(s) \/ u[i] = e
    BY ONLY <1>1, <1>2 DEF Range
  <2>2. \A i \in DOMAIN s : i \in DOMAIN u /\ u[i] = s[i]
    BY ONLY <1>1
  <2>3. Len(s) + 1 \in DOMAIN u
    BY ONLY <1>1
  <2> QED
    BY ONLY <1>1, <2>1, <2>2, <2>3 DEF Range
<1>4. ASSUME NEW i \in DOMAIN u, NEW j \in DOMAIN u, i < j
      PROVE  u[i] < u[j]
  <2>1. i \in DOMAIN s
    BY <1>1, <1>4
  <2>2. u[i] = s[i] /\ s[i] \in Range(s)
    BY <1>1, <2>1 DEF Range
  <2>3. CASE j \in DOMAIN s
    BY <1>1, <1>4, <2>1, <2>3 DEF IsMsgs, Ascending
  <2>4. CASE j = Len(s) + 1
    BY <1>1, <2>2, <2>4
  <2> QED
    BY <1>2, <2>3, <2>4
<1> QED
  BY <1>1, <1>3, <1>4 DEF IsMsgs, Ascending, u

\* A flush cuts the buffer in two.
LEMMA CutMsgs ==
    ASSUME NEW b, IsMsgs(b), NEW n \in 0 .. Len(b)
    PROVE  LET w == SubSeq(b, 1, n)
               u == SubSeq(b, n + 1, Len(b))
           IN  /\ IsMsgs(w) /\ Range(w) \cup Range(u) = Range(b)
               /\ Range(w) \cap Range(u) = {}
               /\ n < Len(b) => b[Len(b)] \in Range(u)
<1> DEFINE w == SubSeq(b, 1, n)
           u == SubSeq(b, n + 1, Len(b))
<1>1. /\ b \in Seq(Nat) /\ Len(b) \in Nat /\ DOMAIN b = 1 .. Len(b) /\ n \in Nat /\ n <= Len(b)
      /\ \A i \in 1 .. Len(b) : b[i] \in Nat
  BY DEF IsMsgs
<1>2. /\ w \in Seq(Nat) /\ Len(w) = n /\ DOMAIN w = 1 .. n
      /\ \A i \in 1 .. n : w[i] = b[i]
  BY <1>1
<1>3. /\ Len(u) = Len(b) - n /\ DOMAIN u = 1 .. Len(b) - n
      /\ \A i \in 1 .. Len(b) - n : u[i] = b[n + i]
  <2> DEFINE m == n + 1
  <2>1. m \in Int /\ Len(b) \in Int /\ \A i \in m .. Len(b) : b[i] \in Nat
    BY <1>1
  <2> HIDE DEF m
  <2>2. /\ SubSeq(b, m, Len(b)) \in Seq(Nat)
        /\ Len(SubSeq(b, m, Len(b))) = (IF m <= Len(b) THEN Len(b) - m + 1 ELSE 0)
        /\ \A i \in 1 .. Len(b) - m + 1 : SubSeq(b, m, Len(b))[i] = b[m + i - 1]
    BY <2>1, SubSeqProperties
  <2>3. /\ Len(b) - m + 1 = Len(b) - n /\ (~(m <= Len(b)) => 0 = Len(b) - n)
        /\ \A i \in 1 .. Len(b) - n : m + i - 1 = n + i
    <3> DEFINE L == Len(b)
    <3>1. L \in Int /\ n \in Int /\ n <= L /\ m = n + 1
      BY <1>1 DEF m
    <3> HIDE DEF L
    <3>2. L - m + 1 = L - n /\ (~(m <= L) => 0 = L - n)
      BY <3>1
    <3>3. \A i \in 1 .. L - n : m + i - 1 = n + i
      BY <3>1
    <3> QED
      BY <3>2, <3>3 DEF L
  <2>4. /\ u \in Seq(Nat) /\ Len(u) = Len(b) - n
        /\ \A i \in 1 .. Len(b) - n : u[i] = b[n + i]
    BY <2>2, <2>3 DEF u, m
  <2>5. DOMAIN u = 1 .. Len(u)
    BY <2>4
  <2> QED
    BY <2>4, <2>5
<1> HIDE DEF w, u
<1>4. \A i \in 1 .. Len(b) - n : n + i \in 1 .. Len(b) /\ n + i > n
  BY <1>1
<1>5. Range(w) = {b[i] : i \in 1 .. n}
  BY <1>2 DEF Range
<1>6. Range(u) = {b[i] : i \in n + 1 .. Len(b)}
  <2>1. ASSUME NEW x \in Range(u) PROVE \E i \in n + 1 .. Len(b) : x = b[i]
    <3>1. PICK i \in 1 .. Len(b) - n : x = u[i]
      BY <1>3, <2>1 DEF Range
    <3>2. x = b[n + i] /\ n + i \in n + 1 .. Len(b)
      BY <1>1, <1>3, <3>1
    <3> QED
      BY <3>2
  <2>2. ASSUME NEW i \in n + 1 .. Len(b) PROVE b[i] \in Range(u)
    <3>1. i - n \in 1 .. Len(b) - n /\ n + (i - n) = i
      BY <1>1
    <3>2. u[i - n] = b[i]
      BY <1>3, <3>1
    <3> QED
      BY <1>3, <3>1, <3>2 DEF Range
  <2> QED
    BY <2>1, <2>2
<1>7. Range(b) = {b[i] : i \in 1 .. Len(b)}
  BY <1>1 DEF Range
<1>8. \A i \in 1 .. n, j \in n + 1 .. Len(b) : b[i] < b[j] /\ b[i] \in Nat /\ b[j] \in Nat
  <2>1. \A i \in 1 .. n, j \in n + 1 .. Len(b) : i \in 1 .. Len(b) /\ j \in 1 .. Len(b) /\ i < j
    BY <1>1
  <2> QED
    BY <1>1, <2>1 DEF IsMsgs, Ascending
<1>9. Range(w) \cap Range(u) = {}
  <2>1. ASSUME NEW x \in Range(w), x \in Range(u) PROVE FALSE
    <3>1. PICK i \in 1 .. n : x = b[i]
      BY <1>5, <2>1
    <3>2. PICK j \in n + 1 .. Len(b) : x = b[j]
      BY <1>6, <2>1
    <3>3. b[i] < b[j] /\ b[i] \in Nat
      BY <1>8
    <3> QED
      BY <3>1, <3>2, <3>3
  <2> QED
    BY <2>1
<1>10. Range(w) \cup Range(u) = Range(b)
  <2>1. 1 .. Len(b) = 1 .. n \cup (n + 1 .. Len(b))
    BY <1>1
  <2> QED
    BY <1>5, <1>6, <1>7, <2>1
<1>11. n < Len(b) => b[Len(b)] \in Range(u)
  BY <1>1, <1>6
<1>12. Ascending(w)
  BY <1>1, <1>2 DEF IsMsgs, Ascending
<1> QED
  BY <1>2, <1>9, <1>10, <1>11, <1>12 DEF IsMsgs, w, u

-----------------------------------------------------------------------------
(* What the files of a key hold. *)

\* Names in the order in which they were chosen.
Before(n, m) == n[1] < m[1] \/ (n[1] = m[1] /\ n[2] < m[2])

\* What the files of a key have, torn ones too.
Kept(k) == UNION {Msgs(n) : n \in NamesOf(k)}

\* The key's messages ascend through its files and then its buffer, the open
\* file is the last, and nothing else is in them.
HoldKey(k) ==
    /\ IsMsgs(files[k].buf)
    /\ \A n \in NamesOf(k) :
          /\ IsMsgs(content[dir[n]].msgs) /\ Below(Msgs(n), Range(files[k].buf))
          /\ \A m \in NamesOf(k) : Before(n, m) => Below(Msgs(n), Msgs(m))
          /\ files[k] # NoFile => n = files[k].name \/ Before(n, files[k].name)
    /\ Kept(k) \cup Range(files[k].buf) = Of(k) \ lost

HoldInv ==
    /\ pushed \in Seq(Keys) /\ lost \subseteq DOMAIN pushed
    /\ \A k \in Keys : HoldKey(k)
    /\ call.op = "schema" => \A k \in Keys : files[k].buf = <<>>

LEMMA KeptBy ==
    ASSUME NEW k
    PROVE  \A x : x \in Kept(k) <=> \E n \in NamesOf(k) : x \in Msgs(n)
BY DEF Kept

LEMMA EmptyMsgs == IsMsgs(<<>>) /\ Range(<<>>) = {}
<1>1. <<>> \in Seq(Nat) /\ DOMAIN <<>> = {}
  OBVIOUS
<1> QED
  BY <1>1 DEF IsMsgs, Ascending, Range

\* Nothing of the key changes.
LEMMA UntouchedHolds ==
    ASSUME NEW k \in Keys, HoldKey(k), NamesOf(k)' = NamesOf(k),
           \A n \in NamesOf(k) : content'[dir'[n]].msgs = content[dir[n]].msgs,
           files'[k].buf = files[k].buf,
           files'[k] # NoFile => files[k] # NoFile /\ files'[k].name = files[k].name,
           Of(k)' \ lost' = Of(k) \ lost
    PROVE  HoldKey(k)'
<1>1. \A n \in NamesOf(k) : Msgs(n)' = Msgs(n)
  BY DEF Msgs
<1>2. Kept(k)' = Kept(k)
  BY <1>1 DEF Kept
<1>3. Kept(k)' \cup Range(files'[k].buf) = Of(k)' \ lost'
  BY <1>2 DEF HoldKey
<1>4. \A n \in NamesOf(k)' :
          /\ IsMsgs(content'[dir'[n]].msgs) /\ Below(Msgs(n)', Range(files'[k].buf))
          /\ \A m \in NamesOf(k)' : Before(n, m) => Below(Msgs(n)', Msgs(m)')
          /\ files'[k] # NoFile => n = files'[k].name \/ Before(n, files'[k].name)
  BY <1>1 DEF HoldKey
<1> QED
  BY <1>3, <1>4 DEF HoldKey, Below

\* The first n messages of b go to the open file of the key, which is left with
\* the name x; the others go.
LEMMA FlushHolds ==
    ASSUME NEW k \in Keys, HoldKey(k), files[k] # NoFile, files[k].name \in NamesOf(k),
           \A m \in NamesOf(k) : m \in Name,
           NEW x, x[1] = files[k].name[1], x[2] = files[k].name[2],
           x = files[k].name \/ x \notin NamesOf(k),
           NamesOf(k)' = (NamesOf(k) \ {files[k].name}) \cup {x},
           NEW b, IsMsgs(b), NEW n \in 0 .. Len(b),
           \A m \in NamesOf(k) : Below(Msgs(m), Range(b)),
           \A m \in NamesOf(k) \ {files[k].name} : content'[dir'[m]].msgs = content[dir[m]].msgs,
           content'[dir'[x]].msgs = content[dir[files[k].name]].msgs \o SubSeq(b, 1, n),
           files'[k].buf = <<>>, files'[k] # NoFile => files'[k].name = x,
           Of(k)' \ lost' = Kept(k) \cup Range(SubSeq(b, 1, n))
    PROVE  HoldKey(k)'
<1> DEFINE name == files[k].name
           w == SubSeq(b, 1, n)
           old == content[dir[name]].msgs
<1>1. IsMsgs(w) /\ Range(w) \subseteq Range(b)
  <2>1. IsMsgs(w) /\ Range(w) \cup Range(SubSeq(b, n + 1, Len(b))) = Range(b)
    BY CutMsgs
  <2> QED
    BY ONLY <2>1
<1>0. \A m : m \in NamesOf(k)' <=> m = x \/ m \in NamesOf(k) \ {name}
  OBVIOUS
<1>2. \A m \in NamesOf(k) : Below(Msgs(m), Range(w))
  BY <1>1 DEF Below
<1>3. IsMsgs(old) /\ Range(old) = Msgs(name)
  BY DEF HoldKey, Msgs
<1>4. IsMsgs(content'[dir'[x]].msgs) /\ Msgs(x)' = Msgs(name) \cup Range(w)
  <2>1. Below(Range(old), Range(w))
    BY <1>2, <1>3
  <2> HIDE DEF w, old
  <2>2. IsMsgs(old \o w) /\ Range(old \o w) = Range(old) \cup Range(w)
    BY <1>1, <1>3, <2>1, JoinMsgs
  <2>3. content'[dir'[x]].msgs = old \o w
    BY DEF old, w
  <2> QED
    BY <1>3, <2>2, <2>3 DEF Msgs
<1>5. \A m \in NamesOf(k) \ {name} : Msgs(m)' = Msgs(m) /\ IsMsgs(content'[dir'[m]].msgs)
  BY DEF HoldKey, Msgs
<1> HIDE DEF w, old
<1>6. Kept(k)' = Kept(k) \cup Range(w)
  <2>1. \A y : y \in Kept(k) <=> \E m \in NamesOf(k) : y \in Msgs(m)
    BY KeptBy
  <2>2. \A y : y \in Kept(k)' <=> \E m \in NamesOf(k)' : y \in Msgs(m)'
    BY DEF Kept
  <2>3. ASSUME NEW y \in Kept(k)' PROVE y \in Kept(k) \cup Range(w)
    <3>1. PICK m \in NamesOf(k)' : y \in Msgs(m)'
      BY <2>2
    <3>2. CASE m = x
      <4>1. y \in Msgs(name) \cup Range(w)
        BY ONLY <1>4, <3>1, <3>2
      <4>2. name \in NamesOf(k)
        OBVIOUS
      <4> QED
        BY <2>1, <4>1, <4>2
    <3>3. CASE m \in NamesOf(k) \ {name}
      BY <1>5, <2>1, <3>1, <3>3
    <3> QED
      BY <1>0, <3>2, <3>3
  <2>4. ASSUME NEW y \in Kept(k) PROVE y \in Kept(k)'
    <3>1. PICK m \in NamesOf(k) : y \in Msgs(m)
      BY <2>1
    <3>2. CASE m = name
      <4>1. y \in Msgs(x)'
        BY <1>4, <3>1, <3>2
      <4>2. x \in NamesOf(k)'
        BY <1>0
      <4> QED
        BY <2>2, <4>1, <4>2
    <3>3. CASE m \in NamesOf(k) \ {name}
      <4>1. m \in NamesOf(k)'
        BY <1>0, <3>3
      <4>2. Msgs(m)' = Msgs(m)
        BY <1>5, <3>3
      <4> QED
        BY <2>2, <3>1, <4>1, <4>2
    <3> QED
      BY <3>2, <3>3
  <2>5. ASSUME NEW y \in Range(w) PROVE y \in Kept(k)'
    BY <1>0, <1>4, <2>2
  <2> QED
    BY ONLY <2>3, <2>4, <2>5
<1>7. ASSUME NEW l \in NamesOf(k)', NEW m \in NamesOf(k)', Before(l, m)
      PROVE  Below(Msgs(l)', Msgs(m)')
  <2>1. CASE l # x /\ m # x
    <3>1. Msgs(l)' = Msgs(l) /\ Msgs(m)' = Msgs(m) /\ l \in NamesOf(k) /\ m \in NamesOf(k)
      BY <1>5, <2>1
    <3>2. Below(Msgs(l), Msgs(m))
      BY <1>7, <3>1 DEF HoldKey
    <3> QED
      BY ONLY <3>1, <3>2
  <2>2. CASE l # x /\ m = x
    <3>1. Msgs(l)' = Msgs(l) /\ l \in NamesOf(k) /\ Before(l, name)
      <4>1. x[1] = name[1] /\ x[2] = name[2] /\ Before(l, x)
        BY <1>7, <2>2
      <4>2. Before(l, name)
        BY ONLY <4>1 DEF Before
      <4>3. l \in NamesOf(k) \ {name}
        BY <1>0, <2>2
      <4> QED
        BY ONLY <1>5, <4>2, <4>3
    <3>2. Below(Msgs(l), Msgs(name)) /\ Below(Msgs(l), Range(w))
      BY <1>2, <3>1 DEF HoldKey
    <3> QED
      BY <1>4, <2>2, <3>1, <3>2 DEF Below
  <2>3. CASE l = x
    <3>1. name \in Name /\ name[1] \in Nat /\ name[2] \in Nat
      BY DEF Name
    <3>2. m \in NamesOf(k) \/ m = x
      BY <1>0
    <3>3. m \in NamesOf(k) => m \in Name /\ (m = name \/ Before(m, name))
      BY DEF HoldKey
    <3>4. m \in Name => m[1] \in Nat /\ m[2] \in Nat
      BY DEF Name
    <3>5. Before(name, m)
      BY <1>7, <2>3 DEF Before
    <3>6. m = x => ~Before(name, m)
      <4>1. x[1] = name[1] /\ x[2] = name[2]
        OBVIOUS
      <4> QED
        BY ONLY <3>1, <4>1 DEF Before
    <3>7. m \in NamesOf(k) => ~Before(name, m)
      BY ONLY <3>1, <3>3, <3>4 DEF Before
    <3> QED
      BY ONLY <3>2, <3>5, <3>6, <3>7
  <2> QED
    BY <2>1, <2>2, <2>3
<1>8. ASSUME NEW m \in NamesOf(k)', files'[k] # NoFile
      PROVE  m = x \/ Before(m, x)
  BY DEF HoldKey, Before
<1>9. Range(files'[k].buf) = {} /\ IsMsgs(files'[k].buf)
  BY EmptyMsgs
<1>10. \A m \in NamesOf(k)' : IsMsgs(content'[dir'[m]].msgs)
  BY <1>4, <1>5
<1>11. Kept(k)' \cup Range(files'[k].buf) = Of(k)' \ lost'
  BY <1>6, <1>9 DEF w
<1> QED
  BY <1>7, <1>8, <1>9, <1>10, <1>11 DEF HoldKey, Below

\* A message is added to the buffer of the key.
LEMMA FillHolds ==
    ASSUME NEW k \in Keys, HoldKey(k), files[k] # NoFile, pushed \in Seq(Keys),
           lost \subseteq DOMAIN pushed, UNCHANGED <<content, dir, lost>>,
           files'[k].buf = Append(files[k].buf, NextMsg), files'[k] # NoFile,
           files'[k].name = files[k].name, pushed' = Append(pushed, k)
    PROVE  HoldKey(k)'
<1>1. /\ NextMsg = Len(pushed) + 1 /\ NextMsg \in Nat /\ Len(pushed) \in Nat
      /\ DOMAIN pushed = 1 .. Len(pushed)
  BY DEF NextMsg
<1>2. Of(k)' = Of(k) \cup {NextMsg} /\ NextMsg \notin lost /\ \A m \in Of(k) : m < NextMsg
  <2>1. /\ DOMAIN pushed' = 1 .. Len(pushed) + 1 /\ pushed'[Len(pushed) + 1] = k
        /\ \A i \in 1 .. Len(pushed) : pushed'[i] = pushed[i]
    BY <1>1
  <2> QED
    BY <1>1, <2>1 DEF Of
<1>3. \A x \in Kept(k) \cup Range(files[k].buf) : x < NextMsg
  BY <1>2 DEF HoldKey
<1>4. /\ IsMsgs(files'[k].buf)
      /\ Range(files'[k].buf) = Range(files[k].buf) \cup {NextMsg}
  BY <1>1, <1>3, AddMsg DEF HoldKey
<1>5. /\ NamesOf(k)' = NamesOf(k) /\ Kept(k)' = Kept(k)
      /\ \A n \in NamesOf(k) : Msgs(n)' = Msgs(n)
  BY DEF NamesOf, Names, Kept, Msgs
<1>6. \A n \in NamesOf(k) : Below(Msgs(n), {NextMsg})
  BY <1>3, KeptBy DEF Below
<1>7. Kept(k)' \cup Range(files'[k].buf) = Of(k)' \ lost'
  BY <1>2, <1>4, <1>5 DEF HoldKey
<1>8. \A n \in NamesOf(k)' :
          /\ IsMsgs(content'[dir'[n]].msgs)
          /\ \A m \in NamesOf(k)' : Before(n, m) => Below(Msgs(n)', Msgs(m)')
          /\ files'[k] # NoFile => n = files'[k].name \/ Before(n, files'[k].name)
  BY <1>5 DEF HoldKey
<1>9. \A n \in NamesOf(k)' : Below(Msgs(n)', Range(files'[k].buf))
  BY <1>4, <1>5, <1>6 DEF HoldKey, Below
<1> QED
  BY <1>4, <1>7, <1>8, <1>9 DEF HoldKey, Below

\* An empty file is created, the last of the key; it may be nobody's.
LEMMA OpenHolds ==
    ASSUME NEW k \in Keys, HoldKey(k), files[k] = NoFile,
           NEW x, x[3] = k, x \notin Names, \A m \in Names : Before(m, x) /\ ~Before(x, m),
           ~Before(x, x), Names' = Names \cup {x},
           \A m \in Names : content'[dir'[m]].msgs = content[dir[m]].msgs,
           content'[dir'[x]].msgs = <<>>,
           files'[k].buf = <<>>, files'[k] = NoFile \/ files'[k].name = x,
           UNCHANGED <<pushed, lost>>
    PROVE  HoldKey(k)'
<1>1. files[k].buf = <<>>
  BY DEF NoFile
<1>2. IsMsgs(<<>>) /\ Range(<<>>) = {}
  BY EmptyMsgs
<1>3. \A m : m \in NamesOf(k)' <=> m = x \/ m \in NamesOf(k)
  BY DEF NamesOf
<1>4. NamesOf(k) \subseteq Names
  BY DEF NamesOf
<1>5. /\ Msgs(x)' = {} /\ IsMsgs(content'[dir'[x]].msgs)
      /\ \A m \in NamesOf(k) : Msgs(m)' = Msgs(m) /\ IsMsgs(content'[dir'[m]].msgs)
  BY <1>2, <1>4 DEF Msgs, HoldKey
<1>6. Kept(k)' = Kept(k)
  <2>1. \A y : y \in Kept(k)' <=> \E m \in NamesOf(k)' : y \in Msgs(m)'
    BY DEF Kept
  <2>2. \A y : y \in Kept(k) <=> \E m \in NamesOf(k) : y \in Msgs(m)
    BY KeptBy
  <2>3. ASSUME NEW y \in Kept(k)' PROVE y \in Kept(k)
    <3>1. PICK m \in NamesOf(k)' : y \in Msgs(m)'
      BY <2>1
    <3>2. m # x
      BY <1>5, <3>1
    <3>3. m \in NamesOf(k) /\ y \in Msgs(m)
      BY <1>3, <1>5, <3>1, <3>2
    <3> QED
      BY <2>2, <3>3
  <2>4. ASSUME NEW y \in Kept(k) PROVE y \in Kept(k)'
    <3>1. PICK m \in NamesOf(k) : y \in Msgs(m)
      BY <2>2
    <3>2. m \in NamesOf(k)' /\ y \in Msgs(m)'
      BY <1>3, <1>5, <3>1
    <3> QED
      BY <2>1, <3>2
  <2> QED
    BY ONLY <2>3, <2>4
<1>7. Of(k)' = Of(k)
  BY DEF Of
<1>8. Kept(k)' \cup Range(files'[k].buf) = Of(k)' \ lost'
  BY <1>1, <1>2, <1>6, <1>7 DEF HoldKey
<1>9. ASSUME NEW n \in NamesOf(k)', NEW m \in NamesOf(k)', Before(n, m)
      PROVE  Below(Msgs(n)', Msgs(m)')
  <2>1. CASE n = x
    BY <1>5, <2>1 DEF Below
  <2>2. CASE m = x
    BY <1>5, <2>2 DEF Below
  <2>3. CASE n # x /\ m # x
    <3>1. n \in NamesOf(k) /\ m \in NamesOf(k)
      BY <1>3, <2>3
    <3> QED
      BY <1>5, <1>9, <3>1 DEF HoldKey
  <2> QED
    BY <2>1, <2>2, <2>3
<1>10. \A n \in NamesOf(k)' : n = x \/ Before(n, x)
  BY <1>3, <1>4
<1>11. \A n \in NamesOf(k)' : IsMsgs(content'[dir'[n]].msgs) /\ Below(Msgs(n)', Range(files'[k].buf))
  BY <1>2, <1>3, <1>5 DEF Below
<1> QED
  BY <1>2, <1>8, <1>9, <1>10, <1>11 DEF HoldKey, Below

-----------------------------------------------------------------------------
(* The steps that write to one file, or close it. *)

\* What k's buffer b loses when its first n messages are written: the lost ones
\* are k's, and the account of k stays even.  The last of b may be a message
\* that is being pushed.
Flushes(k, b, n) ==
    /\ files[k] # NoFile /\ n \in 0 .. Len(b)
    /\ \/ b = files[k].buf /\ pushed' = pushed
       \/ /\ b = Append(files[k].buf, NextMsg)
          /\ pushed' = Append(pushed, k) \/ (pushed' = pushed /\ n < Len(b))
    /\ lost' = lost \cup (Range(SubSeq(b, n + 1, Len(b))) \cap DOMAIN pushed')

LEMMA FlushedMsgs ==
    ASSUME HoldInv, NEW k \in Keys, NEW b, NEW n, Flushes(k, b, n)
    PROVE  /\ IsMsgs(b) /\ \A m \in NamesOf(k) : Below(Msgs(m), Range(b))
           /\ pushed' \in Seq(Keys) /\ lost' \subseteq DOMAIN pushed'
           /\ Of(k)' \ lost' = Kept(k) \cup Range(SubSeq(b, 1, n))
           /\ \A j \in Keys \ {k} : Of(j)' \ lost' = Of(j) \ lost
<1> DEFINE buf == files[k].buf
           w == SubSeq(b, 1, n)
           u == SubSeq(b, n + 1, Len(b))
<1>1. /\ NextMsg = Len(pushed) + 1 /\ NextMsg \in Nat /\ Len(pushed) \in Nat
      /\ DOMAIN pushed = 1 .. Len(pushed) /\ pushed \in Seq(Keys)
  BY DEF NextMsg, HoldInv
<1>2. /\ HoldKey(k) /\ lost \subseteq DOMAIN pushed /\ Of(k) \subseteq DOMAIN pushed
      /\ NextMsg \notin DOMAIN pushed /\ \A m \in DOMAIN pushed : m < NextMsg
  BY <1>1 DEF HoldInv, Of
<1>3. /\ IsMsgs(buf) /\ Kept(k) \cup Range(buf) = Of(k) \ lost
      /\ \A m \in NamesOf(k) : Below(Msgs(m), Range(buf))
      /\ \A x \in Kept(k) \cup Range(buf) : x < NextMsg
  BY <1>2 DEF HoldKey
<1>4. /\ Len(buf) \in Nat /\ IsMsgs(Append(buf, NextMsg))
      /\ Range(Append(buf, NextMsg)) = Range(buf) \cup {NextMsg}
      /\ Len(Append(buf, NextMsg)) = Len(buf) + 1 /\ Append(buf, NextMsg)[Len(buf) + 1] = NextMsg
  <2> HIDE DEF buf
  <2>1. \A x \in Range(buf) : x < NextMsg
    BY <1>3
  <2>2. Len(buf) \in Nat
    BY <1>3 DEF IsMsgs
  <2> QED
    BY <1>1, <1>3, <2>1, <2>2, AddMsg
<1>5. /\ IsMsgs(b) /\ Range(b) \subseteq Range(buf) \cup {NextMsg} /\ n \in 0 .. Len(b)
      /\ b # buf => NextMsg = b[Len(b)]
  BY <1>3, <1>4 DEF Flushes
<1>6. \A m \in NamesOf(k) : Below(Msgs(m), Range(b))
  BY <1>3, <1>5, KeptBy DEF Below
<1>7. /\ Range(w) \cup Range(u) = Range(b) /\ Range(w) \cap Range(u) = {}
      /\ n < Len(b) => b[Len(b)] \in Range(u)
  BY <1>5, CutMsgs
<1>8. Kept(k) \cap Range(b) = {}
  <2>1. ASSUME NEW x, x \in Kept(k), x \in Range(b) PROVE FALSE
    <3>1. PICK m \in NamesOf(k) : x \in Msgs(m)
      BY <2>1, KeptBy
    <3>2. x < x
      BY <1>6, <2>1, <3>1 DEF Below
    <3>3. x \in Nat
      BY <1>5, <2>1 DEF IsMsgs, Range
    <3> QED
      BY ONLY <3>2, <3>3
  <2> QED
    BY ONLY <2>1
<1> HIDE DEF w, u, buf
<1>9. /\ lost' = lost \cup (Range(u) \cap DOMAIN pushed')
      /\ \/ b = buf /\ pushed' = pushed
         \/ b = Append(buf, NextMsg) /\ pushed' = Append(pushed, k)
         \/ b = Append(buf, NextMsg) /\ pushed' = pushed /\ n < Len(b)
  BY DEF Flushes, u, buf
<1>10. CASE b = buf /\ pushed' = pushed
  <2>1. \A j : Of(j)' = Of(j)
    BY <1>10 DEF Of
  <2>2. Range(u) \subseteq Of(k) /\ lost' = lost \cup Range(u)
    BY <1>2, <1>3, <1>7, <1>9, <1>10
  <2>3. Of(k)' \ lost' = Kept(k) \cup Range(w)
    BY <1>3, <1>7, <1>8, <1>10, <2>1, <2>2
  <2>4. \A j \in Keys \ {k} : Of(j)' \ lost' = Of(j) \ lost
    BY <2>1, <2>2 DEF Of
  <2> QED
    BY <1>1, <1>2, <1>5, <1>6, <1>9, <1>10, <2>2, <2>3, <2>4 DEF w
<1>11. CASE b = Append(buf, NextMsg) /\ pushed' = Append(pushed, k)
  <2>1. /\ DOMAIN pushed' = 1 .. Len(pushed) + 1 /\ pushed'[Len(pushed) + 1] = k
        /\ \A i \in 1 .. Len(pushed) : pushed'[i] = pushed[i]
        /\ pushed' \in Seq(Keys)
    BY <1>1, <1>11
  <2>2. Of(k)' = Of(k) \cup {NextMsg} /\ \A j \in Keys \ {k} : Of(j)' = Of(j)
    BY <1>1, <2>1 DEF Of
  <2>3. DOMAIN pushed' = DOMAIN pushed \cup {NextMsg}
    BY <1>1, <2>1
  <2>4. Range(u) \subseteq Of(k)' /\ lost' = lost \cup Range(u)
    BY <1>2, <1>3, <1>4, <1>7, <1>9, <1>11, <2>2, <2>3
  <2>5. Of(k)' \ lost' = Kept(k) \cup Range(w)
    BY <1>2, <1>3, <1>4, <1>7, <1>8, <1>11, <2>2, <2>4
  <2>6. \A j \in Keys \ {k} : Of(j)' \ lost' = Of(j) \ lost
    BY <2>2, <2>4 DEF Of
  <2> QED
    BY <1>1, <1>2, <1>5, <1>6, <1>9, <2>1, <2>3, <2>5, <2>6 DEF w
<1>12. CASE b = Append(buf, NextMsg) /\ pushed' = pushed /\ n < Len(b)
  <2>1. \A j : Of(j)' = Of(j)
    BY <1>12 DEF Of
  <2>2. NextMsg \in Range(u)
    BY <1>4, <1>7, <1>12
  <2>3. Range(u) \cap DOMAIN pushed \subseteq Of(k) /\ lost' = lost \cup (Range(u) \cap DOMAIN pushed)
    BY <1>2, <1>3, <1>4, <1>7, <1>9, <1>12
  <2>4. Of(k)' \ lost' = Kept(k) \cup Range(w)
    BY <1>2, <1>3, <1>4, <1>7, <1>8, <1>12, <2>1, <2>2, <2>3
  <2>5. \A j \in Keys \ {k} : Of(j)' \ lost' = Of(j) \ lost
    BY <2>1, <2>3 DEF Of
  <2> QED
    BY <1>1, <1>2, <1>5, <1>6, <1>9, <1>12, <2>4, <2>5 DEF w
<1> QED
  BY <1>9, <1>10, <1>11, <1>12

LEMMA NamesTyped ==
    ASSUME Inv
    PROVE  \A n \in Names : n \in Name /\ n[1] \in Nat /\ n[2] \in Nat /\ dir[n] \in 1 .. Len(content)
BY DEF Inv, NamesInv, DirInv, Name

\* The directory after the open file of k was closed, or not.
LEMMA NamesAfter ==
    ASSUME Inv, NEW k \in Keys, files[k] # NoFile, dir' \in {dir, Renamed(files[k].name)}
    PROVE  LET name == files[k].name
               x == IF dir' = dir THEN name ELSE TrimOpen(name)
           IN  /\ name \in NamesOf(k) /\ dir[name] = files[k].id
               /\ x[1] = name[1] /\ x[2] = name[2] /\ x[3] = k /\ (x = name \/ x \notin Names)
               /\ Names' = (Names \ {name}) \cup {x} /\ dir'[x] = files[k].id
               /\ \A n \in Names \ {name} : dir'[n] = dir[n] /\ dir[n] # files[k].id
               /\ NamesOf(k)' = (NamesOf(k) \ {name}) \cup {x}
               /\ \A j \in Keys \ {k} : NamesOf(j)' = NamesOf(j) /\ name \notin NamesOf(j)
<1> DEFINE name == files[k].name
           t == TrimOpen(name)
           x == IF dir' = dir THEN name ELSE t
<1>1. /\ FileInv(k) /\ name \in Names /\ name \in Name /\ name[3] = k
      /\ dir[name] = files[k].id
      /\ \A n \in Names \ {name} : dir[n] # files[k].id
  BY DEF Inv, FilesInv, FileInv, IsHandle
<1>2. t[1] = name[1] /\ t[2] = name[2] /\ t[3] = name[3]
  BY <1>1, Trimmed
<1>3. x[1] = name[1] /\ x[2] = name[2] /\ x[3] = k
  BY <1>1, <1>2
<1>4. CASE dir' = dir
  BY <1>1, <1>3, <1>4 DEF NamesOf, Names
<1>5. CASE dir' = Renamed(name) /\ dir' # dir
  <2>1. /\ DOMAIN dir' = (Names \ {name}) \cup {t} /\ t \notin Names /\ dir'[t] = files[k].id
        /\ \A n \in Names \ {name} : dir'[n] = dir[n]
    BY <1>5, RenamedNames
  <2>2. Names' = (Names \ {name}) \cup {t}
    BY <2>1 DEF Names
  <2> HIDE DEF t, name
  <2>3. x = t
    BY <1>5
  <2> HIDE DEF x
  <2>4. NamesOf(k)' = (NamesOf(k) \ {name}) \cup {t}
    BY <1>1, <1>3, <2>2, <2>3 DEF NamesOf
  <2>5. \A j \in Keys \ {k} : NamesOf(j)' = NamesOf(j) /\ name \notin NamesOf(j)
    BY <1>1, <1>3, <2>2, <2>3 DEF NamesOf
  <2>6. name \in NamesOf(k)
    BY <1>1 DEF NamesOf
  <2> QED
    BY <1>1, <1>3, <2>1, <2>2, <2>3, <2>4, <2>5, <2>6 DEF x, t, name
<1> QED
  BY <1>4, <1>5

\* What a step does to the disk: every name is kept or trimmed, a name that was
\* not there is a new file's, and the files that are there only grow, those
\* without an open name not even that.
From(n, m) == (m = n \/ (IsOpen(n) /\ m = TrimOpen(n))) /\ dir'[m] = dir[n]

Fresh(m) ==
    /\ m \in Name /\ m[1] > 0 /\ m[3] \in Keys /\ dir'[m] = Len(content) + 1
    /\ sec <= m[1] /\ (m[1] = sec => seqno > 0 /\ Place(seqno) < m[2])
    /\ m[1] = sec' /\ m[2] = Place(seqno')

Prefix(s, t) == DOMAIN s \subseteq DOMAIN t /\ \A p \in DOMAIN s : t[p] = s[p]

Moves ==
    /\ \A n \in Names :
          /\ \E m \in Names' : From(n, m)
          /\ Prefix(content[dir[n]].msgs, content'[dir[n]].msgs)
          /\ ~IsOpen(n) => content'[dir[n]].msgs = content[dir[n]].msgs
    /\ \A m \in Names' : Fresh(m) \/ \E n \in Names : From(n, m)

LEMMA StillMoves ==
    ASSUME dir' = dir, \A n \in Names : content'[dir[n]].msgs = content[dir[n]].msgs
    PROVE  Moves
<1>1. Names' = Names /\ \A n \in Names : From(n, n)
  BY DEF Names, From
<1> QED
  BY <1>1 DEF Moves, Prefix

LEMMA ExtendedPrefix ==
    ASSUME NEW s, NEW t, IsMsgs(s), IsMsgs(t)
    PROVE  Prefix(s, s \o t)
<1>1. s \in Seq(Nat) /\ t \in Seq(Nat)
  BY DEF IsMsgs
<1>2. /\ Len(s) \in Nat /\ Len(t) \in Nat /\ DOMAIN s = 1 .. Len(s)
      /\ DOMAIN (s \o t) = 1 .. Len(s) + Len(t)
      /\ \A p \in 1 .. Len(s) : (s \o t)[p] = s[p]
  BY <1>1
<1>3. 1 .. Len(s) \subseteq 1 .. Len(s) + Len(t)
  BY <1>2
<1> QED
  BY <1>2, <1>3 DEF Prefix

LEMMA OneFlushHolds ==
    ASSUME Inv, HoldInv, NEW k \in Keys, NEW b, NEW n, Flushes(k, b, n),
           \A i \in 1 .. Len(content) :
               content'[i].msgs = IF i = files[k].id THEN content[i].msgs \o SubSeq(b, 1, n)
                                  ELSE content[i].msgs,
           dir' \in {dir, Renamed(files[k].name)},
           NEW g, files' = [files EXCEPT ![k] = g], g.buf = <<>>,
           g # NoFile => dir' = dir /\ g.name = files[k].name,
           call'.op # "schema"
    PROVE  HoldInv' /\ Moves
<1> DEFINE name == files[k].name
           x == IF dir' = dir THEN name ELSE TrimOpen(name)
<1>1. /\ IsMsgs(b) /\ \A m \in NamesOf(k) : Below(Msgs(m), Range(b))
      /\ pushed' \in Seq(Keys) /\ lost' \subseteq DOMAIN pushed'
      /\ Of(k)' \ lost' = Kept(k) \cup Range(SubSeq(b, 1, n))
      /\ \A j \in Keys \ {k} : Of(j)' \ lost' = Of(j) \ lost
  BY FlushedMsgs
<1>2. /\ name \in NamesOf(k) /\ dir[name] = files[k].id
      /\ x[1] = name[1] /\ x[2] = name[2] /\ x[3] = k /\ (x = name \/ x \notin Names)
      /\ Names' = (Names \ {name}) \cup {x} /\ dir'[x] = files[k].id
      /\ \A m \in Names \ {name} : dir'[m] = dir[m] /\ dir[m] # files[k].id
      /\ NamesOf(k)' = (NamesOf(k) \ {name}) \cup {x}
      /\ \A j \in Keys \ {k} : NamesOf(j)' = NamesOf(j) /\ name \notin NamesOf(j)
  BY NamesAfter DEF Flushes
<1>3. \A m \in Names : m \in Name /\ dir[m] \in 1 .. Len(content)
  BY NamesTyped
<1>4. \A j : NamesOf(j) \subseteq Names
  BY DEF NamesOf
<1>5. \A m \in Names \ {name} : content'[dir'[m]].msgs = content[dir[m]].msgs
  BY <1>2, <1>3
<1>6. content'[dir'[x]].msgs = content[dir[name]].msgs \o SubSeq(b, 1, n)
  BY <1>2, <1>3, <1>4
<1>7. files' = [j \in Keys |-> IF j = k THEN g ELSE files[j]]
  BY DEF Inv, FilesInv
<1>8. \A j \in Keys : HoldKey(j)
  BY DEF HoldInv
<1>9. HoldKey(k)'
  <2>1. files'[k].buf = <<>> /\ (files'[k] # NoFile => files'[k].name = x)
    BY <1>7
  <2>2. \A m \in NamesOf(k) : m \in Name
    BY <1>3, <1>4
  <2>3. \A m \in NamesOf(k) \ {name} : content'[dir'[m]].msgs = content[dir[m]].msgs
    BY <1>4, <1>5
  <2>4. x = name \/ x \notin NamesOf(k)
    BY <1>2, <1>4
  <2>5. files[k] # NoFile /\ n \in 0 .. Len(b) /\ HoldKey(k)
    BY <1>8 DEF Flushes
  <2>6. /\ x[1] = name[1] /\ x[2] = name[2] /\ name \in NamesOf(k)
        /\ NamesOf(k)' = (NamesOf(k) \ {name}) \cup {x}
    BY <1>2
  <2>7. /\ IsMsgs(b) /\ \A m \in NamesOf(k) : Below(Msgs(m), Range(b))
        /\ Of(k)' \ lost' = Kept(k) \cup Range(SubSeq(b, 1, n))
    BY <1>1
  <2> HIDE DEF x
  <2> QED
    BY ONLY <1>6, <2>1, <2>2, <2>3, <2>4, <2>5, <2>6, <2>7, k \in Keys, FlushHolds
<1>10. ASSUME NEW j \in Keys \ {k} PROVE HoldKey(j)'
  <2>1. files'[j] = files[j] /\ HoldKey(j) /\ j \in Keys
    BY <1>7, <1>8
  <2>2. \A m \in NamesOf(j) : content'[dir'[m]].msgs = content[dir[m]].msgs
    BY <1>2, <1>4, <1>5
  <2> HIDE DEF x
  <2> QED
    BY <1>1, <1>2, <2>1, <2>2, UntouchedHolds
<1>11. HoldInv'
  BY <1>1, <1>9, <1>10 DEF HoldInv
<1>12. Moves
  <2>1. FileInv(k) /\ name[4] = 1 /\ name \in Names /\ IsMsgs(content[dir[name]].msgs)
    BY <1>2, <1>8 DEF Inv, FilesInv, FileInv, HoldKey, Flushes
  <2>2. From(name, x)
    BY <1>2, <2>1 DEF From, IsOpen
  <2>3. \A m \in Names \ {name} : m \in Names' /\ From(m, m)
    BY <1>2 DEF From
  <2>4. \A m \in Names \ {name} : content'[dir[m]].msgs = content[dir[m]].msgs
    BY <1>2, <1>3
  <2>5. Prefix(content[dir[name]].msgs, content'[dir[name]].msgs)
    <3>1. IsMsgs(SubSeq(b, 1, n))
      BY <1>1, CutMsgs DEF Flushes
    <3>2. content'[dir[name]].msgs = content[dir[name]].msgs \o SubSeq(b, 1, n)
      BY <1>2, <1>3, <2>1
    <3> DEFINE w == SubSeq(b, 1, n)
               s == content[dir[name]].msgs
    <3> HIDE DEF w, s
    <3>3. Prefix(s, s \o w)
      BY <2>1, <3>1, ExtendedPrefix DEF w, s
    <3> QED
      BY <3>2, <3>3 DEF w, s
  <2>6. \A m \in Names' : m = x \/ m \in Names \ {name}
    BY <1>2
  <2>7. x \in Names' /\ IsOpen(name)
    BY <1>2, <2>1 DEF IsOpen
  <2> HIDE DEF x, name
  <2>8. \A m \in Names \ {name} : Prefix(content[dir[m]].msgs, content'[dir[m]].msgs)
    BY <2>4 DEF Prefix
  <2> QED
    BY <2>1, <2>2, <2>3, <2>4, <2>5, <2>6, <2>7, <2>8 DEF Moves
<1> QED
  BY <1>11, <1>12

\* What the steps do to the messages of the files.
LEMMA SharedMsgs ==
    ASSUME Inv, NEW k \in Keys
    PROVE  /\ Shared(k) = [i \in 1 .. Len(content) |-> Shared(k)[i]]
           /\ \A i \in 1 .. Len(content) : Shared(k)[i].msgs = content[i].msgs
           /\ \A i \in 1 .. Len(content) :
                 (\A j \in FilesOpen : files[j].id # i) => Shared(k)[i] = content[i]
<1> DEFINE others == {files[j].id : j \in FilesOpen \ {k}}
<1>1. DOMAIN content = 1 .. Len(content)
  BY KeyIn
<1>2. Shared(k) = [i \in 1 .. Len(content) |->
              IF i \in others THEN [content[i] EXCEPT !.shared = TRUE] ELSE content[i]]
  BY <1>1 DEF Shared
<1>4. \A i : (\A j \in FilesOpen : files[j].id # i) => i \notin others
  OBVIOUS
<1> HIDE DEF others
<1>3. \A i \in 1 .. Len(content) : [content[i] EXCEPT !.shared = TRUE].msgs = content[i].msgs
  BY DEF Inv, DirInv, IsFile
<1> QED
  BY <1>2, <1>3, <1>4

\* The messages of f's file after the first n of its buffer were written.
Extended(c, f, n) == c[f.id].msgs \o SubSeq(f.buf, 1, n)

LEMMA WrittenMsgs ==
    ASSUME NEW c, c \in Seq(Range(c)), NEW f, f.id \in 1 .. Len(c),
           IsFile(c[f.id]), NEW n, content' = Written(c, f, n)
    PROVE  /\ \A i \in 1 .. Len(c) : content'[i].msgs = IF i = f.id THEN Extended(c, f, n) ELSE c[i].msgs
           /\ \A i \in 1 .. Len(c) : i # f.id => content'[i] = c[i]
<1>0. DOMAIN c = 1 .. Len(c) /\ c = [i \in 1 .. Len(c) |-> c[i]]
  BY SeqIsFunction
<1>1. content' = [c EXCEPT ![f.id] = [c[f.id] EXCEPT !.msgs = Extended(c, f, n)]]
  BY DEF Written, Extended
<1>2. content' = [i \in 1 .. Len(c) |-> IF i = f.id THEN [c[i] EXCEPT !.msgs = Extended(c, f, n)] ELSE c[i]]
  BY <1>0, <1>1 DEF Written
<1>3. [c[f.id] EXCEPT !.msgs = Extended(c, f, n)].msgs = Extended(c, f, n)
  BY DEF IsFile
<1> QED
  BY <1>2, <1>3

LEMMA ClosedMsgs ==
    ASSUME NEW c, c \in Seq(Range(c)), NEW f, f.id \in 1 .. Len(c),
           IsFile(c[f.id]), NEW n, NEW whole, NEW rename, CloseFile(c, f, n, whole, rename)
    PROVE  /\ \A i \in 1 .. Len(c) : content'[i].msgs = IF i = f.id THEN Extended(c, f, n) ELSE c[i].msgs
           /\ \A i \in 1 .. Len(c) : i # f.id => content'[i] = c[i]
           /\ dir' \in {dir, Renamed(f.name)}
<1> DEFINE d == Written(c, f, n)
           hdr == IF whole THEN header ELSE NoHeader
<1>0. DOMAIN c = 1 .. Len(c) /\ c = [i \in 1 .. Len(c) |-> c[i]]
  BY SeqIsFunction
<1>1. d = [c EXCEPT ![f.id] = [c[f.id] EXCEPT !.msgs = Extended(c, f, n)]]
  BY DEF Written, Extended
<1>2. PICK torn : content' = [d EXCEPT ![f.id].hdr = hdr, ![f.id].torn = torn]
  BY DEF CloseFile
<1> HIDE DEF d, hdr
<1>3. d = [i \in 1 .. Len(c) |-> IF i = f.id THEN [c[i] EXCEPT !.msgs = Extended(c, f, n)] ELSE c[i]]
  BY <1>0, <1>1 DEF Written
<1>4. content' = [i \in 1 .. Len(c) |->
                     IF i = f.id THEN [d[i] EXCEPT !.hdr = hdr, !.torn = torn] ELSE d[i]]
  BY <1>2, <1>3
<1>5. content'[f.id].msgs = Extended(c, f, n)
  <2>1. /\ content'[f.id] = [d[f.id] EXCEPT !.hdr = hdr, !.torn = torn]
        /\ d[f.id] = [c[f.id] EXCEPT !.msgs = Extended(c, f, n)]
    BY <1>3, <1>4
  <2>2. d[f.id].msgs = Extended(c, f, n) /\ IsFile(d[f.id])
    BY <2>1 DEF IsFile
  <2> QED
    BY <2>1, <2>2 DEF IsFile
<1>6. \A i \in 1 .. Len(c) : i # f.id => content'[i] = c[i]
  BY <1>3, <1>4
<1>7. dir' \in {dir, Renamed(f.name)}
  BY DEF CloseFile
<1>8. \A i \in 1 .. Len(c) : content'[i].msgs = IF i = f.id THEN Extended(c, f, n) ELSE c[i].msgs
  BY ONLY <1>5, <1>6
<1> QED
  BY ONLY <1>6, <1>7, <1>8

LEMMA UnwrittenHold ==
    ASSUME HoldInv, UNCHANGED <<content, dir, files, pushed, lost>>,
           call'.op = "schema" => call.op = "schema"
    PROVE  HoldInv' /\ Moves
<1>1. \A k \in Keys : HoldKey(k)'
  BY DEF HoldInv, HoldKey, NamesOf, Names, Msgs, Kept, Of
<1> QED
  BY <1>1, StillMoves DEF HoldInv

\* A file is added, and k has it open or not.
LEMMA AddedHold ==
    ASSUME Inv, HoldInv, NEW k \in Keys, files[k] = NoFile, NEW t \in Seconds, Named(t), ~misnamed',
           NEW c, c \in Seq(Range(c)), Len(c) = Len(content),
           \A i \in 1 .. Len(content) : c[i].msgs = content[i].msgs,
           NEW file, file.msgs = <<>>, content' = Append(c, file),
           dir' = [m \in Names \cup {NewFileName(k, t)} |->
                      IF m = NewFileName(k, t) THEN Len(content) + 1 ELSE dir[m]],
           NEW handle, files' = [files EXCEPT ![k] = handle],
           handle.buf = <<>>, handle = NoFile \/ handle.name = NewFileName(k, t),
           UNCHANGED <<pushed, lost>>, call'.op # "schema"
    PROVE  HoldInv' /\ Moves
<1> DEFINE x == NewFileName(k, t)
           id == Len(content) + 1
<1>1. HoldKey(k)
  BY DEF HoldInv
<1>2. /\ t \in Nat /\ sec <= t /\ t > 0 /\ x \notin Names
      /\ \A m \in Names : m[1] < t \/ (m[1] = t /\ m[2] < Place(seqno + 1))
  BY NewNameIsNew
<1>3. x \in Name /\ x[1] = t /\ x[2] = Place(seqno + 1) /\ x[3] = k
  BY <1>2, NewNameType
<1> HIDE DEF x, id
<1>4. /\ Len(content') = id /\ content'[id] = file
      /\ \A i \in 1 .. Len(content) : content'[i].msgs = content[i].msgs
  <2>1. /\ Len(content') = Len(c) + 1 /\ content'[Len(c) + 1] = file
        /\ \A i \in 1 .. Len(c) : content'[i] = c[i]
    BY AppendFile
  <2> QED
    BY <2>1 DEF id
<1>5. /\ Names' = Names \cup {x} /\ dir'[x] = id
      /\ \A m \in Names : dir'[m] = dir[m] /\ m # x
  BY <1>2 DEF Names, x, id
<1>6. /\ \A m \in Names : content'[dir'[m]].msgs = content[dir[m]].msgs
      /\ content'[dir'[x]].msgs = <<>>
  BY <1>4, <1>5, NamesTyped
<1>7. x[1] \in Nat /\ x[2] \in Nat /\ \A m \in Names : m[1] \in Nat /\ m[2] \in Nat
  BY <1>3, NamesTyped DEF Name
<1>8. \A m \in Names : Before(m, x) /\ ~Before(x, m)
  BY <1>2, <1>3, <1>7 DEF Before
<1>9. ~Before(x, x)
  BY <1>7 DEF Before
<1>10. files' = [j \in Keys |-> IF j = k THEN handle ELSE files[j]]
  BY DEF Inv, FilesInv
<1>11. files'[k].buf = <<>> /\ (files'[k] = NoFile \/ files'[k].name = x)
  BY <1>10 DEF x
<1>12. HoldKey(k)'
  BY <1>1, <1>3, <1>5, <1>6, <1>8, <1>9, <1>11, OpenHolds
<1>13. ASSUME NEW j \in Keys \ {k} PROVE HoldKey(j)'
  <2>1. HoldKey(j) /\ files'[j] = files[j] /\ NamesOf(j) \subseteq Names
    BY <1>10 DEF HoldInv, NamesOf
  <2>2. NamesOf(j)' = NamesOf(j)
    BY <1>3, <1>5 DEF NamesOf
  <2>3. Of(j)' \ lost' = Of(j) \ lost
    BY DEF Of
  <2>4. \A m \in NamesOf(j) : content'[dir'[m]].msgs = content[dir[m]].msgs
    BY <1>6, <2>1
  <2> QED
    BY <2>1, <2>2, <2>3, <2>4, UntouchedHolds
<1>14. \A j \in Keys : HoldKey(j)'
  BY <1>12, <1>13
<1>15. Moves
  <2>1. Fresh(x)
    <3>1. x[1] = sec => seqno > 0 /\ Place(seqno) < x[2]
      BY <1>3, NewNameIsNew
    <3>2. sec' = t /\ seqno' = seqno + 1
      BY DEF Named
    <3> QED
      BY <1>2, <1>3, <1>5, <3>1, <3>2 DEF Fresh, id
  <2>2. \A m \in Names : From(m, m) /\ m \in Names'
    BY <1>5 DEF From
  <2>3. \A m \in Names : content'[dir[m]].msgs = content[dir[m]].msgs
    BY <1>5, <1>6
  <2> QED
    BY <1>5, <2>1, <2>2, <2>3 DEF Moves, Prefix
<1> QED
  BY <1>14, <1>15 DEF HoldInv

LEMMA NewFileHold ==
    ASSUME Inv, HoldInv, NEW k \in Keys, files[k] = NoFile, NEW t \in Seconds, NewFile(k, t),
           ~misnamed', UNCHANGED <<pushed, lost>>, call'.op # "schema"
    PROVE  HoldInv' /\ Moves
<1> DEFINE n == NewFileName(k, t)
           c == Shared(k)
           file == NewContent(Header(n))
           handle == [name |-> n, id |-> Len(content) + 1, size |-> Len(file.msgs),
                      buf |-> <<>>, broken |-> FALSE]
<1>1. Named(t) /\ n \notin Names /\ FileId(n) = Len(content) + 1
  BY NewNameIsNew, NewHeaderIs DEF NewFile
<1>2. /\ content' = Append(c, file) /\ files' = [files EXCEPT ![k] = handle]
      /\ dir' = [m \in Names \cup {n} |-> IF m = n THEN Len(content) + 1 ELSE dir[m]]
  <2> HIDE DEF n, c
  <2> QED
    BY <1>1 DEF NewFile, PutFile, PutName, n, c
<1>3. file.msgs = <<>> /\ handle.buf = <<>> /\ handle.name = n
  BY DEF NewContent
<1>4. /\ c \in Seq(Range(c)) /\ Len(c) = Len(content)
      /\ \A i \in 1 .. Len(content) : c[i].msgs = content[i].msgs
  BY SharedFiles, SharedMsgs
<1> HIDE DEF c, file, handle
<1> QED
  BY <1>1, <1>2, <1>3, <1>4, AddedHold

LEMMA NotOpenedHold ==
    ASSUME Inv, HoldInv, NEW k \in Keys, files[k] = NoFile, NEW t \in Seconds, NotOpened(k, t),
           ~misnamed', UNCHANGED <<pushed, lost>>, call'.op # "schema"
    PROVE  HoldInv' /\ Moves
<1> DEFINE n == NewFileName(k, t)
           file == NewContent(NoHeader)
<1>1. files' = files
  BY NotOpenedCases
<1>2. CASE UNCHANGED <<content, dir>>
  BY <1>1, <1>2, UnwrittenHold
<1>3. CASE /\ Named(t)
           /\ \E c \in {Shared(k), content} : content' = Append(c, file)
           /\ dir' = [m \in Names \cup {n} |-> IF m = n THEN Len(content) + 1 ELSE dir[m]]
  <2>1. PICK c \in {Shared(k), content} : content' = Append(c, file)
    BY <1>3
  <2>2. /\ c \in Seq(Range(c)) /\ Len(c) = Len(content)
        /\ \A i \in 1 .. Len(content) : c[i].msgs = content[i].msgs
    <3>1. CASE c = Shared(k)
      BY <3>1, SharedFiles, SharedMsgs
    <3>2. CASE c = content
      BY <3>2 DEF Inv, DirInv
    <3> QED
      BY <3>1, <3>2
  <2>3. file.msgs = <<>>
    BY DEF NewContent
  <2>4. files' = [files EXCEPT ![k] = NoFile] /\ NoFile.buf = <<>>
    BY <1>1 DEF Inv, FilesInv, NoFile
  <2> HIDE DEF file
  <2> QED
    BY <1>3, <2>1, <2>2, <2>3, <2>4, AddedHold
<1> QED
  BY <1>2, <1>3, NotOpenedCases

LEMMA GetFileHold ==
    ASSUME Inv, HoldInv, NEW k \in Keys, NEW b \in BOOLEAN, GetFile(k, b), ~misnamed'
    PROVE  HoldInv' /\ Moves
<1>1. call'.op \in {"write", "idle"} /\ UNCHANGED <<pushed, lost>>
  BY DEF GetFile, Call, Idle
<1>2. CASE files[k] # NoFile
  <2>1. UNCHANGED <<content, dir, files>>
    BY <1>2 DEF GetFile, disk
  <2> QED
    BY <1>1, <2>1, UnwrittenHold
<1>3. CASE files[k] = NoFile
  <2>1. PICK t \in Seconds : NewFile(k, t) \/ NotOpened(k, t)
    BY <1>3 DEF GetFile
  <2>2. CASE NewFile(k, t)
    BY <1>1, <1>3, <2>2, NewFileHold
  <2>3. CASE NotOpened(k, t)
    BY <1>1, <1>3, <2>3, NotOpenedHold
  <2> QED
    BY <2>1, <2>2, <2>3
<1> QED
  BY <1>2, <1>3

\* The handle that push fills, and one that was flushed.
LEMMA FilledBuf ==
    ASSUME NEW f, IsHandle(f), NEW b, NEW z
    PROVE  [f EXCEPT !.buf = b, !.size = z].buf = b
BY DEF IsHandle

LEMMA FlushedBuf ==
    ASSUME NEW f, IsHandle(f), NEW n
    PROVE  Flushed(f, n).buf = <<>>
BY DEF IsHandle, Flushed

LEMMA WriteHold == ASSUME Inv, HoldInv, Write PROVE HoldInv' /\ Moves
<1>k. call.op = "write" /\ call.key \in Keys
  BY DEF Write, Inv, CallInv
<1> SUFFICES ASSUME NEW k \in Keys, k = call.key PROVE HoldInv' /\ Moves
  BY <1>k
<1> DEFINE b == Append(files[k].buf, NextMsg)
           z == files[k].size + 1
           f == [files[k] EXCEPT !.buf = b, !.size = z]
           close == Full(f.size)
<1>1. call.op = "write" /\ call' = Idle /\ call'.op # "schema"
  BY DEF Write, Idle
<1>2. k \in Keys /\ files[k] # NoFile /\ FileInv(k) /\ IsHandle(files[k]) /\ HoldKey(k)
  BY <1>1 DEF Inv, CallInv, FilesInv, FileInv, HoldInv
<1>3. \/ UNCHANGED <<content, dir, files, pushed, lost>>
      \/ /\ UNCHANGED <<content, dir, lost>>
         /\ files' = [files EXCEPT ![k] = f] /\ pushed' = Append(pushed, k)
      \/ \E n \in Writable(f), whole, rename \in BOOLEAN :
            LET fails  == Failed(f, n)
                closes == close /\ ~(call.batch /\ fails)
            IN  /\ IF closes THEN CloseFile(content, f, n, whole, rename)
                   ELSE content' = Written(content, f, n) /\ UNCHANGED dir
                /\ files' = [files EXCEPT ![k] = IF closes THEN NoFile ELSE Flushed(f, n)]
                /\ pushed' = IF call.batch /\ fails THEN pushed ELSE Append(pushed, k)
                /\ lost' = lost \cup (Unwritten(f, n) \cap DOMAIN pushed')
  BY DEF Write, disk
<1> HIDE DEF close, b, z
<1>4. /\ IsHandle(f) /\ f # NoFile /\ f.name = files[k].name /\ f.id = files[k].id /\ f.buf = b
  <2>1. IsHandle(f) /\ f # NoFile /\ f.name = files[k].name /\ f.id = files[k].id
    BY <1>2 DEF IsHandle, NoFile
  <2>2. f.buf = b
    BY ONLY <1>2, FilledBuf
  <2> QED
    BY ONLY <2>1, <2>2
<1>5. content \in Seq(Range(content)) /\ f.id \in 1 .. Len(content) /\ IsFile(content[f.id])
  BY <1>2, <1>4 DEF FileInv, Inv, DirInv
<1> HIDE DEF f
<1>6. CASE UNCHANGED <<content, dir, files, pushed, lost>>
  BY <1>1, <1>6, UnwrittenHold
<1>7. CASE /\ UNCHANGED <<content, dir, lost>>
           /\ files' = [files EXCEPT ![k] = f] /\ pushed' = Append(pushed, k)
  <2>1. files' = [j \in Keys |-> IF j = k THEN f ELSE files[j]]
    BY <1>7 DEF Inv, FilesInv
  <2>2. pushed \in Seq(Keys) /\ lost \subseteq DOMAIN pushed
    BY DEF HoldInv
  <2>3. /\ pushed' \in Seq(Keys) /\ lost' \subseteq DOMAIN pushed'
        /\ \A j \in Keys \ {k} : Of(j)' = Of(j)
    <3>1. /\ DOMAIN pushed = 1 .. Len(pushed) /\ DOMAIN pushed' = 1 .. Len(pushed) + 1
          /\ Len(pushed) \in Nat /\ pushed' \in Seq(Keys)
          /\ pushed'[Len(pushed) + 1] = k /\ \A i \in 1 .. Len(pushed) : pushed'[i] = pushed[i]
      BY <1>2, <1>7, <2>2
    <3>2. DOMAIN pushed' = DOMAIN pushed \cup {Len(pushed) + 1}
      BY <3>1
    <3> QED
      BY <1>7, <2>2, <3>1, <3>2 DEF Of
  <2>4. HoldKey(k)'
    <3>1. /\ files'[k].buf = Append(files[k].buf, NextMsg) /\ files'[k] # NoFile
          /\ files'[k].name = files[k].name
      BY <1>2, <1>4, <2>1 DEF b
    <3> QED
      BY <1>2, <1>7, <2>2, <3>1, FillHolds
  <2>5. ASSUME NEW j \in Keys \ {k} PROVE HoldKey(j)'
    <3>1. HoldKey(j) /\ files'[j] = files[j] /\ Of(j)' \ lost' = Of(j) \ lost
      BY <1>7, <2>1, <2>3 DEF HoldInv
    <3>2. NamesOf(j)' = NamesOf(j) /\ \A m \in NamesOf(j) : content'[dir'[m]].msgs = content[dir[m]].msgs
      BY <1>7 DEF NamesOf, Names
    <3> QED
      BY <3>1, <3>2, UntouchedHolds
  <2> QED
    BY <1>1, <1>7, <2>3, <2>4, <2>5, StillMoves DEF HoldInv
<1>8. CASE \E n \in Writable(f), whole, rename \in BOOLEAN :
            LET fails  == Failed(f, n)
                closes == close /\ ~(call.batch /\ fails)
            IN  /\ IF closes THEN CloseFile(content, f, n, whole, rename)
                   ELSE content' = Written(content, f, n) /\ UNCHANGED dir
                /\ files' = [files EXCEPT ![k] = IF closes THEN NoFile ELSE Flushed(f, n)]
                /\ pushed' = IF call.batch /\ fails THEN pushed ELSE Append(pushed, k)
                /\ lost' = lost \cup (Unwritten(f, n) \cap DOMAIN pushed')
  <2> PICK n \in Writable(f), whole, rename \in BOOLEAN :
            LET fails  == Failed(f, n)
                closes == close /\ ~(call.batch /\ fails)
            IN  /\ IF closes THEN CloseFile(content, f, n, whole, rename)
                   ELSE content' = Written(content, f, n) /\ UNCHANGED dir
                /\ files' = [files EXCEPT ![k] = IF closes THEN NoFile ELSE Flushed(f, n)]
                /\ pushed' = IF call.batch /\ fails THEN pushed ELSE Append(pushed, k)
                /\ lost' = lost \cup (Unwritten(f, n) \cap DOMAIN pushed')
    BY <1>8
  <2> DEFINE g == IF close /\ ~(call.batch /\ Failed(f, n)) THEN NoFile ELSE Flushed(f, n)
  <2>1. n \in 0 .. Len(b)
    <3>1. IsMsgs(files[k].buf) /\ NextMsg \in Nat
      BY <1>2 DEF HoldKey, NextMsg, HoldInv
    <3>2. Len(b) \in Nat
      BY <3>1 DEF IsMsgs, b
    <3>3. n \in {0, Len(f.buf)} \cup 0 .. Len(f.buf)
      BY DEF Writable
    <3> QED
      BY <1>4, <3>2, <3>3
  <2>2. Flushes(k, b, n)
    <3>1. Failed(f, n) <=> n < Len(b)
      BY <1>4 DEF Failed
    <3>2. Unwritten(f, n) = Range(SubSeq(b, n + 1, Len(b)))
      BY <1>4 DEF Unwritten
    <3>3. \/ pushed' = Append(pushed, k)
          \/ pushed' = pushed /\ n < Len(b)
      BY <3>1
    <3> QED
      BY <1>2, <2>1, <3>2, <3>3 DEF Flushes, b
  <2>3. /\ files' = [files EXCEPT ![k] = g]
        /\ \/ CloseFile(content, f, n, whole, rename) /\ g = NoFile
           \/ content' = Written(content, f, n) /\ dir' = dir /\ g = Flushed(f, n)
    OBVIOUS
  <2>4. g.buf = <<>> /\ (g # NoFile => dir' = dir /\ g.name = files[k].name)
    <3>1. Flushed(f, n).buf = <<>> /\ Flushed(f, n).name = f.name
      BY <1>4, FlushedBuf, HandleFlushes
    <3>2. NoFile.buf = <<>>
      BY DEF NoFile
    <3> HIDE DEF g
    <3> QED
      BY <1>4, <2>3, <3>1, <3>2
  <2>5. /\ \A i \in 1 .. Len(content) :
               content'[i].msgs = IF i = f.id THEN Extended(content, f, n) ELSE content[i].msgs
        /\ dir' \in {dir, Renamed(f.name)}
    <3> HIDE DEF g
    <3>1. CASE CloseFile(content, f, n, whole, rename)
      BY <1>5, <3>1, ClosedMsgs
    <3>2. CASE content' = Written(content, f, n) /\ dir' = dir
      BY <1>5, <3>2, WrittenMsgs
    <3> QED
      BY <2>3, <3>1, <3>2
  <2>6. \A i \in 1 .. Len(content) :
            content'[i].msgs = IF i = files[k].id THEN content[i].msgs \o SubSeq(b, 1, n)
                               ELSE content[i].msgs
    BY <1>4, <2>5 DEF Extended
  <2> HIDE DEF g
  <2>7. dir' \in {dir, Renamed(files[k].name)}
    BY <1>4, <2>5
  <2> QED
    BY <1>1, <1>2, <2>2, <2>3, <2>4, <2>6, <2>7, OneFlushHolds
<1> QED
  BY <1>3, <1>6, <1>7, <1>8

LEMMA KeptOrBuffered ==
    ASSUME NEW k, HoldKey(k)
    PROVE  Kept(k) \cap Range(files[k].buf) = {}
<1>1. ASSUME NEW x, x \in Kept(k), x \in Range(files[k].buf) PROVE FALSE
  <2>1. PICK m \in NamesOf(k) : x \in Msgs(m)
    BY <1>1, KeptBy
  <2>2. x < x
    BY <1>1, <2>1 DEF HoldKey, Below
  <2>3. x \in Nat
    BY <1>1 DEF HoldKey, IsMsgs, Range
  <2> QED
    BY ONLY <2>2, <2>3
<1> QED
  BY ONLY <1>1

\* The flush of one key's file among those of all.
LEMMA KeyFlushHolds ==
    ASSUME Inv, HoldInv, NEW k \in Keys, files[k] # NoFile, UNCHANGED <<dir, pushed>>,
           NEW n \in 0 .. Len(files[k].buf),
           \A i \in 1 .. Len(content) :
               i = files[k].id => content'[i].msgs = Extended(content, files[k], n),
           \A m \in NamesOf(k) \ {files[k].name} : content'[dir[m]].msgs = content[dir[m]].msgs,
           files'[k].buf = <<>>, files'[k].name = files[k].name,
           Of(k) \cap lost' = Of(k) \cap (lost \cup Unwritten(files[k], n))
    PROVE  HoldKey(k)'
<1> DEFINE b == files[k].buf
           name == files[k].name
           w == SubSeq(b, 1, n)
           u == SubSeq(b, n + 1, Len(b))
<1>1. HoldKey(k) /\ FileInv(k) /\ IsMsgs(b) /\ Kept(k) \cup Range(b) = Of(k) \ lost
  BY DEF HoldInv, HoldKey, Inv, FilesInv
<1>2. Range(w) \cup Range(u) = Range(b) /\ Range(w) \cap Range(u) = {}
  BY <1>1, CutMsgs
<1>3. Kept(k) \cap Range(b) = {}
  BY <1>1, KeptOrBuffered
<1>4. Of(k)' \ lost' = Kept(k) \cup Range(w)
  <2>1. Of(k)' = Of(k) /\ Unwritten(files[k], n) = Range(u)
    BY DEF Of, Unwritten
  <2> HIDE DEF w, u, b
  <2> QED
    BY <1>1, <1>2, <1>3, <2>1
<1>5. NamesOf(k)' = NamesOf(k) /\ name \in NamesOf(k) /\ dir[name] = files[k].id
  BY <1>1 DEF NamesOf, Names, FileInv
<1>6. \A m \in NamesOf(k) : m \in Name /\ Below(Msgs(m), Range(b))
  BY <1>1, NamesTyped DEF HoldKey, NamesOf
<1>7. content'[dir'[name]].msgs = content[dir[name]].msgs \o w
  BY <1>1, <1>5 DEF FileInv, Extended
<1>8. NamesOf(k)' = (NamesOf(k) \ {name}) \cup {name}
  BY <1>5
<1> HIDE DEF w
<1>9. \A m \in NamesOf(k) \ {name} : content'[dir'[m]].msgs = content[dir[m]].msgs
  OBVIOUS
<1> QED
  BY <1>1, <1>4, <1>5, <1>6, <1>7, <1>8, <1>9, FlushHolds DEF w

LEMMA FlushAllHold ==
    ASSUME Inv, HoldInv, NEW bad, NEW n, FlushAll(bad, n), UNCHANGED <<dir, pushed>>,
           bad \in Keys => n \in 0 .. Len(files[bad].buf)
    PROVE  HoldInv' /\ Moves
<1> DEFINE count(k) == IF k = bad THEN n ELSE IF files[k].broken THEN 0 ELSE Len(files[k].buf)
           written(i) == LET k == CHOOSE k \in FilesOpen : files[k].id = i
                         IN  content[i].msgs \o SubSeq(files[k].buf, 1, count(k))
<1>1. /\ content' = [i \in DOMAIN content |->
              IF \E k \in FilesOpen : files[k].id = i
              THEN [content[i] EXCEPT !.msgs = written(i)] ELSE content[i]]
      /\ files' = [k \in Keys |-> IF k \in FilesOpen THEN Flushed(files[k], count(k)) ELSE NoFile]
      /\ lost' = lost \cup UNION {Unwritten(files[k], count(k)) : k \in FilesOpen}
  BY DEF FlushAll
<1>2. DOMAIN content = 1 .. Len(content) /\ \A i \in 1 .. Len(content) : IsFile(content[i])
  BY KeyIn DEF Inv, DirInv
<1>3. \A k \in Keys : HoldKey(k) /\ count(k) \in 0 .. Len(files[k].buf)
  <2> SUFFICES ASSUME NEW k \in Keys PROVE HoldKey(k) /\ count(k) \in 0 .. Len(files[k].buf)
    OBVIOUS
  <2>1. HoldKey(k) /\ Len(files[k].buf) \in Nat
    BY DEF HoldInv, HoldKey, IsMsgs
  <2> QED
    BY <2>1
<1>4. \A k \in Keys : Unwritten(files[k], count(k)) \subseteq Of(k)
  <2> SUFFICES ASSUME NEW k \in Keys PROVE Unwritten(files[k], count(k)) \subseteq Of(k)
    OBVIOUS
  <2> DEFINE c == count(k)
  <2>1. IsMsgs(files[k].buf) /\ Range(files[k].buf) \subseteq Of(k) /\ c \in 0 .. Len(files[k].buf)
    BY <1>3 DEF HoldKey
  <2> HIDE DEF c
  <2>2. Unwritten(files[k], c) \subseteq Range(files[k].buf)
    BY <2>1, CutMsgs DEF Unwritten
  <2> QED
    BY <2>1, <2>2 DEF c
<1>5. ASSUME NEW k \in FilesOpen
      PROVE  /\ k \in Keys /\ files[k] # NoFile /\ FileInv(k) /\ IsHandle(files[k])
             /\ files[k].id \in 1 .. Len(content)
  BY DEF FilesOpen, Inv, FilesInv, FileInv
<1>6. ASSUME NEW k \in FilesOpen
      PROVE  written(files[k].id) = Extended(content, files[k], count(k))
  <2>1. \A j \in FilesOpen : files[j].id = files[k].id => j = k
    BY <1>5, Apart DEF Inv
  <2>2. (CHOOSE j \in FilesOpen : files[j].id = files[k].id) = k
    BY <2>1
  <2> HIDE DEF count
  <2> QED
    BY <2>2 DEF Extended
<1> HIDE DEF written, count
<1>7. ASSUME NEW k \in FilesOpen
      PROVE  content'[files[k].id].msgs = Extended(content, files[k], count(k))
  <2>1. content'[files[k].id] = [content[files[k].id] EXCEPT !.msgs = written(files[k].id)]
    BY <1>1, <1>2, <1>5
  <2>2. IsFile(content[files[k].id])
    BY <1>2, <1>5
  <2> QED
    BY <1>6, <2>1, <2>2 DEF IsFile
<1>8. ASSUME NEW i \in 1 .. Len(content), \A k \in FilesOpen : files[k].id # i
      PROVE  content'[i] = content[i]
  BY <1>1, <1>2, <1>8
<1>9. ASSUME NEW m \in Names, \A k \in FilesOpen : files[k].name # m
      PROVE  content'[dir[m]].msgs = content[dir[m]].msgs
  <2>1. dir[m] \in 1 .. Len(content)
    BY NamesTyped
  <2>2. \A k \in FilesOpen : files[k].id # dir[m]
    BY <1>5, <1>9 DEF FileInv
  <2> QED
    BY <1>8, <2>1, <2>2
<1>10. \A k \in Keys : Of(k) \cap lost' = IF k \in FilesOpen
                                          THEN Of(k) \cap (lost \cup Unwritten(files[k], count(k)))
                                          ELSE Of(k) \cap lost
  <2>1. \A j, k \in Keys : j # k => Of(j) \cap Of(k) = {}
    BY DEF Of
  <2>2. FilesOpen \subseteq Keys
    BY DEF FilesOpen
  <2> QED
    BY <1>1, <1>4, <2>1, <2>2
<1>11. ASSUME NEW k \in Keys PROVE HoldKey(k)'
  <2>1. CASE k \in FilesOpen
    <3> DEFINE c == count(k)
    <3>1. /\ files'[k] = Flushed(files[k], c) /\ files'[k].buf = <<>>
          /\ files'[k].name = files[k].name
      BY <1>1, <1>5, <2>1, HandleFlushes, FlushedBuf
    <3>2. \A m \in NamesOf(k) \ {files[k].name} : content'[dir[m]].msgs = content[dir[m]].msgs
      <4> SUFFICES ASSUME NEW m \in NamesOf(k) \ {files[k].name}
                   PROVE  content'[dir[m]].msgs = content[dir[m]].msgs
        OBVIOUS
      <4>1. \A j \in FilesOpen : files[j].name = m => j = k
        BY <1>5 DEF FileInv, NamesOf
      <4> QED
        BY <1>9, <4>1 DEF NamesOf
    <3>3. Of(k) \cap lost' = Of(k) \cap (lost \cup Unwritten(files[k], c))
      BY <1>10, <2>1
    <3>4. c \in 0 .. Len(files[k].buf)
      BY <1>3
    <3>5. \A i \in 1 .. Len(content) : i = files[k].id => content'[i].msgs = Extended(content, files[k], c)
      BY <1>7, <2>1
    <3> HIDE DEF c
    <3> QED
      BY <1>5, <2>1, <3>1, <3>2, <3>3, <3>4, <3>5, KeyFlushHolds
  <2>2. CASE k \notin FilesOpen
    <3>1. files[k] = NoFile /\ files'[k] = NoFile
      BY <1>1, <2>2 DEF FilesOpen
    <3>2. \A m \in NamesOf(k) : content'[dir'[m]].msgs = content[dir[m]].msgs
      <4> SUFFICES ASSUME NEW m \in NamesOf(k) PROVE content'[dir[m]].msgs = content[dir[m]].msgs
        OBVIOUS
      <4>1. \A j \in FilesOpen : files[j].name # m
        BY <1>5, <2>2 DEF FileInv, NamesOf
      <4> QED
        BY <1>9, <4>1 DEF NamesOf
    <3>3. NamesOf(k)' = NamesOf(k) /\ Of(k)' = Of(k)
      BY DEF NamesOf, Names, Of
    <3>4. Of(k) \cap lost' = Of(k) \cap lost
      BY <1>10, <2>2
    <3>5. Of(k)' \ lost' = Of(k) \ lost
      BY ONLY <3>3, <3>4
    <3> QED
      BY <1>3, <3>1, <3>2, <3>3, <3>5, UntouchedHolds
  <2> QED
    BY <2>1, <2>2
<1>12. pushed' \in Seq(Keys) /\ lost' \subseteq DOMAIN pushed'
  <2>1. \A k \in Keys : Of(k) \subseteq DOMAIN pushed
    BY DEF Of
  <2>2. FilesOpen \subseteq Keys
    BY DEF FilesOpen
  <2> QED
    BY <1>1, <1>4, <2>1, <2>2 DEF HoldInv
<1>13. \A k \in Keys : files'[k].buf = <<>>
  BY <1>1, <1>5, FlushedBuf DEF NoFile
<1>14. ASSUME NEW m \in Names
       PROVE  /\ Prefix(content[dir[m]].msgs, content'[dir[m]].msgs)
              /\ ~IsOpen(m) => content'[dir[m]].msgs = content[dir[m]].msgs
  <2>1. CASE \A k \in FilesOpen : files[k].name # m
    BY <1>9, <2>1 DEF Prefix
  <2>2. ASSUME NEW k \in FilesOpen, files[k].name = m
        PROVE  IsOpen(m) /\ Prefix(content[dir[m]].msgs, content'[dir[m]].msgs)
    <3> DEFINE c == count(k)
               b == files[k].buf
    <3>1. IsOpen(m) /\ dir[m] = files[k].id /\ m \in NamesOf(k) /\ IsMsgs(b) /\ c \in 0 .. Len(b)
      BY <1>3, <1>5, <2>2 DEF FileInv, IsOpen, NamesOf, HoldKey
    <3>2. content'[dir[m]].msgs = Extended(content, files[k], c)
      BY <1>7, <3>1
    <3> HIDE DEF c
    <3> DEFINE w == SubSeq(b, 1, c)
               s == content[dir[m]].msgs
    <3>3. IsMsgs(w)
      BY <3>1, CutMsgs
    <3>4. IsMsgs(s)
      BY <1>3, <1>5, <3>1 DEF HoldKey
    <3>5. content'[dir[m]].msgs = s \o w
      BY <3>1, <3>2 DEF Extended
    <3> HIDE DEF w, s
    <3>6. Prefix(s, s \o w)
      BY <3>3, <3>4, ExtendedPrefix
    <3> QED
      BY <3>1, <3>5, <3>6 DEF s
  <2> QED
    BY <2>1, <2>2
<1>15. Moves
  <2>1. Names' = Names /\ \A m \in Names : From(m, m)
    BY DEF Names, From
  <2> QED
    BY <1>14, <2>1 DEF Moves
<1> QED
  BY <1>11, <1>12, <1>13, <1>15 DEF HoldInv

LEMMA CommitHold ==
    ASSUME Inv, HoldInv, NEW next, Commit(next)
    PROVE  HoldInv' /\ Moves
<1>1. UNCHANGED <<dir, pushed>>
  BY DEF Commit
<1>2. CASE FlushAll(0, 0)
  <2>1. 0 \notin Keys
    BY DEF Keys
  <2> QED
    BY <1>1, <1>2, <2>1, FlushAllHold
<1>3. ASSUME NEW bad \in FilesOpen, NEW n \in 0 .. MaxMsgs, n < Len(files[bad].buf), FlushAll(bad, n)
      PROVE  HoldInv' /\ Moves
  <2>1. bad \in Keys /\ Len(files[bad].buf) \in Nat
    BY DEF FilesOpen, HoldInv, HoldKey, IsMsgs
  <2>2. n \in 0 .. Len(files[bad].buf)
    BY <1>3, <2>1
  <2> QED
    BY <1>1, <1>3, <2>2, FlushAllHold
<1> QED
  BY <1>2, <1>3 DEF Commit

\* PushSchema's commit has left nothing in the buffers.
LEMMA ReplaceSchemaHold == ASSUME Inv, HoldInv, ReplaceSchema PROVE HoldInv' /\ Moves
<1>1. call.op = "schema" /\ call.key \in Keys
  BY DEF ReplaceSchema, Inv, CallInv
<1> SUFFICES ASSUME NEW k \in Keys, k = call.key PROVE HoldInv' /\ Moves
  BY <1>1
<1>2. /\ files' = [files EXCEPT ![k] = NoFile] /\ call'.op = "get" /\ UNCHANGED <<pushed, lost>>
      /\ files[k].buf = <<>>
  BY <1>1 DEF ReplaceSchema, Call, history, HoldInv
<1>3. /\ Shared(k) \in Seq(Range(Shared(k))) /\ Len(Shared(k)) = Len(content)
      /\ \A i \in 1 .. Len(content) : SameFile(content[i], Shared(k)[i])
  BY SharedFiles
<1>4. \A i \in 1 .. Len(content) : Shared(k)[i].msgs = content[i].msgs
  BY SharedMsgs
<1>5. CASE files[k] = NoFile
  <2>1. content' = Shared(k) /\ dir' = dir
    BY <1>1, <1>5 DEF ReplaceSchema
  <2>2. files' = files
    BY <1>2, <1>5 DEF Inv, FilesInv
  <2>3. ASSUME NEW j \in Keys PROVE HoldKey(j)'
    <3>1. HoldKey(j) /\ NamesOf(j)' = NamesOf(j) /\ Of(j)' \ lost' = Of(j) \ lost
      BY <1>2, <2>1 DEF HoldInv, NamesOf, Names, Of
    <3>2. \A m \in NamesOf(j) : content'[dir'[m]].msgs = content[dir[m]].msgs
      BY <1>4, <2>1, NamesTyped DEF NamesOf
    <3> QED
      BY <2>2, <3>1, <3>2, UntouchedHolds
  <2>4. \A n \in Names : content'[dir[n]].msgs = content[dir[n]].msgs
    BY <1>4, <2>1, NamesTyped
  <2> QED
    BY <1>2, <2>1, <2>3, <2>4, StillMoves DEF HoldInv
<1>6. CASE files[k] # NoFile
  <2>1. PICK whole, rename \in BOOLEAN : CloseFile(Shared(k), files[k], 0, whole, rename)
    BY <1>1, <1>6 DEF ReplaceSchema
  <2>2. FileInv(k) /\ files[k].id \in 1 .. Len(content) /\ IsFile(Shared(k)[files[k].id])
    BY <1>3, <1>6 DEF Inv, FilesInv, FileInv, SameFile
  <2> DEFINE c == Shared(k)
  <2> HIDE DEF c
  <2>3. /\ \A i \in 1 .. Len(c) : content'[i].msgs = IF i = files[k].id THEN Extended(c, files[k], 0)
                                                     ELSE c[i].msgs
        /\ dir' \in {dir, Renamed(files[k].name)}
    BY <1>3, <2>1, <2>2, ClosedMsgs DEF c
  <2>4. Extended(c, files[k], 0) = content[files[k].id].msgs \o SubSeq(<<>>, 1, 0)
    BY <1>2, <1>4, <2>2 DEF Extended, c
  <2>5. \A i \in 1 .. Len(content) :
            content'[i].msgs = IF i = files[k].id THEN content[i].msgs \o SubSeq(<<>>, 1, 0)
                               ELSE content[i].msgs
    BY <1>3, <1>4, <2>3, <2>4 DEF c
  <2>6. Flushes(k, <<>>, 0)
    <3>1. Len(<<>>) = 0 /\ SubSeq(<<>>, 0 + 1, 0) = <<>>
      BY SubSeqEmpty
    <3>2. Range(SubSeq(<<>>, 0 + 1, Len(<<>>))) = {}
      BY <3>1, EmptyMsgs
    <3> QED
      BY <1>2, <1>6, <3>1, <3>2 DEF Flushes
  <2>7. NoFile.buf = <<>>
    BY DEF NoFile
  <2> QED
    BY <1>2, <2>3, <2>5, <2>6, <2>7, OneFlushHolds
<1> QED
  BY <1>5, <1>6

LEMMA CloseHold == ASSUME Inv, HoldInv, Close PROVE HoldInv' /\ Moves
<1>1. UNCHANGED pushed /\ call'.op # "schema"
  BY DEF Close, Gone, Down, Closing
<1>2. CASE FilesOpen = {} /\ UNCHANGED <<disk, files, lost>>
  BY <1>1, <1>2, UnwrittenHold DEF disk
<1>3. CASE FilesOpen # {} /\ call' = Closing
  <2>1. PICK k \in FilesOpen :
            /\ \E n \in Writable(files[k]), whole, rename \in BOOLEAN :
                  /\ CloseFile(content, files[k], n, whole, rename)
                  /\ lost' = lost \cup Unwritten(files[k], n)
            /\ files' = [files EXCEPT ![k] = NoFile]
    BY <1>3 DEF Close
  <2>2. PICK n \in Writable(files[k]), whole, rename \in BOOLEAN :
            /\ CloseFile(content, files[k], n, whole, rename)
            /\ lost' = lost \cup Unwritten(files[k], n)
    BY <2>1
  <2> DEFINE b == files[k].buf
  <2>3. /\ k \in Keys /\ files[k] # NoFile /\ FileInv(k) /\ HoldKey(k) /\ IsMsgs(b)
        /\ files[k].id \in 1 .. Len(content) /\ IsFile(content[files[k].id])
        /\ Range(b) \subseteq Of(k) /\ Of(k) \subseteq DOMAIN pushed
    BY DEF FilesOpen, Inv, FilesInv, FileInv, DirInv, HoldInv, HoldKey, Of
  <2>4. n \in 0 .. Len(b)
    <3>1. Len(b) \in Nat
      BY <2>3 DEF IsMsgs
    <3>2. n \in {0, Len(b)} \cup 0 .. Len(b)
      BY DEF Writable
    <3> QED
      BY <3>1, <3>2
  <2>5. Flushes(k, b, n)
    <3>1. Unwritten(files[k], n) = Range(SubSeq(b, n + 1, Len(b)))
      BY DEF Unwritten
    <3>2. Range(SubSeq(b, n + 1, Len(b))) \subseteq Range(b)
      BY <2>3, <2>4, CutMsgs
    <3>3. lost' = lost \cup (Range(SubSeq(b, n + 1, Len(b))) \cap DOMAIN pushed')
      BY <1>1, <2>2, <2>3, <3>1, <3>2
    <3> QED
      BY <1>1, <2>3, <2>4, <3>3 DEF Flushes
  <2>6. /\ \A i \in 1 .. Len(content) :
               content'[i].msgs = IF i = files[k].id THEN Extended(content, files[k], n)
                                  ELSE content[i].msgs
        /\ dir' \in {dir, Renamed(files[k].name)}
    BY <2>2, <2>3, ClosedMsgs DEF Inv, DirInv
  <2>7. \A i \in 1 .. Len(content) :
            content'[i].msgs = IF i = files[k].id THEN content[i].msgs \o SubSeq(b, 1, n)
                               ELSE content[i].msgs
    BY <2>6 DEF Extended
  <2>8. NoFile.buf = <<>>
    BY DEF NoFile
  <2> HIDE DEF b
  <2> QED
    BY <1>1, <2>1, <2>3, <2>5, <2>6, <2>7, <2>8, OneFlushHolds
<1> QED
  BY <1>2, <1>3 DEF Close

\* What is in the buffers is lost.
LEMMA CrashHold == ASSUME Inv, HoldInv, Crash PROVE HoldInv' /\ Moves
<1>1. /\ UNCHANGED <<content, dir, pushed>> /\ files' = [k \in Keys |-> NoFile]
      /\ lost' = lost \cup UNION {Range(files[k].buf) : k \in Keys} /\ call'.op # "schema"
  BY DEF Crash, disk, Gone, Down
<1>2. NoFile.buf = <<>>
  BY DEF NoFile
<1>3. \A k \in Keys : HoldKey(k) /\ Of(k) \subseteq DOMAIN pushed /\ Of(k)' = Of(k)
  BY <1>1 DEF HoldInv, Of
<1>4. \A k \in Keys : Range(files[k].buf) \subseteq Of(k)
  BY <1>3 DEF HoldKey
<1>5. ASSUME NEW k \in Keys PROVE HoldKey(k)'
  <2>1. \A j \in Keys : j # k => Of(j) \cap Of(k) = {}
    BY DEF Of
  <2>2. Of(k)' \ lost' = Of(k) \ (lost \cup Range(files[k].buf))
    BY <1>1, <1>3, <1>4, <2>1
  <2>3. Kept(k) \cap Range(files[k].buf) = {} /\ Kept(k) \cup Range(files[k].buf) = Of(k) \ lost
    BY <1>3, KeptOrBuffered DEF HoldKey
  <2>4. /\ NamesOf(k)' = NamesOf(k) /\ Kept(k)' = Kept(k)
        /\ \A n \in NamesOf(k) : Msgs(n)' = Msgs(n)
    BY <1>1 DEF NamesOf, Names, Kept, Msgs
  <2>5. files'[k] = NoFile /\ Range(files'[k].buf) = {} /\ IsMsgs(files'[k].buf)
    BY <1>1, <1>2, EmptyMsgs
  <2>6. Kept(k)' \cup Range(files'[k].buf) = Of(k)' \ lost'
    BY <2>2, <2>3, <2>4, <2>5
  <2>7. \A n \in NamesOf(k)' :
            /\ IsMsgs(content'[dir'[n]].msgs)
            /\ \A m \in NamesOf(k)' : Before(n, m) => Below(Msgs(n)', Msgs(m)')
    BY <1>1, <1>3, <2>4 DEF HoldKey
  <2> QED
    BY <2>5, <2>6, <2>7 DEF HoldKey, Below
<1> QED
  BY <1>1, <1>3, <1>4, <1>5, StillMoves DEF HoldInv

LEMMA InitHold == Init => HoldInv
<1> SUFFICES ASSUME Init PROVE HoldInv
  OBVIOUS
<1>1. /\ pushed = <<>> /\ lost = {} /\ Names = {} /\ files = [k \in Keys |-> NoFile]
      /\ call.op # "schema" /\ NoFile.buf = <<>>
  BY DEF Init, Names, Down, NoFile
<1>2. DOMAIN pushed = {} /\ pushed \in Seq(Keys)
  BY <1>1
<1>3. ASSUME NEW k \in Keys PROVE HoldKey(k)
  <2>1. NamesOf(k) = {} /\ Of(k) = {} /\ Kept(k) = {}
    BY <1>1, <1>2 DEF NamesOf, Of, Kept
  <2>2. Range(files[k].buf) = {} /\ IsMsgs(files[k].buf)
    BY <1>1, EmptyMsgs
  <2> QED
    BY <2>1, <2>2 DEF HoldKey
<1> QED
  BY <1>1, <1>2, <1>3 DEF HoldInv

LEMMA NextHold == Inv /\ HoldInv /\ [Next]_vars /\ ~misnamed' => HoldInv' /\ Moves
<1> SUFFICES ASSUME Inv, HoldInv, [Next]_vars, ~misnamed' PROVE HoldInv' /\ Moves
  OBVIOUS
<1>1. CASE UNCHANGED vars
  BY <1>1, UnwrittenHold DEF vars, disk, producer, history
<1>2. CASE NewProducer
  BY <1>2, UnwrittenHold DEF NewProducer, Idle, disk, history
<1>3. CASE NewConsumer \/ Consumer \/ CloseConsumer
  <2>1. UNCHANGED <<content, dir, call, files, pushed, lost>>
    BY <1>3 DEF NewConsumer, Consumer, CloseConsumer, OpenFirst, Read, Watch, WatchParent,
                ReadNames, NextFile, Wake, disk, producer, history
  <2> QED
    BY <2>1, UnwrittenHold
<1>4. ASSUME NEW k \in Keys, NEW b \in BOOLEAN, GetFile(k, b) \/ PushSchema(k) PROVE HoldInv' /\ Moves
  BY <1>4, GetFileHold, CommitHold DEF PushSchema
<1> QED
  BY <1>1, <1>2, <1>3, <1>4, WriteHold, CommitHold, ReplaceSchemaHold, CloseHold, CrashHold
     DEF Next, PushBatchCommit

LEMMA HoldAlways == Spec => [](misnamed \/ (Inv /\ HoldInv))
<1>1. Init => Inv /\ HoldInv
  BY InitInv, InitHold
<1>2. (misnamed \/ (Inv /\ HoldInv)) /\ [Next]_vars => (misnamed \/ (Inv /\ HoldInv))'
  BY NextInv, NextHold, MisnamedStays
<1> QED
  BY <1>1, <1>2, PTL DEF Spec

\* Names as strings are ordered as they were chosen: two that agree in second
\* and sequence number are one.
LEMMA LessParts ==
    ASSUME NEW n \in Name, NEW m \in Name
    PROVE  Less(n, m) <=> \/ Before(n, m)
                          \/ n[1] = m[1] /\ n[2] = m[2] /\ n[3] < m[3]
                          \/ n[1] = m[1] /\ n[2] = m[2] /\ n[3] = m[3] /\ n[4] < m[4]
<1>1. 1 .. 4 = {1, 2, 3, 4} /\ 1 .. 0 = {} /\ 1 .. 1 = {1} /\ 1 .. 2 = {1, 2} /\ 1 .. 3 = {1, 2, 3}
  OBVIOUS
<1>2. Less(n, m) <=> \E i \in {1, 2, 3, 4} : n[i] < m[i] /\ \A j \in 1 .. i - 1 : n[j] = m[j]
  BY <1>1 DEF Less
<1>3. \A j : /\ j \notin 1 .. 1 - 1 /\ (j \in 1 .. 2 - 1 <=> j = 1)
             /\ (j \in 1 .. 3 - 1 <=> j = 1 \/ j = 2) /\ (j \in 1 .. 4 - 1 <=> j = 1 \/ j = 2 \/ j = 3)
  OBVIOUS
<1> QED
  BY <1>2, <1>3 DEF Before

LEMMA LessIsBefore ==
    ASSUME Inv, NEW n \in Names, NEW m \in Names, Less(n, m)
    PROVE  Before(n, m)
<1>1. n \in Name /\ m \in Name /\ (n[1] = m[1] /\ n[2] = m[2] => n = m)
  BY DEF Inv, NamesInv
<1>2. n[3] \in Nat /\ n[4] \in Nat
  BY <1>1 DEF Name
<1> QED
  BY <1>1, <1>2, LessParts

LEMMA KeptIsHeld == ASSUME NEW k PROVE Kept(k) = Held(k) \cup HeldTorn(k)
BY DEF Kept, Held, HeldTorn

\* What was pushed with a key and not lost is, in this order and once, in the
\* key's files in the order of their names, and then in the buffer of the open
\* one, whatever is flushed, closed, renamed or lost, for any number of keys,
\* producers and faults: as long as the "precaution" of file.go:281 suffices, and
\* but for the files whose header is over their messages, which happens only to
\* files that another was opened beside (file.go:326, 390), or whose header could
\* not be written.
THEOREM FilesHoldThem == Spec => []FilesHoldMessages
<1>1. Inv /\ HoldInv => FilesHoldMessages
  <2> SUFFICES ASSUME Inv, HoldInv PROVE FilesHoldMessages
    OBVIOUS
  <2>1. ASSUME NEW k \in Keys
        PROVE  /\ Held(k) \cup HeldTorn(k) \cup Range(files[k].buf) = Of(k) \ lost
               /\ Ascending(files[k].buf)
               /\ \A n \in NamesOf(k) :
                     /\ Ascending(content[dir[n]].msgs) /\ Below(Msgs(n), Range(files[k].buf))
                     /\ \A m \in NamesOf(k) : Less(n, m) => Below(Msgs(n), Msgs(m))
                     /\ Torn(n) => content[dir[n]].shared \/ content[dir[n]].hdr = NoHeader
    <3>1. HoldKey(k) /\ NamesOf(k) \subseteq Names
      BY DEF HoldInv, NamesOf
    <3>2. \A n, m \in NamesOf(k) : Less(n, m) => Before(n, m)
      BY <3>1, LessIsBefore
    <3>3. \A n \in NamesOf(k) : Torn(n) => content[dir[n]].shared \/ content[dir[n]].hdr = NoHeader
      BY <3>1, NamesTyped DEF Torn, Inv, HeaderInv
    <3>4. Held(k) \cup HeldTorn(k) \cup Range(files[k].buf) = Of(k) \ lost
      BY <3>1, KeptIsHeld DEF HoldKey
    <3> QED
      BY <3>1, <3>2, <3>3, <3>4 DEF HoldKey, IsMsgs
  <2> QED
    BY ONLY <2>1 DEF FilesHoldMessages
<1>2. misnamed => FilesHoldMessages
  BY DEF FilesHoldMessages
<1> QED
  BY <1>1, <1>2, HoldAlways, PTL

-----------------------------------------------------------------------------
(* What a consumer has read. *)

\* Two names chosen at once: one file's, before and after it was closed.
Twin(n, m) == n[1] = m[1] /\ n[2] = m[2]

\* A name that was chosen by now ...
Placed(p) ==
    p \in Name /\ p[1] <= sec /\ (seqno > 0 /\ p[1] = sec => p[2] <= Place(seqno))

\* ... and that is no other file's.
Known(p) == Placed(p) /\ \A n \in Names : Twin(n, p) => n \in {p, TrimOpen(p)}

\* Names are chosen in the order in which the files are created.
PlaceInv ==
    /\ \A n \in Names : n[1] > 0 /\ n[3] \in Keys
    /\ \A n, m \in Names : Before(n, m) => dir[n] < dir[m]

\* What ReadDir returned still is there, or was renamed, and what is not in it
\* is the new name of a file that is, or later than all of it.
ListInv ==
    cons.pc = "stat" =>
        /\ \A l \in cons.list : Placed(l) /\ (l \in Names \/ TrimOpen(l) \in Names)
        /\ \A n \in Names : \/ \E l \in cons.list : n \in {l, TrimOpen(l)}
                            \/ \A l \in cons.list : Before(l, n)

\* The place of the consumer: the file it reads is that of its name, and one it
\* did not begin with was closed.
PlaceOfCons ==
    /\ Known(cons.name) /\ Known(cons.start) /\ cons.pos \in Nat
    /\ cons.name # cons.start => cons.name \in Names /\ ~IsOpen(cons.name)
    /\ cons.pc \notin {"open", "read", "stuck"} => cons.pos = 0
    /\ cons.pc = "read" => \E n \in Names : dir[n] = cons.id /\ Twin(n, cons.name)
    /\ cons.pc = "open" => got = <<>> /\ cons.name = NoName /\ cons.start = NoName

\* It has read its file as far as it is, unless it began with it, the file cannot
\* be read, or it met an error there ...
HasRead ==
    /\ cons.pc = "read" /\ cons.name # cons.start /\ cons.garbled => ~Sound(cons.id)
    /\ cons.name # cons.start /\ Sound(dir[cons.name]) /\ cons.name \notin cons.bad =>
        IF cons.pc = "read"
        THEN \A p \in DOMAIN content[cons.id].msgs :
                p <= cons.pos => content[cons.id].msgs[p] \in Range(got)
        ELSE Msgs(cons.name) \subseteq Range(got)

\* ... and all files between that one and this.
Between ==
    ~missed => \A n \in Names : Before(cons.start, n) /\ Before(n, cons.name)
                  => /\ ~IsOpen(n)
                     /\ Sound(dir[n]) /\ n \notin cons.bad => Msgs(n) \subseteq Range(got)

\* x was read from the file of n.
ReadFrom(x, n) ==
    /\ x \in Msgs(n)
    /\ \/ Before(n, cons.name)
       \/ /\ Twin(n, cons.name)
          /\ cons.pc = "read" => \E p \in DOMAIN content[dir[n]].msgs :
                                    p <= cons.pos /\ x = content[dir[n]].msgs[p]

\* Messages of one key were read in their order.
GotInv ==
    /\ got \in Seq(Nat)
    /\ \A i \in DOMAIN got : \E n \in Names : ReadFrom(got[i], n)
    /\ \A i, j \in DOMAIN got : i < j /\ pushed[got[i]] = pushed[got[j]] => got[i] < got[j]

IsCons ==
    /\ cons \in [pc : {cons.pc}, name : {cons.name}, id : {cons.id}, pos : {cons.pos}, list : {cons.list},
                 garbled : {cons.garbled}, onTopic : {cons.onTopic}, start : {cons.start},
                 blind : {cons.blind}, bad : {cons.bad}]
    /\ missed \in BOOLEAN

ReadInv == IsCons /\ ListInv /\ PlaceOfCons /\ HasRead /\ Between /\ GotInv

-----------------------------------------------------------------------------
(* Names in order. *)

LEMMA NameParts ==
    ASSUME NEW n \in Name
    PROVE  n[1] \in Nat /\ n[2] \in Nat /\ n[3] \in Nat /\ n[4] \in {0, 1}
BY DEF Name

LEMMA NamesApart ==
    ASSUME NEW n \in Name, NEW m \in Name
    PROVE  /\ Before(n, m) \/ Before(m, n) \/ Twin(n, m)
           /\ ~(Before(n, m) /\ Before(m, n))
           /\ Twin(n, m) => ~Before(n, m) /\ Twin(m, n)
<1>1. n[1] \in Nat /\ n[2] \in Nat /\ m[1] \in Nat /\ m[2] \in Nat
  BY NameParts
<1> QED
  BY ONLY <1>1 DEF Before, Twin

LEMMA BeforeGoesOn ==
    ASSUME NEW n \in Name, NEW m \in Name, NEW t \in Name
    PROVE  /\ Before(n, m) /\ Before(m, t) => Before(n, t)
           /\ Twin(n, m) => /\ Before(n, t) <=> Before(m, t)
                            /\ Before(t, n) <=> Before(t, m)
                            /\ Twin(n, t) <=> Twin(m, t)
                            /\ Twin(t, n) <=> Twin(t, m)
<1>1. /\ n[1] \in Nat /\ n[2] \in Nat /\ m[1] \in Nat /\ m[2] \in Nat
      /\ t[1] \in Nat /\ t[2] \in Nat
  BY NameParts
<1> QED
  BY ONLY <1>1 DEF Before, Twin

LEMMA TwinNames ==
    ASSUME Inv, NEW n \in Names, NEW m \in Names, Twin(n, m)
    PROVE  n = m
BY DEF Inv, NamesInv, Twin

LEMMA TrimmedTwin ==
    ASSUME NEW n \in Name
    PROVE  LET t == TrimOpen(n)
           IN  /\ t \in Name /\ ~IsOpen(t) /\ TrimOpen(t) = t /\ Twin(n, t) /\ Twin(t, n)
               /\ ~IsOpen(n) => t = n
<1> DEFINE t == TrimOpen(n)
<1>1. t \in Name /\ t[1] = n[1] /\ t[2] = n[2] /\ t[3] = n[3] /\ t[4] = 0
  BY Trimmed
<1>2. ASSUME NEW m \in Name, m[4] = 0 PROVE TrimOpen(m) = m
  BY <1>2 DEF Name, TrimOpen
<1>3. n[4] \in {0, 1}
  BY NameParts
<1> HIDE DEF t
<1>4. ~IsOpen(n) => t = n
  BY <1>2, <1>3 DEF IsOpen, t
<1> QED
  BY <1>1, <1>2, <1>4 DEF IsOpen, Twin, t

LEMMA FromSame ==
    ASSUME NEW n \in Name, NEW m, From(n, m)
    PROVE  /\ m \in Name /\ Twin(n, m) /\ Twin(m, n) /\ m[3] = n[3] /\ dir'[m] = dir[n]
           /\ m \in {n, TrimOpen(n)} /\ (~IsOpen(n) => m = n) /\ (IsOpen(m) => m = n)
<1>1. /\ TrimOpen(n) \in Name /\ Twin(n, TrimOpen(n)) /\ Twin(TrimOpen(n), n) /\ ~IsOpen(TrimOpen(n))
      /\ TrimOpen(n)[3] = n[3]
  BY TrimmedTwin, Trimmed
<1> QED
  BY <1>1 DEF From, Twin

LEMMA LessOrder ==
    ASSUME NEW n \in Name, NEW m \in Name
    PROVE  /\ Less(n, m) \/ Less(m, n) \/ n = m
           /\ ~(Less(n, m) /\ Less(m, n))
           /\ Before(n, m) => Less(n, m)
           /\ Less(n, m) => Before(n, m) \/ Twin(n, m)
<1>1. /\ n[1] \in Nat /\ n[2] \in Nat /\ n[3] \in Nat /\ n[4] \in Nat
      /\ m[1] \in Nat /\ m[2] \in Nat /\ m[3] \in Nat /\ m[4] \in Nat
  BY NameParts
<1>2. n[1] = m[1] /\ n[2] = m[2] /\ n[3] = m[3] /\ n[4] = m[4] => n = m
  BY DEF Name
<1>3. /\ Less(n, m) <=> \/ Before(n, m)
                        \/ n[1] = m[1] /\ n[2] = m[2] /\ n[3] < m[3]
                        \/ n[1] = m[1] /\ n[2] = m[2] /\ n[3] = m[3] /\ n[4] < m[4]
      /\ Less(m, n) <=> \/ Before(m, n)
                        \/ m[1] = n[1] /\ m[2] = n[2] /\ m[3] < n[3]
                        \/ m[1] = n[1] /\ m[2] = n[2] /\ m[3] = n[3] /\ m[4] < n[4]
  BY LessParts
<1> QED
  BY ONLY <1>1, <1>2, <1>3 DEF Before, Twin

\* Nothing that a file is named after comes after its own ".open" name.
LEMMA LessThanTrimmed ==
    ASSUME NEW n \in Name, NEW m \in {n, TrimOpen(n)}
    PROVE  ~Less(n, m)
<1>1. /\ n[1] \in Nat /\ n[2] \in Nat /\ n[3] \in Nat /\ n[4] \in Nat /\ m \in Name
      /\ m[1] = n[1] /\ m[2] = n[2] /\ m[3] = n[3] /\ m[4] \in Nat /\ m[4] <= n[4]
  BY NameParts, Trimmed
<1>2. Less(n, m) <=> \/ Before(n, m)
                     \/ n[1] = m[1] /\ n[2] = m[2] /\ n[3] < m[3]
                     \/ n[1] = m[1] /\ n[2] = m[2] /\ n[3] = m[3] /\ n[4] < m[4]
  BY <1>1, LessParts
<1> QED
  BY ONLY <1>1, <1>2 DEF Before

\* A set of numbers that is not empty has a least one.
LEMMA LeastNat ==
    ASSUME NEW T \in SUBSET Nat, T # {}
    PROVE  \E m \in T : \A k \in T : m <= k
<1> DEFINE R == OpToRel(<, Nat)
<1>1. IsWellFoundedOn(R, Nat)
  BY NatLessThanWellFounded
<1>2. \A x, y \in Nat : <<y, x>> \in R <=> y < x
  BY DEF OpToRel
<1> HIDE DEF R
<1>3. \E x \in T : \A y \in T : ~ (<<y, x>> \in R)
  BY <1>1, WFMin
<1>4. PICK x \in T : \A y \in T : ~ (<<y, x>> \in R)
  BY <1>3
<1>5. \A y \in T : x \in Nat /\ y \in Nat /\ ~(y < x)
  BY <1>2, <1>4
<1> QED
  BY <1>5

LEMMA LeastPart ==
    ASSUME NEW i \in 1 .. 4, NEW T \in SUBSET Name, T # {}
    PROVE  \E n \in T : \A m \in T : n[i] \in Nat /\ m[i] \in Nat /\ n[i] <= m[i]
<1> DEFINE P == {n[i] : n \in T}
<1>1. i = 1 \/ i = 2 \/ i = 3 \/ i = 4
  OBVIOUS
<1>2. \A n \in T : n[i] \in Nat
  BY <1>1, NameParts
<1>3. P \in SUBSET Nat /\ P # {}
  BY <1>2
<1> HIDE DEF P
<1>4. PICK a \in P : \A b \in P : a <= b
  BY <1>3, LeastNat
<1>5. PICK n \in T : a = n[i]
  BY <1>4 DEF P
<1>6. \A m \in T : m[i] \in P
  BY DEF P
<1> QED
  BY <1>2, <1>4, <1>5, <1>6

\* A set of names that is not empty has a first one.
LEMMA FirstName ==
    ASSUME NEW T \in SUBSET Name, T # {}
    PROVE  \E n \in T : \A m \in T : m = n \/ Less(n, m)
<1>1. PICK a \in T : \A m \in T : a[1] \in Nat /\ m[1] \in Nat /\ a[1] <= m[1]
  BY LeastPart
<1> DEFINE A == {m \in T : m[1] = a[1]}
<1>2. PICK b \in A : \A m \in A : b[2] \in Nat /\ m[2] \in Nat /\ b[2] <= m[2]
  <2>1. A \in SUBSET Name /\ A # {}
    OBVIOUS
  <2> HIDE DEF A
  <2> QED
    BY <2>1, LeastPart
<1> DEFINE B == {m \in A : m[2] = b[2]}
<1>3. PICK c \in B : \A m \in B : c[3] \in Nat /\ m[3] \in Nat /\ c[3] <= m[3]
  <2>1. B \in SUBSET Name /\ B # {}
    BY <1>2
  <2> HIDE DEF B
  <2> QED
    BY <2>1, LeastPart
<1> DEFINE C == {m \in B : m[3] = c[3]}
<1>4. PICK d \in C : \A m \in C : d[4] \in Nat /\ m[4] \in Nat /\ d[4] <= m[4]
  <2>1. C \in SUBSET Name /\ C # {}
    BY <1>3
  <2> HIDE DEF C
  <2> QED
    BY <2>1, LeastPart
<1>5. /\ d \in T /\ d \in Name /\ d[1] = a[1] /\ d[2] = b[2] /\ d[3] = c[3]
      /\ d[1] \in Nat /\ d[2] \in Nat /\ d[3] \in Nat /\ d[4] \in Nat
  BY <1>1, <1>2, <1>3, <1>4
<1>6. ASSUME NEW m \in T PROVE m = d \/ Less(d, m)
  <2>1. m \in Name /\ m[1] \in Nat /\ m[2] \in Nat /\ m[3] \in Nat /\ m[4] \in Nat
    BY NameParts
  <2>2. /\ d[1] <= m[1]
        /\ m[1] = d[1] => d[2] <= m[2]
        /\ m[1] = d[1] /\ m[2] = d[2] => d[3] <= m[3]
        /\ m[1] = d[1] /\ m[2] = d[2] /\ m[3] = d[3] => d[4] <= m[4]
    BY <1>1, <1>2, <1>3, <1>4, <1>5
  <2>3. m[1] = d[1] /\ m[2] = d[2] /\ m[3] = d[3] /\ m[4] = d[4] => m = d
    BY <1>5, <2>1 DEF Name
  <2>4. Less(d, m) <=> \/ Before(d, m)
                       \/ d[1] = m[1] /\ d[2] = m[2] /\ d[3] < m[3]
                       \/ d[1] = m[1] /\ d[2] = m[2] /\ d[3] = m[3] /\ d[4] < m[4]
    BY <1>5, <2>1, LessParts
  <2> QED
    BY ONLY <1>5, <2>1, <2>2, <2>3, <2>4 DEF Before
<1> QED
  BY <1>5, <1>6

-----------------------------------------------------------------------------
(* What every step keeps. *)

LEMMA PlacedStays ==
    ASSUME Inv, [Next]_vars, ~misnamed', NEW p, Placed(p)
    PROVE  Placed(p)'
<1>1. /\ p \in Name /\ p[1] \in Nat /\ p[2] \in Nat /\ p[1] <= sec
      /\ seqno > 0 /\ p[1] = sec => p[2] <= Place(seqno)
  BY NameParts DEF Placed
<1>2. /\ sec \in Nat /\ seqno \in Nat
      /\ Place(seqno) \in Nat /\ Place(seqno + 1) \in Nat
  BY PlaceType DEF Inv, NamesInv
<1>3. \/ sec' = sec /\ seqno' \in {seqno, 0}
      \/ \E t \in Seconds : Named(t)
  <2>1. CASE UNCHANGED vars
    BY <2>1 DEF vars, producer
  <2>2. CASE NewProducer
    BY <2>2 DEF NewProducer
  <2>3. ASSUME NEW k \in Keys, NEW b \in BOOLEAN, GetFile(k, b) PROVE <1>3
    <3>1. \/ UNCHANGED <<seqno, sec>>
          \/ \E t \in Seconds : NewFile(k, t) \/ NotOpened(k, t)
      BY <2>3 DEF GetFile
    <3> QED
      BY <3>1 DEF NewFile, NotOpened
  <2>4. ASSUME NEW next, Commit(next) PROVE <1>3!1
    BY <2>4 DEF Commit
  <2>5. CASE Write
    BY <2>5 DEF Write
  <2>6. CASE ReplaceSchema
    BY <2>6 DEF ReplaceSchema
  <2>7. CASE Close
    BY <2>7 DEF Close, Gone
  <2>8. CASE Crash
    BY <2>8 DEF Crash, Gone
  <2>9. CASE NewConsumer \/ Consumer \/ CloseConsumer
    BY <2>9 DEF NewConsumer, Consumer, CloseConsumer, OpenFirst, Read, Watch, WatchParent,
                ReadNames, NextFile, Wake, producer
  <2> QED
    BY <2>1, <2>2, <2>3, <2>4, <2>5, <2>6, <2>7, <2>8, <2>9 DEF Next, PushBatchCommit, PushSchema
<1>4. CASE sec' = sec /\ seqno' \in {seqno, 0}
  <2>1. p[1] <= sec' /\ (seqno' > 0 /\ p[1] = sec' => seqno' = seqno /\ p[2] <= Place(seqno))
    BY ONLY <1>1, <1>2, <1>4
  <2> QED
    BY <1>1, <2>1 DEF Placed
<1>5. ASSUME NEW t \in Seconds, Named(t) PROVE Placed(p)'
  <2>1. ~(t = sec /\ (seqno = 0 \/ Place(seqno) >= Place(seqno + 1)))
    BY <1>5 DEF Named
  <2>2. t \in Nat /\ sec <= t /\ sec' = t /\ seqno' = seqno + 1
    BY <1>2, <1>5 DEF Seconds, Named
  <2>3. p[1] <= sec' /\ (p[1] = sec' => p[2] <= Place(seqno + 1))
    BY ONLY <1>1, <1>2, <2>1, <2>2
  <2> QED
    BY <1>1, <2>2, <2>3 DEF Placed
<1> QED
  BY <1>3, <1>4, <1>5

\* A file that nobody has open is left alone.
Unopened(i) == \A k \in FilesOpen : files[k].id # i

OthersStay == \A i \in 1 .. Len(content) : Unopened(i) => content'[i] = content[i]

LEMMA SharedOthers ==
    ASSUME Inv, NEW k \in Keys, NEW i \in 1 .. Len(content), Unopened(i)
    PROVE  Shared(k)[i] = content[i]
BY SharedMsgs DEF Unopened

\* It is not the one that is closed.
LEMMA ClosedOthers ==
    ASSUME Inv, NEW k \in Keys, files[k] # NoFile, NEW c, c \in Seq(Range(c)), Len(c) = Len(content),
           \A i \in 1 .. Len(content) : SameFile(content[i], c[i]) /\ (Unopened(i) => c[i] = content[i]),
           NEW f, f.id = files[k].id, NEW n,
           \/ \E whole, rename \in BOOLEAN : CloseFile(c, f, n, whole, rename)
           \/ content' = Written(c, f, n)
    PROVE  OthersStay
<1>1. f.id \in 1 .. Len(c)
  BY DEF Inv, FilesInv, FileInv
<1>2. IsFile(c[f.id])
  BY <1>1 DEF SameFile
<1>3. \A i \in 1 .. Len(c) : i # f.id => content'[i] = c[i]
  BY <1>1, <1>2, ClosedMsgs, WrittenMsgs
<1>4. k \in FilesOpen
  BY DEF FilesOpen
<1> QED
  BY <1>3, <1>4 DEF OthersStay, Unopened

LEMMA NextOthers == ASSUME Inv, [Next]_vars, ~misnamed' PROVE OthersStay
<1>1. ASSUME content' = content PROVE OthersStay
  BY <1>1 DEF OthersStay
<1>2. /\ content \in Seq(Range(content))
      /\ \A i \in 1 .. Len(content) :
            SameFile(content[i], content[i]) /\ (Unopened(i) => content[i] = content[i])
  BY DEF Inv, DirInv, SameFile
<1>3. CASE UNCHANGED vars
  BY <1>1, <1>3 DEF vars, disk
<1>4. CASE NewProducer \/ Crash \/ NewConsumer \/ Consumer \/ CloseConsumer
  <2>1. content' = content
    BY <1>4 DEF NewProducer, Crash, NewConsumer, Consumer, CloseConsumer, OpenFirst, Read, Watch,
                WatchParent, ReadNames, NextFile, Wake, disk
  <2> QED
    BY <1>1, <2>1
<1>5. ASSUME NEW k \in Keys, NEW b \in BOOLEAN, GetFile(k, b) PROVE OthersStay
  <2>1. ASSUME NEW c \in {Shared(k), content}, NEW file, content' = Append(c, file)
        PROVE  OthersStay
    <3>1. /\ c \in Seq(Range(c)) /\ Len(c) = Len(content)
          /\ \A i \in 1 .. Len(content) : Unopened(i) => c[i] = content[i]
      <4>1. CASE c = content
        BY <1>2, <4>1
      <4>2. CASE c = Shared(k)
        BY <4>2, SharedFiles, SharedOthers
      <4> QED
        BY <4>1, <4>2
    <3> HIDE DEF OthersStay
    <3>2. \A i \in 1 .. Len(content) : content'[i] = c[i]
      BY <2>1, <3>1, AppendFile
    <3> QED
      BY <3>1, <3>2 DEF OthersStay
  <2>2. ASSUME NEW t \in Seconds, NewFile(k, t) PROVE OthersStay
    <3> DEFINE n == NewFileName(k, t)
    <3>1. Named(t) /\ n \notin Names
      BY <2>2, NewNameIsNew DEF NewFile
    <3> HIDE DEF n
    <3>2. \E file : content' = Append(Shared(k), file)
      BY <2>2, <3>1 DEF NewFile, PutFile, n
    <3> QED
      BY <2>1, <3>2
  <2>3. ASSUME NEW t \in Seconds, NotOpened(k, t), files[k] = NoFile PROVE OthersStay
    <3>1. content' = content \/ \E c \in {Shared(k), content} : \E file : content' = Append(c, file)
      BY <2>3, NotOpenedCases
    <3> QED
      BY <1>1, <2>1, <3>1
  <2>4. \/ content' = content
        \/ files[k] = NoFile /\ \E t \in Seconds : NewFile(k, t) \/ NotOpened(k, t)
    BY <1>5 DEF GetFile, disk
  <2> QED
    BY <1>1, <2>2, <2>3, <2>4
<1>6. ASSUME NEW next, Commit(next) PROVE OthersStay
  <2>1. PICK bad, n : FlushAll(bad, n)
    BY <1>6 DEF Commit
  <2>2. DOMAIN content = 1 .. Len(content)
    BY KeyIn
  <2>3. ASSUME NEW i \in 1 .. Len(content), Unopened(i) PROVE content'[i] = content[i]
    <3>1. ~ \E k \in FilesOpen : files[k].id = i
      BY <2>3 DEF Unopened
    <3> QED
      BY <2>1, <2>2, <3>1 DEF FlushAll
  <2> QED
    BY <2>3 DEF OthersStay
<1>7. CASE Write
  <2> DEFINE k == call.key
             f == [files[k] EXCEPT !.buf = Append(@, NextMsg), !.size = @ + 1]
  <2>1. k \in Keys /\ files[k] # NoFile /\ IsHandle(files[k])
    BY <1>7 DEF Write, Inv, CallInv, FilesInv, FileInv
  <2>2. f.id = files[k].id
    BY <2>1, PushFills
  <2>3. \/ content' = content
        \/ \E n \in Writable(f) : \/ \E whole, rename \in BOOLEAN : CloseFile(content, f, n, whole, rename)
                                  \/ content' = Written(content, f, n)
    BY <1>7 DEF Write, disk
  <2> HIDE DEF k, f
  <2> QED
    BY <1>1, <1>2, <2>1, <2>2, <2>3, ClosedOthers
<1>8. CASE ReplaceSchema
  <2> DEFINE k == call.key
             c == Shared(k)
  <2>1. k \in Keys
    BY <1>8 DEF ReplaceSchema, Inv, CallInv
  <2>2. /\ c \in Seq(Range(c)) /\ Len(c) = Len(content)
        /\ \A i \in 1 .. Len(content) :
              SameFile(content[i], c[i]) /\ (Unopened(i) => c[i] = content[i])
    BY <2>1, SharedFiles, SharedOthers
  <2>3. \/ content' = c
        \/ /\ files[k] # NoFile
           /\ \E whole, rename \in BOOLEAN : CloseFile(c, files[k], 0, whole, rename)
    BY <1>8 DEF ReplaceSchema
  <2> HIDE DEF k, c
  <2>4. CASE content' = c
    BY <2>2, <2>4 DEF OthersStay
  <2> QED
    BY <2>1, <2>2, <2>3, <2>4, ClosedOthers
<1>9. CASE Close
  <2>1. \/ content' = content
        \/ \E k \in Keys : /\ files[k] # NoFile
                           /\ \E n \in Writable(files[k]), whole, rename \in BOOLEAN :
                                 CloseFile(content, files[k], n, whole, rename)
    BY <1>9 DEF Close, FilesOpen, disk
  <2> QED
    BY <1>1, <1>2, <2>1, ClosedOthers
<1> QED
  BY <1>3, <1>4, <1>5, <1>6, <1>7, <1>8, <1>9 DEF Next, PushBatchCommit, PushSchema

\* What is known of a step, to the rest of the proof.
Goes ==
    /\ Moves /\ \A p : Placed(p) => Placed(p)'
    /\ \A x \in DOMAIN pushed : x \in DOMAIN pushed' /\ pushed'[x] = pushed[x]
    /\ \A n \in Names : ~IsOpen(n) => content'[dir[n]] = content[dir[n]]

LEMMA AppendKeeps ==
    ASSUME NEW S, NEW s \in Seq(S), NEW e
    PROVE  \A x \in DOMAIN s : x \in DOMAIN Append(s, e) /\ Append(s, e)[x] = s[x]
<1>1. /\ Len(s) \in Nat /\ DOMAIN s = 1 .. Len(s) /\ DOMAIN Append(s, e) = 1 .. Len(s) + 1
      /\ \A x \in 1 .. Len(s) : Append(s, e)[x] = s[x]
  OBVIOUS
<1> QED
  BY <1>1

LEMMA StepGoes == ASSUME Inv, HoldInv, [Next]_vars, ~misnamed' PROVE Goes
<1>1. Moves /\ \A p : Placed(p) => Placed(p)'
  BY NextHold, PlacedStays
<1>2. pushed' = pushed \/ \E k : pushed' = Append(pushed, k)
  <2>1. CASE UNCHANGED vars
    BY <2>1 DEF vars, history
  <2>2. CASE NewProducer
    BY <2>2 DEF NewProducer, history
  <2>3. ASSUME NEW k \in Keys, NEW b \in BOOLEAN, GetFile(k, b) PROVE <1>2
    BY <2>3 DEF GetFile
  <2>4. ASSUME NEW next, Commit(next) PROVE <1>2
    BY <2>4 DEF Commit
  <2>5. CASE Write
    BY <2>5 DEF Write
  <2>6. CASE ReplaceSchema
    BY <2>6 DEF ReplaceSchema, history
  <2>7. CASE Close
    BY <2>7 DEF Close
  <2>8. CASE Crash
    BY <2>8 DEF Crash
  <2>9. CASE NewConsumer \/ Consumer \/ CloseConsumer
    BY <2>9 DEF NewConsumer, Consumer, CloseConsumer, OpenFirst, Read, Watch, WatchParent,
                ReadNames, NextFile, Wake, history
  <2> QED
    BY <2>1, <2>2, <2>3, <2>4, <2>5, <2>6, <2>7, <2>8, <2>9 DEF Next, PushBatchCommit, PushSchema
<1>3. pushed \in Seq(Keys)
  BY DEF HoldInv
<1>4. \A x \in DOMAIN pushed : x \in DOMAIN pushed' /\ pushed'[x] = pushed[x]
  BY <1>2, <1>3, AppendKeeps
<1>5. ASSUME NEW n \in Names, ~IsOpen(n) PROVE content'[dir[n]] = content[dir[n]]
  <2>1. ASSUME NEW k \in FilesOpen PROVE files[k].id # dir[n]
    <3>1. k \in Keys /\ FileInv(k)
      BY DEF FilesOpen, Inv, FilesInv
    <3> QED
      BY <1>5, <3>1 DEF FileInv, IsOpen
  <2>2. dir[n] \in 1 .. Len(content)
    BY NamesTyped
  <2> QED
    BY <2>1, <2>2, NextOthers DEF OthersStay, Unopened
<1> QED
  BY <1>1, <1>4, <1>5 DEF Goes

\* A new name comes after all that were chosen.
LEMMA FreshIsLast ==
    ASSUME Inv, NEW m, Fresh(m), NEW p, Placed(p)
    PROVE  Before(p, m) /\ ~Before(m, p) /\ ~Twin(m, p) /\ ~Twin(p, m) /\ m \in Name
<1>1. /\ m \in Name /\ m[1] \in Nat /\ m[2] \in Nat /\ sec <= m[1]
      /\ m[1] = sec => seqno > 0 /\ Place(seqno) < m[2]
  BY NameParts DEF Fresh
<1>2. /\ p[1] \in Nat /\ p[2] \in Nat /\ p[1] <= sec
      /\ seqno > 0 /\ p[1] = sec => p[2] <= Place(seqno)
  BY NameParts DEF Placed
<1>3. sec \in Nat /\ seqno \in Nat /\ Place(seqno) \in Nat
  BY PlaceType DEF Inv, NamesInv
<1> QED
  BY ONLY <1>1, <1>2, <1>3 DEF Before, Twin

LEMMA NamesPlaced ==
    ASSUME Inv, NEW n \in Names
    PROVE  n \in Name /\ Placed(n) /\ Known(n)
<1>1. n \in Name /\ Placed(n)
  BY DEF Inv, NamesInv, Placed
<1> QED
  BY <1>1, TwinNames DEF Known

LEMMA KnownStays ==
    ASSUME Inv, Goes, NEW p, Known(p)
    PROVE  Known(p)'
<1>1. Placed(p) /\ Placed(p)' /\ p \in Name
  BY DEF Known, Goes, Placed
<1>2. ASSUME NEW m \in Names', Twin(m, p) PROVE m \in {p, TrimOpen(p)}
  <2>1. ~Fresh(m)
    BY <1>1, <1>2, FreshIsLast
  <2>2. PICK n \in Names : From(n, m)
    BY <2>1 DEF Goes, Moves
  <2>3. n \in Name
    BY NamesPlaced
  <2>4. m \in Name /\ Twin(n, m) /\ m \in {n, TrimOpen(n)}
    BY <2>2, <2>3, FromSame
  <2>5. n \in {p, TrimOpen(p)}
    BY <1>1, <1>2, <2>3, <2>4, BeforeGoesOn DEF Known
  <2>6. TrimOpen(TrimOpen(p)) = TrimOpen(p)
    BY <1>1, TrimmedTwin
  <2> QED
    BY <2>4, <2>5, <2>6
<1> QED
  BY <1>1, <1>2 DEF Known

LEMMA PlaceHolds == ASSUME Inv, Inv', PlaceInv, Goes PROVE PlaceInv'
<1>2. ASSUME NEW m \in Names'
      PROVE  /\ m \in Name
             /\ \/ Fresh(m) /\ dir'[m] = Len(content) + 1
                \/ \E n \in Names : /\ n \in Name /\ Placed(n) /\ Twin(n, m) /\ Twin(m, n) /\ m[3] = n[3]
                                    /\ dir'[m] = dir[n]
  <2>1. CASE Fresh(m)
    BY <2>1 DEF Fresh
  <2>2. ASSUME NEW n \in Names, From(n, m) PROVE <1>2!2
    BY <2>2, NamesPlaced, FromSame
  <2> QED
    BY <2>1, <2>2 DEF Goes, Moves
<1>3. ASSUME NEW m \in Names' PROVE m[1] > 0 /\ m[3] \in Keys
  <2>1. CASE Fresh(m)
    BY <2>1 DEF Fresh, PlaceInv
  <2>2. ASSUME NEW n \in Names, Twin(m, n), m[3] = n[3] PROVE <1>3!2
    BY <2>2 DEF PlaceInv, Twin
  <2> QED
    BY <1>2, <2>1, <2>2
<1>4. ASSUME NEW l \in Names', NEW m \in Names', Before(l, m) PROVE dir'[l] < dir'[m]
  <2>1. ASSUME Fresh(l) PROVE FALSE
    <3>1. CASE Fresh(m)
      BY <1>2, <1>4, <2>1, <3>1, NamesApart DEF Fresh, Twin
    <3>2. ASSUME NEW n \in Names, Placed(n), n \in Name, Twin(m, n) PROVE FALSE
      <4>1. ~Before(l, n) /\ l \in Name /\ m \in Name
        BY <1>2, <2>1, <3>2, FreshIsLast
      <4> QED
        BY <1>4, <3>2, <4>1, BeforeGoesOn
    <3> QED
      BY <1>2, <3>1, <3>2
  <2>2. ASSUME NEW n \in Names, n \in Name, Twin(n, l), Placed(n), dir'[l] = dir[n], Fresh(m)
        PROVE  dir'[l] < dir'[m]
    <3>1. dir[n] \in Nat /\ dir[n] <= Len(content) /\ Len(content) \in Nat
      BY KeyIn, NamesTyped
    <3> QED
      BY <2>2, <3>1 DEF Fresh
  <2>3. ASSUME NEW n \in Names, n \in Name, Twin(n, l), dir'[l] = dir[n],
               NEW t \in Names, t \in Name, Twin(t, m), dir'[m] = dir[t]
        PROVE  dir'[l] < dir'[m]
    <3>1. Before(n, t)
      BY <1>2, <1>4, <2>3, BeforeGoesOn
    <3> QED
      BY <2>3, <3>1 DEF PlaceInv
  <2> QED
    BY <1>2, <2>1, <2>2, <2>3
<1> QED
  BY <1>3, <1>4 DEF PlaceInv

-----------------------------------------------------------------------------
(* The steps of the producer. *)

LEMMA FilesOfKey ==
    ASSUME HoldInv, PlaceInv, NEW n \in Names
    PROVE  /\ IsMsgs(content[dir[n]].msgs)
           /\ \A x \in Msgs(n) : x \in DOMAIN pushed /\ x \in Nat /\ pushed[x] = n[3]
           /\ \A m \in Names : n[3] = m[3] /\ Before(n, m) => Below(Msgs(n), Msgs(m))
<1> DEFINE k == n[3]
<1>1. k \in Keys /\ HoldKey(k) /\ n \in NamesOf(k)
  BY DEF HoldInv, PlaceInv, NamesOf
<1>2. \A m \in Names : k = m[3] => m \in NamesOf(k)
  BY DEF NamesOf
<1>3. Msgs(n) \subseteq Kept(k)
  BY <1>1, KeptBy
<1>4. \A x \in Kept(k) : x \in Of(k)
  BY <1>1 DEF HoldKey
<1>5. \A x \in Of(k) : x \in DOMAIN pushed /\ pushed[x] = k
  BY DEF Of
<1>6. DOMAIN pushed \subseteq Nat
  BY DEF HoldInv
<1> HIDE DEF k
<1>7. /\ IsMsgs(content[dir[n]].msgs)
      /\ \A m \in NamesOf(k) : Before(n, m) => Below(Msgs(n), Msgs(m))
  BY <1>1 DEF HoldKey
<1> QED
  BY <1>2, <1>3, <1>4, <1>5, <1>6, <1>7 DEF k

\* Where a name goes ...
LEMMA NameLeads ==
    ASSUME Inv, Goes, NEW n \in Names
    PROVE  \E m \in Names' :
              /\ m \in Name /\ Twin(n, m) /\ Twin(m, n) /\ m[3] = n[3] /\ dir'[m] = dir[n]
              /\ m \in {n, TrimOpen(n)} /\ (~IsOpen(n) => m = n)
              /\ Prefix(content[dir[n]].msgs, content'[dir[n]].msgs)
              /\ ~IsOpen(n) => content'[dir[n]] = content[dir[n]]
<1>1. n \in Name
  BY NamesPlaced
<1>2. PICK m \in Names' : From(n, m)
  BY DEF Goes, Moves
<1>3. /\ Prefix(content[dir[n]].msgs, content'[dir[n]].msgs)
      /\ ~IsOpen(n) => content'[dir[n]] = content[dir[n]]
  BY DEF Goes, Moves
<1> QED
  BY <1>1, <1>2, <1>3, FromSame

\* ... and where it comes from.
LEMMA NameComes ==
    ASSUME Inv, Goes, NEW m \in Names'
    PROVE  \/ Fresh(m)
           \/ \E n \in Names :
                 /\ n \in Name /\ m \in Name /\ Twin(n, m) /\ Twin(m, n) /\ dir'[m] = dir[n]
                 /\ m \in {n, TrimOpen(n)} /\ (~IsOpen(n) => m = n)
                 /\ ~IsOpen(n) => content'[dir[n]] = content[dir[n]]
<1>1. CASE Fresh(m)
  BY <1>1
<1> SUFFICES ASSUME ~Fresh(m) PROVE \E n \in Names :
                 /\ n \in Name /\ m \in Name /\ Twin(n, m) /\ Twin(m, n) /\ dir'[m] = dir[n]
                 /\ m \in {n, TrimOpen(n)} /\ (~IsOpen(n) => m = n)
                 /\ ~IsOpen(n) => content'[dir[n]] = content[dir[n]]
  BY <1>1
<1>2. PICK n \in Names : From(n, m)
  BY DEF Goes, Moves
<1>3. ~IsOpen(n) => content'[dir[n]] = content[dir[n]]
  BY DEF Goes, Moves
<1> QED
  BY <1>2, <1>3, NamesPlaced, FromSame

\* A closed file.
LEMMA ClosedStays ==
    ASSUME Inv, Goes, NEW n \in Names, ~IsOpen(n)
    PROVE  /\ n \in Names' /\ dir'[n] = dir[n] /\ Msgs(n)' = Msgs(n)
           /\ content'[dir[n]] = content[dir[n]]
           /\ Sound(dir[n])' <=> Sound(dir[n])
<1>1. n \in Names' /\ dir'[n] = dir[n] /\ content'[dir[n]] = content[dir[n]]
  BY NameLeads
<1>2. Sound(dir[n])' <=> Sound(dir[n])
  BY <1>1 DEF Sound, OwnIV
<1> QED
  BY <1>1, <1>2 DEF Msgs

LEMMA ListStays ==
    ASSUME Inv, Goes, ListInv, UNCHANGED cons
    PROVE  ListInv'
<1> SUFFICES ASSUME cons.pc = "stat"
             PROVE  /\ \A l \in cons.list : Placed(l)' /\ (l \in Names' \/ TrimOpen(l) \in Names')
                    /\ \A m \in Names' : \/ \E l \in cons.list : m \in {l, TrimOpen(l)}
                                         \/ \A l \in cons.list : Before(l, m)
  BY DEF ListInv
<1>1. /\ \A l \in cons.list : Placed(l) /\ l \in Name /\ (l \in Names \/ TrimOpen(l) \in Names)
      /\ \A n \in Names : \/ \E l \in cons.list : n \in {l, TrimOpen(l)}
                          \/ \A l \in cons.list : Before(l, n)
  BY DEF ListInv, Placed
<1>2. ASSUME NEW l \in cons.list PROVE Placed(l)' /\ (l \in Names' \/ TrimOpen(l) \in Names')
  <2>1. Placed(l)' /\ ~IsOpen(TrimOpen(l))
    BY <1>1, TrimmedTwin DEF Goes
  <2>2. CASE l \in Names
    BY <2>1, <2>2, NameLeads
  <2>3. CASE TrimOpen(l) \in Names
    BY <2>1, <2>3, ClosedStays
  <2> QED
    BY <1>1, <2>1, <2>2, <2>3
<1>3. ASSUME NEW m \in Names'
      PROVE  \/ \E l \in cons.list : m \in {l, TrimOpen(l)}
             \/ \A l \in cons.list : Before(l, m)
  <2>1. CASE Fresh(m)
    BY <1>1, <2>1, FreshIsLast
  <2>2. ASSUME NEW n \in Names, n \in Name, m \in Name, Twin(n, m), m \in {n, TrimOpen(n)}
        PROVE  <1>3!2
    <3>1. ASSUME NEW l \in cons.list, n \in {l, TrimOpen(l)} PROVE m \in {l, TrimOpen(l)}
      <4>1. TrimOpen(TrimOpen(l)) = TrimOpen(l)
        BY <1>1, TrimmedTwin
      <4> QED
        BY <2>2, <3>1, <4>1
    <3>2. ASSUME NEW l \in cons.list, Before(l, n) PROVE Before(l, m)
      BY <1>1, <2>2, <3>2, BeforeGoesOn
    <3> QED
      BY <1>1, <3>1, <3>2
  <2> QED
    BY <2>1, <2>2, NameComes
<1> QED
  BY <1>2, <1>3

LEMMA PlaceOfConsStays ==
    ASSUME Inv, Goes, PlaceOfCons, UNCHANGED <<cons, got>>
    PROVE  PlaceOfCons'
<1>1. Known(cons.name)' /\ Known(cons.start)'
  BY KnownStays DEF PlaceOfCons
<1>2. cons.name # cons.start => cons.name \in Names' /\ ~IsOpen(cons.name)
  BY ClosedStays DEF PlaceOfCons
<1>3. ASSUME cons.pc = "read" PROVE \E m \in Names' : dir'[m] = cons.id /\ Twin(m, cons.name)
  <2>1. PICK n \in Names : dir[n] = cons.id /\ Twin(n, cons.name)
    BY <1>3 DEF PlaceOfCons
  <2>2. PICK m \in Names' : m \in Name /\ Twin(n, m) /\ dir'[m] = dir[n]
    BY NameLeads
  <2>3. n \in Name /\ cons.name \in Name
    BY NamesPlaced DEF PlaceOfCons, Known, Placed
  <2> QED
    BY <2>1, <2>2, <2>3, BeforeGoesOn
<1> QED
  BY <1>1, <1>2, <1>3 DEF PlaceOfCons

\* The file that is read, unless the consumer began with it.
LEMMA FileOfCons ==
    ASSUME Inv, PlaceOfCons, cons.name # cons.start, cons.pc = "read"
    PROVE  cons.name \in Names /\ ~IsOpen(cons.name) /\ dir[cons.name] = cons.id
<1>1. PICK n \in Names : dir[n] = cons.id /\ Twin(n, cons.name)
  BY DEF PlaceOfCons
<1>2. cons.name \in Names /\ ~IsOpen(cons.name)
  BY DEF PlaceOfCons
<1> QED
  BY <1>1, <1>2, TwinNames

LEMMA HasReadStays ==
    ASSUME Inv, Goes, PlaceOfCons, HasRead, UNCHANGED <<cons, got>>
    PROVE  HasRead'
<1>1. CASE cons.name = cons.start
  BY <1>1 DEF HasRead
<1>2. CASE cons.name # cons.start
  <2>1. cons.name \in Names /\ ~IsOpen(cons.name)
    BY <1>2 DEF PlaceOfCons
  <2>2. /\ Msgs(cons.name)' = Msgs(cons.name) /\ (Sound(dir[cons.name])' <=> Sound(dir[cons.name]))
        /\ content'[dir[cons.name]] = content[dir[cons.name]]
    <3> DEFINE n == cons.name
    <3>1. n' = n
      OBVIOUS
    <3> HIDE DEF n
    <3>2. /\ dir'[n] = dir[n] /\ content'[dir[n]] = content[dir[n]]
      BY <2>1, ClosedStays DEF n
    <3> QED
      BY <3>1, <3>2 DEF Msgs, Sound, OwnIV, n
  <2>3. cons.pc = "read" => content'[cons.id] = content[cons.id]
    BY <1>2, <2>2, FileOfCons
  <2>4. cons.pc = "read" => (Sound(cons.id)' <=> Sound(cons.id))
    BY <2>3 DEF Sound, OwnIV
  <2> QED
    BY <1>2, <2>2, <2>3, <2>4 DEF HasRead
<1> QED
  BY <1>1, <1>2

LEMMA BetweenStays ==
    ASSUME Inv, Goes, PlaceOfCons, Between, UNCHANGED <<cons, got, missed>>
    PROVE  Between'
<1> SUFFICES ASSUME ~missed, NEW m \in Names', Before(cons.start, m), Before(m, cons.name)
             PROVE  /\ ~IsOpen(m)
                    /\ Sound(dir[m])' /\ m \notin cons.bad => Msgs(m)' \subseteq Range(got)
  BY DEF Between
<1>1. Placed(cons.name) /\ cons.name \in Name /\ cons.start \in Name
  BY DEF PlaceOfCons, Known, Placed
<1>2. ~Fresh(m)
  BY <1>1, FreshIsLast
<1>3. PICK n \in Names :
        /\ n \in Name /\ m \in Name /\ Twin(n, m) /\ dir'[m] = dir[n] /\ (~IsOpen(n) => m = n)
        /\ ~IsOpen(n) => content'[dir[n]] = content[dir[n]]
  BY <1>2, NameComes
<1>4. Before(cons.start, n) /\ Before(n, cons.name)
  BY <1>1, <1>3, BeforeGoesOn
<1>5. ~IsOpen(n) /\ (Sound(dir[n]) /\ n \notin cons.bad => Msgs(n) \subseteq Range(got))
  BY <1>4 DEF Between
<1>6. m = n /\ dir'[m] = dir[m] /\ content'[dir[m]] = content[dir[m]]
  BY <1>3, <1>5
<1>7. (Sound(dir[m])' <=> Sound(dir[m])) /\ Msgs(m)' = Msgs(m)
  BY <1>6 DEF Sound, OwnIV, Msgs
<1> QED
  BY <1>5, <1>6, <1>7

LEMMA GotStays ==
    ASSUME Inv, HoldInv, PlaceInv, Goes, PlaceOfCons, GotInv, UNCHANGED <<cons, got>>
    PROVE  GotInv'
<1>1. ASSUME NEW i \in DOMAIN got PROVE \E m \in Names' : ReadFrom(got[i], m)'
  <2>1. PICK n \in Names : ReadFrom(got[i], n)
    BY DEF GotInv
  <2>2. PICK m \in Names' :
          /\ m \in Name /\ Twin(n, m) /\ dir'[m] = dir[n]
          /\ Prefix(content[dir[n]].msgs, content'[dir[n]].msgs)
    BY NameLeads
  <2>3. n \in Name /\ cons.name \in Name
    BY NamesPlaced DEF PlaceOfCons, Known, Placed
  <2>4. /\ Before(n, cons.name) <=> Before(m, cons.name)
        /\ Twin(n, cons.name) <=> Twin(m, cons.name)
    BY <2>2, <2>3, BeforeGoesOn
  <2>5. got[i] \in Msgs(m)'
    BY <2>1, <2>2 DEF ReadFrom, Msgs, Prefix, Range
  <2>6. ASSUME Twin(n, cons.name), cons.pc = "read"
        PROVE  \E p \in DOMAIN content'[dir'[m]].msgs : p <= cons.pos /\ got[i] = content'[dir'[m]].msgs[p]
    <3>1. Before(n, cons.name) => FALSE
      BY <2>3, <2>6, NamesApart
    <3>2. PICK p \in DOMAIN content[dir[n]].msgs : p <= cons.pos /\ got[i] = content[dir[n]].msgs[p]
      BY <2>1, <2>6, <3>1 DEF ReadFrom
    <3>3. /\ p \in DOMAIN content'[dir[n]].msgs
          /\ content'[dir[n]].msgs[p] = content[dir[n]].msgs[p]
      BY <2>2 DEF Prefix
    <3> QED
      BY <2>2, <3>2, <3>3
  <2>7. Before(n, cons.name) \/ Twin(n, cons.name)
    BY <2>1 DEF ReadFrom
  <2> QED
    BY <2>4, <2>5, <2>6, <2>7 DEF ReadFrom
<1>2. \A i \in DOMAIN got : pushed'[got[i]] = pushed[got[i]]
  BY FilesOfKey DEF GotInv, ReadFrom, Goes
<1> QED
  BY <1>1, <1>2 DEF GotInv

LEMMA ProducerReads ==
    ASSUME Inv, HoldInv, PlaceInv, Goes, ReadInv, UNCHANGED <<cons, got, missed>>
    PROVE  ReadInv'
<1>1. IsCons'
  BY DEF ReadInv, IsCons
<1> QED
  BY <1>1, ListStays, PlaceOfConsStays, HasReadStays, BetweenStays, GotStays DEF ReadInv

-----------------------------------------------------------------------------
(* The steps of the consumer. *)

Rests == UNCHANGED <<content, dir, seqno, sec, pushed>>

LEMMA RestKeeps ==
    ASSUME Rests
    PROVE  /\ Names' = Names /\ dir' = dir /\ content' = content /\ pushed' = pushed
           /\ \A p : (Placed(p)' <=> Placed(p)) /\ (Known(p)' <=> Known(p))
           /\ \A n : Msgs(n)' = Msgs(n)
           /\ \A i : Sound(i)' <=> Sound(i)
BY DEF Rests, Names, Placed, Known, Msgs, Sound, OwnIV

LEMMA NoNameKnown == ASSUME Inv, PlaceInv PROVE Known(NoName)
<1>1. NoName \in Name /\ NoName[1] = 0 /\ NoName[2] = 0
  BY DEF NoName, Name
<1>2. sec \in Nat /\ Place(seqno) \in Nat
  BY PlaceType DEF Inv, NamesInv
<1>3. Placed(NoName)
  BY <1>1, <1>2 DEF Placed
<1>4. \A n \in Names : ~Twin(n, NoName)
  BY <1>1 DEF PlaceInv, Twin
<1> QED
  BY <1>3, <1>4 DEF Known

\* A consumer that has read nothing.
LEMMA StartReads ==
    ASSUME Inv, Rests, IsCons', got' = <<>>, cons'.name = cons'.start, Known(cons'.name),
           cons'.pos \in Nat, cons'.pc # "stat",
           cons'.pc \notin {"open", "read", "stuck"} => cons'.pos = 0,
           cons'.pc = "read" => \E n \in Names : dir[n] = cons'.id /\ Twin(n, cons'.name),
           cons'.pc = "open" => cons'.name = NoName
    PROVE  ReadInv'
<1>1. ListInv'
  BY DEF ListInv
<1>2. PlaceOfCons'
  BY RestKeeps DEF PlaceOfCons
<1>3. HasRead'
  BY DEF HasRead
<1>4. Between'
  <2>1. ASSUME NEW n \in Names PROVE ~(Before(cons'.start, n) /\ Before(n, cons'.name))
    BY NamesPlaced, NamesApart DEF Known, Placed
  <2> QED
    BY <2>1, RestKeeps DEF Between
<1>5. GotInv'
  <2>1. <<>> \in Seq(Nat) /\ DOMAIN <<>> = {}
    OBVIOUS
  <2> QED
    BY <2>1 DEF GotInv
<1> QED
  BY <1>1, <1>2, <1>3, <1>4, <1>5 DEF ReadInv

\* A consumer that waits, or looks for the next file.
LEMMA IdleReads ==
    ASSUME Rests, ReadInv, IsCons', UNCHANGED got, missed => missed',
           cons'.name = cons.name, cons'.start = cons.start, cons'.pos = cons.pos,
           cons'.bad = cons.bad, cons.pc \notin {"open", "read", "stuck"}, cons'.pc \notin {"open", "read"}, ListInv'
    PROVE  ReadInv'
<1>1. PlaceOfCons'
  BY RestKeeps DEF ReadInv, PlaceOfCons
<1>2. HasRead'
  BY RestKeeps DEF ReadInv, HasRead
<1>3. Between'
  BY RestKeeps DEF ReadInv, Between
<1>4. GotInv'
  <2>1. ASSUME NEW x, NEW n \in Names, ReadFrom(x, n) PROVE ReadFrom(x, n)'
    BY <2>1, RestKeeps DEF ReadFrom
  <2>2. /\ got \in Seq(Nat)
        /\ \A i \in DOMAIN got : \E n \in Names : ReadFrom(got[i], n)
        /\ \A i, j \in DOMAIN got : i < j /\ pushed[got[i]] = pushed[got[j]] => got[i] < got[j]
    BY DEF ReadInv, GotInv
  <2>3. \A i \in DOMAIN got : \E n \in Names : ReadFrom(got[i], n)'
    BY <2>1, <2>2
  <2> QED
    BY <2>2, <2>3, RestKeeps DEF GotInv
<1> QED
  BY <1>1, <1>2, <1>3, <1>4 DEF ReadInv

\* openFile: the file is read, or it is not and the consumer stays at the former
\* one, or comes to this one without reading it.
LEMMA OpenedCons ==
    ASSUME IsCons, missed' \in BOOLEAN, NEW n, NEW pos, NEW start, OpenFile(n, pos, start)
    PROVE  /\ IsCons'
           /\ \/ /\ cons'.pc = "read" /\ cons'.name = n /\ cons'.start = start /\ cons'.id = dir[n]
                 /\ cons'.pos = pos /\ cons'.bad = cons.bad /\ (cons'.garbled => ~Sound(dir[n]))
              \/ /\ cons'.pc = "watch" /\ cons'.name = cons.name /\ cons'.start = cons.start
                 /\ cons'.pos = 0 /\ cons'.bad = cons.bad
              \/ /\ cons'.pc = "watch" /\ cons'.name = n /\ cons'.start = start
                 /\ cons'.pos = 0 /\ cons'.bad = cons.bad \cup {n}
<1> DEFINE g == ~Sound(dir[n])
           b == cons.bad \cup {n}
<1>1. \/ cons' = [cons EXCEPT !.pc = "read", !.name = n, !.id = dir[n], !.pos = pos, !.list = {},
                              !.start = start, !.garbled = g]
      \/ cons' = [cons EXCEPT !.pc = "watch", !.pos = 0, !.list = {}]
      \/ cons' = [cons EXCEPT !.pc = "watch", !.name = n, !.pos = 0, !.list = {}, !.start = start,
                              !.bad = b]
  BY DEF OpenFile
<1> HIDE DEF b
<1>2. CASE cons' = [cons EXCEPT !.pc = "read", !.name = n, !.id = dir[n], !.pos = pos, !.list = {},
                                !.start = start, !.garbled = g]
  <2>1. cons'.garbled => g
    BY <1>2 DEF IsCons
  <2> HIDE DEF g
  <2>2. /\ IsCons' /\ cons'.pc = "read" /\ cons'.name = n /\ cons'.start = start
        /\ cons'.id = dir[n] /\ cons'.pos = pos /\ cons'.bad = cons.bad
    BY <1>2 DEF IsCons
  <2> QED
    BY <2>1, <2>2 DEF g
<1>3. CASE cons' = [cons EXCEPT !.pc = "watch", !.pos = 0, !.list = {}]
  BY <1>3 DEF IsCons
<1>4. CASE cons' = [cons EXCEPT !.pc = "watch", !.name = n, !.pos = 0, !.list = {}, !.start = start,
                                !.bad = b]
  <2>1. /\ IsCons' /\ cons'.pc = "watch" /\ cons'.name = n /\ cons'.start = start
        /\ cons'.pos = 0 /\ cons'.bad = b
    BY <1>4 DEF IsCons
  <2> QED
    BY <2>1 DEF b
<1> HIDE DEF g
<1> QED
  BY <1>1, <1>2, <1>3, <1>4

\* The newest file is the one that was created last.
LEMMA NewestIs ==
    ASSUME Inv, PlaceInv, Names # {}
    PROVE  Newest \in Names
<1> DEFINE T == {Len(content) - dir[n] : n \in Names}
<1>1. \A n \in Names : n \in Name /\ dir[n] \in 1 .. Len(content)
  BY NamesTyped
<1>2. Len(content) \in Nat
  BY KeyIn
<1>3. T \in SUBSET Nat /\ T # {}
  BY <1>1, <1>2
<1> HIDE DEF T
<1>4. PICK a \in T : \A b \in T : a <= b
  BY <1>3, LeastNat
<1>5. PICK n \in Names : a = Len(content) - dir[n]
  BY <1>4 DEF T
<1>6. ASSUME NEW m \in Names PROVE m = n \/ Less(m, n)
  <2>1. Len(content) - dir[m] \in T
    BY DEF T
  <2>2. dir[m] <= dir[n]
    <3>1. Len(content) - dir[n] <= Len(content) - dir[m]
      BY <1>4, <1>5, <2>1
    <3>2. dir[m] \in Nat /\ dir[n] \in Nat
      BY <1>1
    <3> QED
      BY ONLY <1>2, <3>1, <3>2
  <2>3. ~Before(n, m)
    BY <1>1, <2>2 DEF PlaceInv
  <2> QED
    BY <1>1, <2>3, NamesApart, TwinNames, LessOrder
<1>7. \E l \in Names : \A m \in Names : m = l \/ Less(m, l)
  BY <1>6
<1> QED
  BY <1>7 DEF Newest

LEMMA NewConsumerReads ==
    ASSUME Inv, HoldInv, PlaceInv, ReadInv, NewConsumer
    PROVE  ReadInv'
<1>1. Rests /\ got' = <<>> /\ missed' = FALSE
  BY DEF NewConsumer, Rests, disk, producer, history
<1>2. Known(NoName)
  BY NoNameKnown
<1>3. CASE Names = {}
  <2>1. cons' = [NoCons EXCEPT !.pc = "watch"]
    BY <1>3 DEF NewConsumer
  <2>2. /\ cons'.pc = "watch" /\ cons'.name = NoName /\ cons'.start = NoName /\ cons'.pos = 0
        /\ IsCons'
    BY <1>1, <2>1 DEF NoCons, IsCons
  <2> QED
    BY <1>1, <1>2, <2>2, StartReads
<1>4. CASE Names # {}
  <2>1. cons' = [NoCons EXCEPT !.pc = "open", !.list = {Newest},
                               !.pos = Len(content[dir[Newest]].msgs)]
    BY <1>4 DEF NewConsumer
  <2>2. Newest \in Names
    BY <1>4, NewestIs
  <2>3. Len(content[dir[Newest]].msgs) \in Nat
    BY <2>2, FilesOfKey DEF IsMsgs
  <2>4. /\ cons'.pc = "open" /\ cons'.name = NoName /\ cons'.start = NoName
        /\ cons'.pos = Len(content[dir[Newest]].msgs) /\ IsCons'
    BY <1>1, <2>1 DEF NoCons, IsCons
  <2> QED
    BY <1>1, <1>2, <2>3, <2>4, StartReads
<1> QED
  BY <1>3, <1>4

LEMMA OpenFirstReads ==
    ASSUME Inv, PlaceInv, ReadInv, OpenFirst
    PROVE  ReadInv'
<1>1. Rests /\ got' = got /\ missed' = missed /\ cons.pc = "open"
  BY DEF OpenFirst, Rests, disk, producer, history
<1>2. got = <<>> /\ cons.pos \in Nat /\ IsCons
  BY <1>1 DEF ReadInv, PlaceOfCons
<1>3. PICK n \in cons.list : IF n \in Names THEN OpenFile(n, FirstPos, n)
                             ELSE cons' = [NoCons EXCEPT !.pc = "watch"]
  BY DEF OpenFirst
<1>4. CASE n \in Names
  <2>1. OpenFile(n, FirstPos, n) /\ missed' \in BOOLEAN
    BY <1>1, <1>2, <1>3, <1>4 DEF IsCons
  <2>2. FirstPos \in Nat
    BY <1>2 DEF FirstPos
  <2>3. Known(n) /\ Twin(n, n)
    BY <1>4, NamesPlaced DEF Twin
  <2>4. cons.name = NoName /\ cons.start = NoName /\ Known(NoName)
    BY <1>1, NoNameKnown DEF ReadInv, PlaceOfCons
  <2>5. /\ IsCons' /\ cons'.name = cons'.start /\ Known(cons'.name) /\ cons'.pos \in Nat
        /\ \/ cons'.pc = "read" /\ dir[n] = cons'.id /\ Twin(n, cons'.name)
           \/ cons'.pc = "watch" /\ cons'.pos = 0
    BY <1>2, <2>1, <2>2, <2>3, <2>4, OpenedCons
  <2> QED
    BY <1>1, <1>2, <1>4, <2>5, StartReads
<1>5. CASE n \notin Names
  <2>1. cons' = [NoCons EXCEPT !.pc = "watch"]
    BY <1>3, <1>5
  <2>2. /\ cons'.pc = "watch" /\ cons'.name = NoName /\ cons'.start = NoName /\ cons'.pos = 0
        /\ IsCons'
    BY <1>1, <1>2, <2>1 DEF NoCons, IsCons
  <2> QED
    BY <1>1, <1>2, <2>2, NoNameKnown, StartReads
<1> QED
  BY <1>4, <1>5

LEMMA CloseConsumerReads == ASSUME Inv, PlaceInv, CloseConsumer PROVE ReadInv'
<1>1. Rests /\ got' = <<>> /\ missed' = FALSE /\ cons' = NoCons
  BY DEF CloseConsumer, Rests, disk, producer, history
<1>2. /\ cons'.pc = "closed" /\ cons'.name = NoName /\ cons'.start = NoName /\ cons'.pos = 0
      /\ IsCons'
  BY <1>1 DEF NoCons, IsCons
<1> QED
  BY <1>1, <1>2, NoNameKnown, StartReads

LEMMA ReadNamesReads == ASSUME Inv, ReadInv, ReadNames PROVE ReadInv'
<1>1. Rests /\ got' = got /\ missed' = missed /\ cons.pc = "list" /\ IsCons
  BY DEF ReadNames, Rests, disk, producer, history, ReadInv
<1>2. CASE cons' = [cons EXCEPT !.pc = "stat", !.list = Names]
  <2>1. /\ cons'.pc = "stat" /\ cons'.list = Names
        /\ cons'.name = cons.name /\ cons'.start = cons.start /\ cons'.pos = cons.pos
        /\ cons'.bad = cons.bad /\ IsCons'
    BY <1>1, <1>2 DEF IsCons
  <2>2. ListInv'
    <3>1. \A l \in Names : Placed(l)
      BY NamesPlaced
    <3> QED
      BY <1>1, <2>1, <3>1, RestKeeps DEF ListInv
  <2> QED
    BY <1>1, <2>1, <2>2, IdleReads
<1>3. CASE cons' = [cons EXCEPT !.pc = "wait", !.blind = TRUE]
  <2>1. /\ cons'.pc = "wait"
        /\ cons'.name = cons.name /\ cons'.start = cons.start /\ cons'.pos = cons.pos
        /\ cons'.bad = cons.bad /\ IsCons'
    BY <1>1, <1>3 DEF IsCons
  <2>2. ListInv'
    BY <2>1 DEF ListInv
  <2> QED
    BY <1>1, <2>1, <2>2, IdleReads
<1> QED
  BY <1>2, <1>3 DEF ReadNames

LEMMA WatchReads == ASSUME ReadInv, Watch \/ WatchParent \/ Wake PROVE ReadInv'
<1>1. /\ Rests /\ got' = got /\ missed' = missed /\ IsCons
      /\ cons.pc \in {"watch", "parent", "wait"}
  BY DEF Watch, WatchParent, Wake, Rests, disk, producer, history, ReadInv
<1>2. \/ cons' = [cons EXCEPT !.pc = "list", !.onTopic = TRUE]
      \/ cons' = [cons EXCEPT !.pc = "parent", !.onTopic = FALSE]
      \/ cons' = [cons EXCEPT !.pc = "list"]
      \/ cons' = [cons EXCEPT !.pc = "watch", !.blind = FALSE]
  BY DEF Watch, WatchParent, Wake
<1>3. /\ cons'.pc \in {"list", "parent", "watch"}
      /\ cons'.name = cons.name /\ cons'.start = cons.start /\ cons'.pos = cons.pos
      /\ cons'.bad = cons.bad /\ IsCons'
  BY <1>1, <1>2 DEF IsCons
<1>4. ListInv'
  BY <1>3 DEF ListInv
<1> QED
  BY <1>1, <1>3, <1>4, IdleReads

\* The next message of a file.
LEMMA NextMessageReads ==
    ASSUME Inv, HoldInv, PlaceInv, ReadInv, Rests, missed' = missed, cons.pc = "read",
           cons.pos < Len(content[cons.id].msgs),
           got' = Append(got, content[cons.id].msgs[cons.pos + 1]),
           cons' = [cons EXCEPT !.pos = @ + 1]
    PROVE  ReadInv'
<1> DEFINE s == content[cons.id].msgs
           q == cons.pos + 1
           x == s[q]
           Now(y, m) == /\ y \in Msgs(m)
                        /\ \/ Before(m, cons.name)
                           \/ /\ Twin(m, cons.name)
                              /\ \E p \in DOMAIN content[dir[m]].msgs :
                                    p <= q /\ y = content[dir[m]].msgs[p]
<1>1. PICK n \in Names : dir[n] = cons.id /\ Twin(n, cons.name)
  BY DEF ReadInv, PlaceOfCons
<1>2. n \in Name /\ cons.name \in Name /\ cons.start \in Name
  BY NamesPlaced DEF ReadInv, PlaceOfCons, Known, Placed
<1>3. IsMsgs(s) /\ Range(s) = Msgs(n)
  BY <1>1, FilesOfKey DEF Msgs
<1>4. /\ s \in Seq(Nat) /\ Len(s) \in Nat /\ DOMAIN s = 1 .. Len(s)
      /\ \A p, r \in DOMAIN s : p < r => s[p] < s[r]
  <2>1. s \in Seq(Nat) /\ Ascending(s)
    BY <1>3 DEF IsMsgs
  <2> HIDE DEF s
  <2> QED
    BY <2>1 DEF Ascending
<1>5. cons.pos \in Nat /\ q \in Nat /\ cons.pos < q /\ q \in DOMAIN s
  <2>1. cons.pos \in Nat /\ cons.pos < Len(s)
    BY DEF ReadInv, PlaceOfCons
  <2> HIDE DEF s
  <2> QED
    BY <1>4, <2>1
<1>6. /\ cons'.pc = "read" /\ cons'.name = cons.name /\ cons'.start = cons.start /\ cons'.id = cons.id
      /\ cons'.pos = q /\ cons'.bad = cons.bad /\ cons'.garbled = cons.garbled /\ IsCons'
  BY DEF IsCons, ReadInv
<1>7. x \in Msgs(n) /\ x \in Nat /\ x \in DOMAIN pushed /\ pushed[x] = n[3]
  <2>1. x \in Msgs(n)
    BY <1>3, <1>5 DEF Range
  <2> QED
    BY <2>1, FilesOfKey
<1>8. got \in Seq(Nat) /\ got' = Append(got, x)
  BY DEF ReadInv, GotInv
<1> HIDE DEF s, q, x
<1>9. /\ got' \in Seq(Nat) /\ Len(got) \in Nat /\ DOMAIN got = 1 .. Len(got)
      /\ DOMAIN got' = 1 .. Len(got) + 1 /\ got'[Len(got) + 1] = x
      /\ \A i \in DOMAIN got : got'[i] = got[i]
  BY <1>7, <1>8
<1>10. x \in Range(got') /\ Range(got) \subseteq Range(got')
  BY <1>9 DEF Range
<1>11. ListInv'
  BY <1>6 DEF ListInv
<1>12. PlaceOfCons'
  BY <1>1, <1>5, <1>6, RestKeeps DEF ReadInv, PlaceOfCons
<1>13. HasRead'
  <2>1. ASSUME cons.name # cons.start, Sound(dir[cons.name]), cons.name \notin cons.bad,
               NEW p \in DOMAIN s, p <= q
        PROVE  s[p] \in Range(got')
    <3>1. p <= cons.pos => s[p] \in Range(got)
      BY <2>1 DEF ReadInv, HasRead, s
    <3>2. p \in Nat
      BY <1>4
    <3>3. p <= cons.pos \/ p = q
      BY <1>5, <2>1, <3>2 DEF q
    <3> QED
      BY <1>10, <3>1, <3>3 DEF x
  <2>2. content'[cons'.id].msgs = s
    BY <1>6, RestKeeps DEF s
  <2>3. cons.name # cons.start /\ cons.garbled => ~Sound(cons.id)
    BY DEF ReadInv, HasRead
  <2> QED
    BY <1>6, <2>1, <2>2, <2>3, RestKeeps DEF HasRead
<1>14. Between'
  BY <1>6, <1>10, RestKeeps DEF ReadInv, Between
<1>15. ASSUME NEW i \in DOMAIN got', i \in DOMAIN got
       PROVE  /\ \E m \in Names : Now(got'[i], m)
              /\ pushed[got'[i]] = pushed[x] => got'[i] < x
  <2>1. PICK m \in Names : ReadFrom(got[i], m)
    BY <1>15 DEF ReadInv, GotInv
  <2>2. m \in Name /\ got'[i] = got[i]
    BY <1>9, <1>15, NamesPlaced
  <2>3. Before(m, cons.name) \/ Twin(m, cons.name)
    BY <2>1 DEF ReadFrom
  <2>4. CASE Before(m, cons.name)
    <3>1. Before(m, n)
      BY <1>1, <1>2, <2>2, <2>4, BeforeGoesOn
    <3>2. got[i] \in Msgs(m) /\ pushed[got[i]] = m[3]
      BY <2>1, FilesOfKey DEF ReadFrom
    <3>3. m[3] = n[3] => Below(Msgs(m), Msgs(n))
      BY <3>1, FilesOfKey
    <3>4. Now(got'[i], m)
      BY <2>2, <2>4, <3>2
    <3> QED
      BY <1>7, <2>2, <3>2, <3>3, <3>4 DEF Below
  <2>5. CASE Twin(m, cons.name)
    <3>1. m = n
      BY <1>1, <1>2, <2>2, <2>5, BeforeGoesOn, NamesApart, TwinNames
    <3>2. ~Before(m, cons.name)
      BY <1>2, <2>2, <2>5, NamesApart
    <3>3. PICK p \in DOMAIN content[dir[m]].msgs : p <= cons.pos /\ got[i] = content[dir[m]].msgs[p]
      BY <2>1, <2>5, <3>2 DEF ReadFrom
    <3>4. p \in DOMAIN s /\ p \in Nat /\ got[i] = s[p] /\ p <= cons.pos
      BY <1>1, <1>4, <3>1, <3>3 DEF s
    <3>5. p < q /\ p <= q
      BY <1>5, <3>4
    <3>6. got[i] < x
      BY <1>4, <1>5, <3>4, <3>5 DEF x
    <3>7. got[i] \in Msgs(m)
      BY <2>1 DEF ReadFrom
    <3>8. Now(got'[i], m)
      BY <2>2, <2>5, <3>3, <3>4, <3>5, <3>7
    <3> QED
      BY <2>2, <3>6, <3>8
  <2> QED
    BY <2>3, <2>4, <2>5
<1>16. Now(x, n)
  <2>1. content[dir[n]].msgs = s /\ q <= q
    BY <1>1, <1>5 DEF s
  <2> QED
    BY <1>1, <1>5, <1>7, <2>1 DEF x
<1> HIDE DEF Now
<1>17. \A i \in DOMAIN got' : i \in DOMAIN got \/ (i = Len(got) + 1 /\ got'[i] = x)
  BY <1>9
<1>18. ASSUME NEW i \in DOMAIN got', NEW j \in DOMAIN got', i < j, pushed[got'[i]] = pushed[got'[j]]
       PROVE  got'[i] < got'[j]
  <2>1. i \in DOMAIN got
    BY <1>9, <1>18
  <2>2. CASE j \in DOMAIN got
    BY <1>9, <1>18, <2>1, <2>2 DEF ReadInv, GotInv
  <2>3. CASE got'[j] = x
    BY <1>15, <1>18, <2>1, <2>3
  <2> QED
    BY <1>17, <2>2, <2>3
<1>19. \A i \in DOMAIN got' : \E m \in Names : Now(got'[i], m)
  BY <1>15, <1>16, <1>17
<1>20. GotInv'
  <2>1. \A i \in DOMAIN got' : \E m \in Names' : ReadFrom(got[i], m)'
    BY <1>6, <1>19, RestKeeps DEF ReadFrom, Now
  <2>2. \A i, j \in DOMAIN got' : i < j /\ pushed'[got'[i]] = pushed'[got'[j]] => got'[i] < got'[j]
    <3>1. pushed' = pushed
      BY RestKeeps
    <3> QED
      BY ONLY <1>18, <3>1
  <2> QED
    BY ONLY <1>9, <2>1, <2>2 DEF GotInv
<1> QED
  BY <1>6, <1>11, <1>12, <1>13, <1>14, <1>20 DEF ReadInv

\* A step that reads nothing, and does not move to another file.
LEMMA NothingRead ==
    ASSUME Inv, HoldInv, PlaceInv, ReadInv, Rests, IsCons', got' = got, missed' = missed,
           cons.pc = "read", cons'.name = cons.name, cons'.start = cons.start,
           cons'.id = cons.id \/ cons'.pc # "read",
           cons'.pc \in {"read", "stuck", "watch"}, cons'.pos \in Nat,
           cons'.pc = "read" => cons.pos <= cons'.pos, cons'.pc = "watch" => cons'.pos = 0,
           cons.bad \subseteq cons'.bad, HasRead'
    PROVE  ReadInv'
<1>1. ListInv'
  BY DEF ListInv
<1>2. PlaceOfCons'
  BY RestKeeps DEF ReadInv, PlaceOfCons
<1>3. Between'
  BY RestKeeps DEF ReadInv, Between
<1>4. GotInv'
  <2>1. ASSUME NEW x, NEW n \in Names, ReadFrom(x, n) PROVE ReadFrom(x, n)'
    <3>1. x \in Msgs(n) /\ (Before(n, cons.name) \/ Twin(n, cons.name))
      BY <2>1 DEF ReadFrom
    <3>2. CASE Before(n, cons.name)
      BY <3>1, <3>2, RestKeeps DEF ReadFrom
    <3>3. CASE ~Before(n, cons.name)
      <4>1. Twin(n, cons.name)
        BY <3>1, <3>3
      <4>2. PICK p \in DOMAIN content[dir[n]].msgs : p <= cons.pos /\ x = content[dir[n]].msgs[p]
        BY <2>1, <3>3 DEF ReadFrom
      <4>3. cons'.pc = "read" => p <= cons'.pos
        <5>1. p \in Nat /\ cons.pos \in Nat /\ cons'.pos \in Nat
          BY FilesOfKey DEF IsMsgs, ReadInv, PlaceOfCons
        <5> QED
          BY <4>2, <5>1
      <4> QED
        BY <3>1, <4>1, <4>2, <4>3, RestKeeps DEF ReadFrom
    <3> QED
      BY <3>2, <3>3
  <2>2. /\ got \in Seq(Nat)
        /\ \A i \in DOMAIN got : \E n \in Names : ReadFrom(got[i], n)
        /\ \A i, j \in DOMAIN got : i < j /\ pushed[got[i]] = pushed[got[j]] => got[i] < got[j]
    BY DEF ReadInv, GotInv
  <2>3. \A i \in DOMAIN got : \E n \in Names : ReadFrom(got[i], n)'
    BY <2>1, <2>2
  <2> QED
    BY <2>2, <2>3, RestKeeps DEF GotInv
<1> QED
  BY <1>1, <1>2, <1>3, <1>4 DEF ReadInv

\* A file that cannot be read, by the name of the consumer's file too.
LEMMA GarbledFile ==
    ASSUME Inv, ReadInv, cons.pc = "read", Garbled, cons.name # cons.start
    PROVE  ~Sound(cons.id) /\ ~Sound(dir[cons.name])
<1>1. dir[cons.name] = cons.id
  BY FileOfCons DEF ReadInv
<1>2. ~Sound(cons.id)
  BY DEF ReadInv, HasRead, Garbled, Sound
<1> QED
  BY <1>1, <1>2

\* FetchNext reports an error instead of a message.
LEMMA LostMessageReads ==
    ASSUME Inv, HoldInv, PlaceInv, ReadInv, Rests, missed' = missed, got' = got,
           cons.pc = "read", NEW bad,
           cons' = [cons EXCEPT !.pos = @ + 1, !.bad = bad],
           cons.bad \subseteq bad, Garbled \/ cons.name \in bad
    PROVE  ReadInv'
<1>1. cons.pos \in Nat /\ IsCons
  BY DEF ReadInv, PlaceOfCons
<1>2. /\ cons'.pc = "read" /\ cons'.name = cons.name /\ cons'.start = cons.start
      /\ cons'.id = cons.id /\ cons'.pos = cons.pos + 1 /\ cons'.bad = bad
      /\ cons'.garbled = cons.garbled /\ IsCons'
  BY <1>1 DEF IsCons
<1>3. cons'.pos \in Nat /\ cons.pos <= cons'.pos
  BY <1>1, <1>2
<1>4. HasRead'
  <2>1. cons.name # cons.start /\ cons.garbled => ~Sound(cons.id)
    BY DEF ReadInv, HasRead
  <2>2. cons.name # cons.start => ~Sound(dir[cons.name]) \/ cons.name \in bad
    BY GarbledFile
  <2> QED
    BY <1>2, <2>1, <2>2, RestKeeps DEF HasRead
<1> QED
  BY <1>2, <1>3, <1>4, NothingRead

\* The consumer meets an error that does not go away.
LEMMA StuckReads ==
    ASSUME Inv, HoldInv, PlaceInv, ReadInv, Rests, missed' = missed, got' = got,
           cons.pc = "read", Garbled,
           cons' = [cons EXCEPT !.pc = "stuck"]
    PROVE  ReadInv'
<1>1. cons.pos \in Nat /\ IsCons
  BY DEF ReadInv, PlaceOfCons
<1>2. /\ cons'.pc = "stuck" /\ cons'.name = cons.name /\ cons'.start = cons.start
      /\ cons'.pos = cons.pos /\ cons'.bad = cons.bad /\ IsCons'
  BY <1>1 DEF IsCons
<1>3. HasRead'
  <2>1. cons.name # cons.start => ~Sound(dir[cons.name])
    BY GarbledFile
  <2> QED
    BY <1>2, <2>1, RestKeeps DEF HasRead
<1> QED
  BY <1>1, <1>2, <1>3, NothingRead

\* The end of a file, where the consumer leaves it.
LEMMA EndReads ==
    ASSUME Inv, HoldInv, PlaceInv, ReadInv, Rests, missed' = missed, got' = got, cons.pc = "read",
           cons.pos >= Len(content[cons.id].msgs),
           cons' = [cons EXCEPT !.pc = "watch", !.id = 0, !.pos = 0, !.garbled = FALSE]
    PROVE  ReadInv'
<1>1. /\ cons'.pc = "watch" /\ cons'.name = cons.name /\ cons'.start = cons.start
      /\ cons'.pos = 0 /\ cons'.bad = cons.bad /\ IsCons'
  BY DEF IsCons, ReadInv
<1>2. HasRead'
  <2>1. ASSUME cons.name # cons.start, Sound(dir[cons.name]), cons.name \notin cons.bad
        PROVE  Msgs(cons.name) \subseteq Range(got)
    <3> DEFINE s == content[cons.id].msgs
    <3>1. cons.name \in Names /\ dir[cons.name] = cons.id
      BY <2>1, FileOfCons DEF ReadInv
    <3>2. IsMsgs(s) /\ Msgs(cons.name) = Range(s)
      BY <3>1, FilesOfKey DEF Msgs
    <3>3. \A p \in DOMAIN s : p <= cons.pos => s[p] \in Range(got)
      BY <2>1 DEF ReadInv, HasRead
    <3>4. cons.pos \in Nat /\ cons.pos >= Len(s)
      BY DEF ReadInv, PlaceOfCons
    <3> HIDE DEF s
    <3>5. Len(s) \in Nat /\ DOMAIN s = 1 .. Len(s)
      BY <3>2 DEF IsMsgs
    <3>6. \A p \in DOMAIN s : p <= cons.pos
      BY <3>4, <3>5
    <3> QED
      BY <3>2, <3>3, <3>6 DEF Range
  <2> QED
    BY <1>1, <2>1, RestKeeps DEF HasRead
<1> QED
  BY <1>1, <1>2, NothingRead

LEMMA ReadReads == ASSUME Inv, HoldInv, PlaceInv, ReadInv, Read PROVE ReadInv'
<1>1. Rests /\ missed' = missed /\ cons.pc = "read"
  BY DEF Read, Rests, disk, producer, history
<1> DEFINE bad == IF Garbled THEN cons.bad ELSE cons.bad \cup {cons.name}
<1>2. CASE /\ cons.pos < Len(content[cons.id].msgs)
           /\ got' = Append(got, content[cons.id].msgs[cons.pos + 1])
           /\ cons' = [cons EXCEPT !.pos = @ + 1]
  BY <1>1, <1>2, NextMessageReads
<1>3. CASE got' = got /\ cons' = [cons EXCEPT !.pos = @ + 1, !.bad = bad]
  <2>1. cons.bad \subseteq bad /\ (Garbled \/ cons.name \in bad)
    OBVIOUS
  <2> HIDE DEF bad
  <2> QED
    BY <1>1, <1>3, <2>1, LostMessageReads
<1>4. CASE got' = got /\ Garbled /\ cons' = [cons EXCEPT !.pc = "stuck"]
  BY <1>1, <1>4, StuckReads
<1>5. CASE /\ got' = got /\ cons.pos >= Len(content[cons.id].msgs)
           /\ cons' = [cons EXCEPT !.pc = "watch", !.id = 0, !.pos = 0, !.garbled = FALSE]
  BY <1>1, <1>5, EndReads
<1> QED
  BY <1>2, <1>3, <1>4, <1>5 DEF Read

\* The file that comes next: no file lies between this one and that, unless it
\* was renamed while the names were read.
LEMMA NextIsNext ==
    ASSUME Inv, ReadInv, cons.pc = "stat", NEW seen \in SUBSET cons.list,
           cons.list \cap Names \subseteq seen,
           NEW n, n = NextAfter(seen, cons.name), n # NoName, ~IsOpen(n)
    PROVE  /\ n \in Names /\ Before(cons.name, n)
           /\ \A t \in Names : Before(cons.name, t) /\ Before(t, n)
                => \E l \in cons.list \ seen : Less(cons.name, l) /\ Less(l, n)
<1> DEFINE name == cons.name
           after == {l \in seen : Less(name, l)}
<1>1. name \in Name /\ Known(name)
  BY DEF ReadInv, PlaceOfCons, Known, Placed
<1>2. /\ \A l \in cons.list : l \in Name /\ (l \in Names \/ TrimOpen(l) \in Names)
      /\ \A t \in Names : \/ \E l \in cons.list : t \in {l, TrimOpen(l)}
                          \/ \A l \in cons.list : Before(l, t)
  BY DEF ReadInv, ListInv, Placed
<1>3. after # {} /\ n = CHOOSE l \in after : \A m \in after : m = l \/ Less(l, m)
  BY DEF NextAfter
<1>4. after \in SUBSET Name
  BY <1>2
<1>5. n \in after /\ \A m \in after : m = n \/ Less(n, m)
  <2> HIDE DEF after
  <2>1. \E l \in after : \A m \in after : m = l \/ Less(l, m)
    BY <1>3, <1>4, FirstName
  <2> QED
    BY <1>3, <2>1
<1>6. n \in seen /\ n \in cons.list /\ Less(name, n) /\ n \in Name
  BY <1>2, <1>5
<1>7. n \in Names
  BY <1>2, <1>6, TrimmedTwin
<1>8. Before(name, n)
  <2>1. Before(name, n) \/ Twin(name, n)
    BY <1>1, <1>6, LessOrder
  <2>2. ASSUME Twin(name, n) PROVE FALSE
    <3>1. n \in {name, TrimOpen(name)}
      BY <1>1, <1>6, <1>7, <2>2, NamesApart DEF Known, Twin
    <3> QED
      BY <1>1, <1>6, <3>1, LessThanTrimmed
  <2> QED
    BY <2>1, <2>2
<1>9. ASSUME NEW t \in Names, Before(name, t), Before(t, n)
      PROVE  \E l \in cons.list \ seen : Less(name, l) /\ Less(l, n)
  <2>1. t \in Name
    BY NamesPlaced
  <2>2. ~Before(n, t)
    BY <1>6, <1>9, <2>1, NamesApart
  <2>3. PICK l \in cons.list : t \in {l, TrimOpen(l)}
    BY <1>2, <1>6, <2>2
  <2>4. l \in Name /\ Twin(t, l)
    BY <1>2, <2>3, TrimmedTwin DEF Twin
  <2>5. Before(name, l) /\ Before(l, n)
    BY <1>1, <1>6, <1>9, <2>1, <2>4, BeforeGoesOn
  <2>6. Less(name, l) /\ Less(l, n) /\ ~Less(n, l) /\ l # n
    BY <1>1, <1>6, <2>4, <2>5, LessOrder, NamesApart
  <2>7. l \notin seen
    BY <1>5, <2>6
  <2> QED
    BY <2>6, <2>7
<1> QED
  BY <1>7, <1>8, <1>9

LEMMA NextFileReads == ASSUME Inv, HoldInv, PlaceInv, ReadInv, NextFile PROVE ReadInv'
<1>1. Rests /\ got' = got /\ cons.pc = "stat" /\ IsCons
  BY DEF NextFile, Rests, disk, producer, history, ReadInv
<1>2. PICK seen \in SUBSET cons.list :
        LET n == NextAfter(seen, cons.name)
        IN  /\ cons.list \cap Names \subseteq seen
            /\ \/ /\ n # NoName /\ ~IsOpen(n)
                  /\ OpenFile(n, 0, cons.start)
                  /\ missed' = (missed \/ \E m \in cons.list \ seen : Less(cons.name, m) /\ Less(m, n))
               \/ /\ n = NoName \/ IsOpen(n)
                  /\ cons' = [cons EXCEPT !.pc = "wait", !.list = {}]
                  /\ UNCHANGED <<missed, faults>>
  BY DEF NextFile
<1> DEFINE n == NextAfter(seen, cons.name)
<1> HIDE DEF n
<1>3. CASE cons' = [cons EXCEPT !.pc = "wait", !.list = {}] /\ missed' = missed
  <2>2. /\ cons'.pc = "wait" /\ cons'.bad = cons.bad
        /\ cons'.name = cons.name /\ cons'.start = cons.start /\ cons'.pos = cons.pos /\ IsCons'
    BY <1>1, <1>3 DEF IsCons
  <2>3. ListInv'
    BY <2>2 DEF ListInv
  <2> QED
    BY <1>1, <1>3, <2>2, <2>3, IdleReads
<1>4. CASE /\ n # NoName /\ ~IsOpen(n)
           /\ OpenFile(n, 0, cons.start)
           /\ missed' = (missed \/ \E m \in cons.list \ seen : Less(cons.name, m) /\ Less(m, n))
  <2>1. /\ missed' \in BOOLEAN /\ (missed => missed')
        /\ ~missed' => ~missed /\ ~ \E m \in cons.list \ seen : Less(cons.name, m) /\ Less(m, n)
        /\ cons.list \cap Names \subseteq seen
    BY <1>1, <1>2, <1>4 DEF IsCons
  <2>2. /\ IsCons' /\ cons'.start = cons.start /\ cons'.pos = 0
        /\ \/ /\ cons'.pc = "read" /\ cons'.name = n /\ cons'.id = dir[n] /\ cons'.bad = cons.bad
              /\ cons'.garbled => ~Sound(dir[n])
           \/ cons'.pc = "watch" /\ cons'.name = cons.name /\ cons'.bad = cons.bad
           \/ cons'.pc = "watch" /\ cons'.name = n /\ cons'.bad = cons.bad \cup {n}
    BY <1>1, <1>4, <2>1, OpenedCons
  <2>3. /\ n \in Names /\ Before(cons.name, n)
        /\ \A t \in Names : Before(cons.name, t) /\ Before(t, n)
             => \E l \in cons.list \ seen : Less(cons.name, l) /\ Less(l, n)
    BY <1>1, <1>4, <2>1, NextIsNext DEF n
  <2>4. /\ n \in Name /\ Known(n) /\ cons.name \in Name /\ Known(cons.name) /\ cons.start \in Name
        /\ cons.pos = 0 /\ Twin(n, n)
    BY <1>1, <2>3, NamesPlaced DEF ReadInv, PlaceOfCons, Known, Placed, Twin
  <2>5. ListInv'
    BY <2>2 DEF ListInv
  <2>10. CASE cons'.pc = "watch" /\ cons'.name = cons.name /\ cons'.bad = cons.bad
    BY <1>1, <2>1, <2>2, <2>4, <2>5, <2>10, IdleReads
  <2> SUFFICES ASSUME \/ /\ cons'.pc = "read" /\ cons'.name = n /\ cons'.id = dir[n]
                         /\ cons'.bad = cons.bad /\ (cons'.garbled => ~Sound(dir[n]))
                      \/ cons'.pc = "watch" /\ cons'.name = n /\ cons'.bad = cons.bad \cup {n}
               PROVE  ReadInv'
    BY <2>2, <2>10
  <2>11. cons'.name = n /\ cons.bad \subseteq cons'.bad
    OBVIOUS
  <2>6. PlaceOfCons'
    BY <1>1, <1>4, <2>2, <2>3, <2>4, RestKeeps DEF ReadInv, PlaceOfCons
  <2>7. HasRead'
    <3>1. \A p \in DOMAIN content[dir[n]].msgs : p \in Nat /\ p > 0
      BY <2>3, FilesOfKey DEF IsMsgs
    <3>2. \A p \in DOMAIN content[dir[n]].msgs : ~(p <= 0)
      BY <3>1
    <3> QED
      BY <2>2, <2>4, <3>2, RestKeeps, <1>1 DEF HasRead
  <2>8. Between'
    <3> SUFFICES ASSUME ~missed', NEW t \in Names, Before(cons.start, t), Before(t, n)
                 PROVE  /\ ~IsOpen(t)
                        /\ Sound(dir[t]) /\ t \notin cons.bad => Msgs(t) \subseteq Range(got)
      BY <1>1, <2>2, <2>11, RestKeeps DEF Between
    <3>1. ~missed /\ ~Before(cons.name, t) /\ t \in Name
      BY <2>1, <2>3, NamesPlaced
    <3>2. CASE Before(t, cons.name)
      BY <3>1, <3>2 DEF ReadInv, Between
    <3>3. CASE Twin(t, cons.name)
      <4>1. cons.name # cons.start
        BY <2>4, <3>1, <3>3, NamesApart
      <4>2. cons.name \in Names /\ ~IsOpen(cons.name)
        BY <4>1 DEF ReadInv, PlaceOfCons
      <4>3. t = cons.name
        BY <3>3, <4>2, TwinNames
      <4> QED
        BY <1>1, <4>1, <4>2, <4>3 DEF ReadInv, HasRead
    <3> QED
      BY <2>4, <3>1, <3>2, <3>3, NamesApart
  <2>9. GotInv'
    <3>1. ASSUME NEW x, NEW m \in Names, ReadFrom(x, m) PROVE ReadFrom(x, m)'
      <4>1. m \in Name /\ (Before(m, cons.name) \/ Twin(m, cons.name)) /\ x \in Msgs(m)
        BY <3>1, NamesPlaced DEF ReadFrom
      <4>2. Before(m, n)
        BY <2>3, <2>4, <4>1, BeforeGoesOn
      <4> QED
        BY <1>1, <2>11, <4>1, <4>2, RestKeeps DEF ReadFrom
    <3>2. /\ got \in Seq(Nat)
          /\ \A i \in DOMAIN got : \E m \in Names : ReadFrom(got[i], m)
          /\ \A i, j \in DOMAIN got : i < j /\ pushed[got[i]] = pushed[got[j]] => got[i] < got[j]
      BY DEF ReadInv, GotInv
    <3>3. \A i \in DOMAIN got : \E m \in Names : ReadFrom(got[i], m)'
      BY <1>1, <3>1, <3>2
    <3> QED
      BY <1>1, <3>2, <3>3, RestKeeps DEF GotInv
  <2> QED
    BY <2>2, <2>5, <2>6, <2>7, <2>8, <2>9 DEF ReadInv
<1> QED
  BY <1>2, <1>3, <1>4 DEF n

-----------------------------------------------------------------------------

LEMMA InitReads == Init => PlaceInv /\ ReadInv
<1> SUFFICES ASSUME Init PROVE PlaceInv /\ ReadInv
  OBVIOUS
<1>1. Names = {} /\ sec = 0 /\ seqno = 0 /\ call = Down /\ got = <<>> /\ cons = NoCons /\ missed = FALSE
  BY DEF Init, Names
<1>2. /\ cons.pc = "closed" /\ cons.name = NoName /\ cons.start = NoName /\ cons.pos = 0
      /\ IsCons
  BY <1>1 DEF NoCons, IsCons
<1>3. Known(NoName)
  BY <1>1 DEF NoName, Known, Placed, Name, Down
<1>4. <<>> \in Seq(Nat) /\ DOMAIN <<>> = {}
  OBVIOUS
<1>5. PlaceInv
  BY <1>1 DEF PlaceInv
<1>6. ListInv /\ PlaceOfCons /\ HasRead /\ Between
  BY <1>1, <1>2, <1>3 DEF ListInv, PlaceOfCons, HasRead, Between
<1>7. GotInv
  BY <1>1, <1>4 DEF GotInv
<1> QED
  BY <1>2, <1>5, <1>6, <1>7 DEF ReadInv

LEMMA NextReads ==
    Inv /\ Inv' /\ HoldInv /\ PlaceInv /\ ReadInv /\ [Next]_vars /\ ~misnamed'
    => PlaceInv' /\ ReadInv'
<1> SUFFICES ASSUME Inv, Inv', HoldInv, PlaceInv, ReadInv, [Next]_vars, ~misnamed'
             PROVE  PlaceInv' /\ ReadInv'
  OBVIOUS
<1>1. Goes
  BY StepGoes
<1>2. PlaceInv'
  BY <1>1, PlaceHolds
<1>3. CASE UNCHANGED <<cons, got, missed>>
  BY <1>1, <1>2, <1>3, ProducerReads
<1>4. CASE NewConsumer \/ Consumer \/ CloseConsumer
  BY <1>2, <1>4, NewConsumerReads, OpenFirstReads, ReadReads, WatchReads, ReadNamesReads, NextFileReads,
     CloseConsumerReads DEF Consumer
<1>5. UNCHANGED <<cons, got, missed>> \/ NewConsumer \/ Consumer \/ CloseConsumer
  <2>1. ASSUME UNCHANGED consumer PROVE UNCHANGED <<cons, got, missed>>
    BY <2>1 DEF consumer
  <2>2. ASSUME UNCHANGED vars PROVE UNCHANGED consumer
    BY <2>2 DEF vars
  <2>3. ASSUME NEW k \in Keys, NEW b \in BOOLEAN, GetFile(k, b) PROVE UNCHANGED consumer
    BY <2>3 DEF GetFile
  <2>4. ASSUME NEW next, Commit(next) PROVE UNCHANGED consumer
    BY <2>4 DEF Commit
  <2>5. ASSUME NewProducer \/ Write \/ ReplaceSchema \/ Close \/ Crash PROVE UNCHANGED consumer
    BY <2>5 DEF NewProducer, Write, ReplaceSchema, Close, Crash
  <2> QED
    BY <2>1, <2>2, <2>3, <2>4, <2>5 DEF Next, PushBatchCommit, PushSchema
<1> QED
  BY <1>2, <1>3, <1>4, <1>5

LEMMA ReadsAlways == Spec => [](misnamed \/ (Inv /\ HoldInv /\ PlaceInv /\ ReadInv))
<1>1. Init => Inv /\ HoldInv /\ PlaceInv /\ ReadInv
  BY InitInv, InitHold, InitReads
<1>2. (misnamed \/ (Inv /\ HoldInv /\ PlaceInv /\ ReadInv)) /\ [Next]_vars
      => (misnamed \/ (Inv /\ HoldInv /\ PlaceInv /\ ReadInv))'
  BY NextInv, NextHold, NextReads, MisnamedStays
<1> QED
  BY <1>1, <1>2, PTL DEF Spec

\* What is in a key's files stays in one of them, and a file that was renamed is
\* not touched again, its header included, whatever is closed, opened, pushed or
\* lost later, and whoever produces then: a header comes to lie over messages only
\* when the file is closed, and not later (file.go:281, 386).
WrittenStays ==
    \/ misnamed'
    \/ /\ \A k \in Keys : Kept(k) \subseteq Kept(k)'
       /\ \A n \in Names : ~IsOpen(n)
             => n \in Names' /\ dir'[n] = dir[n] /\ content'[dir[n]] = content[dir[n]]

THEOREM WhatIsWrittenStays == Spec => [][WrittenStays]_vars
<1>1. ASSUME Inv, HoldInv, [Next]_vars, ~misnamed' PROVE WrittenStays
  <2>1. Goes
    BY <1>1, StepGoes
  <2>2. ASSUME NEW n \in Names, ~IsOpen(n)
        PROVE  n \in Names' /\ dir'[n] = dir[n] /\ content'[dir[n]] = content[dir[n]]
    BY <1>1, <2>1, <2>2, ClosedStays
  <2>3. ASSUME NEW k \in Keys, NEW n \in NamesOf(k), NEW x \in Msgs(n) PROVE x \in Kept(k)'
    <3>1. n \in Names /\ n[3] = k
      BY DEF NamesOf
    <3>2. PICK m \in Names' : /\ m[3] = k /\ dir'[m] = dir[n]
                             /\ Prefix(content[dir[n]].msgs, content'[dir[n]].msgs)
      BY <1>1, <2>1, <3>1, NameLeads
    <3>3. x \in Range(content'[dir'[m]].msgs)
      BY <3>2 DEF Msgs, Range, Prefix
    <3> QED
      BY <3>2, <3>3 DEF Kept, NamesOf, Msgs
  <2>4. \A k \in Keys : Kept(k) \subseteq Kept(k)'
    BY <2>3, KeptBy
  <2> QED
    BY <2>2, <2>4 DEF WrittenStays
<1>2. (misnamed \/ (Inv /\ HoldInv /\ PlaceInv /\ ReadInv)) /\ [Next]_vars => [WrittenStays]_vars
  BY <1>1, MisnamedStays DEF WrittenStays
<1> QED
  BY <1>2, ReadsAlways, PTL DEF Spec

\* A consumer reads every file between the one it began with and the one it is
\* at, to the end, and the messages of a key once and in their order, whatever
\* the producers, crashes and errors do meanwhile, and for any number of keys
\* and files (file.go:525): unless the file is torn or has the IV of another
\* (file.go:326, 390), the consumer met an error in it after its name was set
\* (file.go:757), or the "precaution" of file.go:281 did not suffice.
THEOREM NothingIsPassedOver == Spec => []NothingPassedOver
<1>1. Inv /\ HoldInv /\ PlaceInv /\ ReadInv => NothingPassedOver
  <2> SUFFICES ASSUME Inv, HoldInv, PlaceInv, ReadInv, ~missed PROVE NothingPassedOver
    BY DEF NothingPassedOver
  <2>1. ASSUME NEW n \in Names, Less(cons.start, n), Less(n, cons.name)
        PROVE  /\ ~IsOpen(n)
               /\ Sound(dir[n]) /\ n \notin cons.bad => Msgs(n) \subseteq Range(got)
    <3>1. n \in Name /\ cons.name \in Name /\ Known(cons.start) /\ cons.start \in Name
      BY NamesPlaced DEF ReadInv, PlaceOfCons, Known, Placed
    <3>2. cons.name # cons.start
      BY <2>1, <3>1, LessOrder
    <3>3. cons.name \in Names
      BY <3>2 DEF ReadInv, PlaceOfCons
    <3>4. Before(n, cons.name)
      BY <2>1, <3>3, LessIsBefore
    <3>5. ~Twin(cons.start, n)
      <4>1. ASSUME Twin(cons.start, n) PROVE n \in {cons.start, TrimOpen(cons.start)}
        BY <3>1, <4>1, NamesApart DEF Known, Twin
      <4> QED
        BY <2>1, <3>1, <4>1, LessThanTrimmed
    <3>6. Before(cons.start, n)
      BY <2>1, <3>1, <3>5, LessOrder
    <3> QED
      BY <3>4, <3>6 DEF ReadInv, Between
  <2>2. ASSUME NEW k \in Keys, NEW i \in DOMAIN got, NEW j \in DOMAIN got,
               i < j, {got[i], got[j]} \subseteq Of(k)
        PROVE  got[i] < got[j]
    <3>1. pushed[got[i]] = k /\ pushed[got[j]] = k
      BY <2>2 DEF Of
    <3> QED
      BY <2>2, <3>1 DEF ReadInv, GotInv
  <2> QED
    BY <2>1, <2>2 DEF NothingPassedOver
<1>2. misnamed => NothingPassedOver
  BY DEF NothingPassedOver
<1> QED
  BY <1>1, <1>2, ReadsAlways, PTL

=============================================================================
