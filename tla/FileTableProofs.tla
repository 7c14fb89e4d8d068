--------------------------- MODULE FileTableProofs ---------------------------
(***************************************************************************)
(* The table of open files, for any number of entries, programs and files: *)
(* entries and descriptors match one to one, writes keep what is before    *)
(* them, and an id stands for its file while one program uses the table.   *)
(***************************************************************************)
EXTENDS FileTable, TLAPS, FiniteSetTheorems, WellFoundedInduction

\* The inductive invariant: the constructor's entries stay.
TableOwned == DescriptorsOwned /\ table[0] = Self /\ table[1] = Self

Contents == Seq(Bytes \cup {NUL})

\* What TypeOK says of the variables.
LEMMA Types ==
  ASSUME TableOwned
  PROVE  /\ aborted \in BOOLEAN
         /\ host \in [FileNames -> Contents]
         /\ exists \subseteq FileNames
         /\ desc \in [Descriptors -> FileNames \cup {NoName}]
         /\ table \in [Ids -> {Free, Self} \cup OpenFiles]
         /\ opened \in [Procs -> [Ids -> FileNames \cup {NoName}]]
BY DEF TableOwned, DescriptorsOwned, TypeOK, Contents

\* The three kinds of an entry.
LEMMA Kinds ==
  /\ Free.kind = "free" /\ Self.kind = "self"
  /\ \A x \in OpenFiles : /\ x.kind = "file" /\ x.fd \in Descriptors
                          /\ x.type \in {0, 1} /\ x.offset \in Nat
BY DEF Free, Self, OpenFiles

\* A set of naturals that is not empty has a least element.
LEMMA LeastIn == ASSUME NEW S \in SUBSET Nat, S # {} PROVE Least(S) \in S
<1>1. \E i \in S : \A j \in S : ~(<<j, i>> \in OpToRel(<, Nat))
  BY WFMin, NatLessThanWellFounded
<1>2. \A i, j \in S : ~(<<j, i>> \in OpToRel(<, Nat)) => i <= j
  BY DEF OpToRel
<1> QED BY <1>1, <1>2 DEF Least

\* An entry that holds an OpenFile has its descriptor, which is open.
LEMMA HeldTypes ==
  ASSUME TableOwned, NEW i \in Held
  PROVE  /\ i \in Ids /\ i >= 2
         /\ table[i] \in OpenFiles /\ table[i].fd \in Descriptors
         /\ table[i].type \in {0, 1} /\ table[i].offset \in Nat
         /\ File(i) \in FileNames
<1>1. i \in Ids /\ table[i].kind = "file" /\ table[i] \in {Free, Self} \cup OpenFiles
  BY Types DEF Held
<1>2. table[i] \in OpenFiles /\ table[i].fd \in Descriptors
      /\ table[i].type \in {0, 1} /\ table[i].offset \in Nat
  BY <1>1, Kinds
<1>3. i >= 2
  <2>1. i # 0 /\ i # 1
    BY <1>1, Kinds DEF TableOwned
  <2> QED BY <1>1, <2>1, FileAssumption DEF Ids
<1>4. desc[table[i].fd] # NoName
  BY <1>2 DEF TableOwned, DescriptorsOwned
<1>5. File(i) \in FileNames
  BY <1>2, <1>4, Types DEF File
<1> QED BY <1>1, <1>2, <1>3, <1>5

\* FileSystem::getOpenFile answers for the entries that hold an OpenFile.
LEMMA OpenIsHeld ==
  ASSUME TableOwned, NEW fid \in Int
  PROVE  IsOpen(fid) <=> fid \in Held
<1>1. fid \in Held => fid >= 2
  BY HeldTypes
<1>2. fid \notin Ids => TableGet(fid).kind # "file"
  BY Kinds DEF TableGet
<1> QED BY <1>1, <1>2 DEF IsOpen, TableGet, Held

\* Some descriptor is always free: there are as many as entries of the table,
\* and the constructor's two entries use none.
LEMMA DescriptorLeft ==
  ASSUME TableOwned
  PROVE  \E d \in Descriptors : desc[d] = NoName
<1> SUFFICES ASSUME \A d \in Descriptors : desc[d] # NoName PROVE FALSE
  OBVIOUS
<1> DEFINE f == [i \in Held |-> table[i].fd]
<1>1. Descriptors = {table[i].fd : i \in Held}
  BY DEF TableOwned, DescriptorsOwned
<1>2. f \in Surjection(Held, Descriptors)
  BY <1>1 DEF Surjection
<1>3. IsFiniteSet(Ids) /\ Cardinality(Ids) = TableSize
      /\ IsFiniteSet(Descriptors) /\ Cardinality(Descriptors) = TableSize
  BY FileAssumption, FS_Interval DEF Ids, Descriptors
<1>4. Held \in SUBSET (Ids \ {0})
  BY HeldTypes DEF Held
<1>5. IsFiniteSet(Ids \ {0}) /\ Cardinality(Ids \ {0}) = TableSize - 1
  <2>1. 0 \in Ids
    BY FileAssumption DEF Ids
  <2> QED BY <1>3, <2>1, FS_RemoveElement
<1>6. IsFiniteSet(Held) /\ Cardinality(Held) <= TableSize - 1
  BY <1>4, <1>5, FS_Subset
<1>7. TableSize <= Cardinality(Held)
  BY <1>2, <1>3, <1>6, FS_Surjection
<1>8. Cardinality(Held) \in Nat
  BY <1>6, FS_CardinalityType
<1> QED BY <1>6, <1>7, <1>8, FileAssumption

\* A step that leaves every entry free, the constructor's, or an OpenFile with
\* its descriptor.
LEMMA EntriesKept ==
  ASSUME TableOwned,
         aborted' \in BOOLEAN, exists' \subseteq FileNames,
         host' \in [FileNames -> Contents],
         table' \in [Ids -> {Free, Self} \cup OpenFiles],
         \A i \in Ids : \/ table'[i] = table[i]
                        \/ /\ table[i].kind = "file" /\ table'[i].kind = "file"
                           /\ table'[i].fd = table[i].fd,
         desc' = desc, opened' = opened
  PROVE  TableOwned' /\ (IdStandsForFile => IdStandsForFile')
<1>1. Held' = Held /\ \A i \in Held : table'[i].fd = table[i].fd
  BY DEF Held
<1>2. TypeOK'
  BY Types DEF TypeOK, Contents
<1>3. DescriptorsOwned'
  BY <1>1, <1>2 DEF TableOwned, DescriptorsOwned
<1>4. table'[0] = Self /\ table'[1] = Self
  <2>1. 0 \in Ids /\ 1 \in Ids
    BY FileAssumption DEF Ids
  <2>2. table[0].kind # "file" /\ table[1].kind # "file"
    BY Kinds DEF TableOwned
  <2> QED BY <2>1, <2>2 DEF TableOwned
<1>5. ASSUME IdStandsForFile PROVE IdStandsForFile'
  <2> SUFFICES ASSUME NEW p \in Procs, NEW i \in Ids, opened[p][i] # NoName
               PROVE  IsOpen(i)' /\ File(i)' = opened[p][i]
    BY DEF IdStandsForFile
  <2>1. i >= 2 /\ table[i].kind = "file" /\ File(i) = opened[p][i]
    BY <1>5 DEF IdStandsForFile, IsOpen, TableGet
  <2>2. table'[i].kind = "file" /\ table'[i].fd = table[i].fd
    BY <2>1
  <2> QED BY <2>1, <2>2 DEF IsOpen, TableGet, File
<1> QED BY <1>3, <1>4, <1>5 DEF TableOwned

\* A step that moves the offset of one OpenFile.
LEMMA OffsetMoved ==
  ASSUME TableOwned, NEW i \in Held, NEW n \in Nat,
         table' = [table EXCEPT ![i] = [@ EXCEPT !.offset = n]]
  PROVE  /\ table' \in [Ids -> {Free, Self} \cup OpenFiles]
         /\ \A j \in Ids : \/ table'[j] = table[j]
                           \/ /\ j = i
                              /\ table[j].kind = "file" /\ table'[j].kind = "file"
                              /\ table'[j].fd = table[j].fd
<1> DEFINE x == [table[i] EXCEPT !.offset = n]
<1>1. table[i] \in OpenFiles /\ i \in Ids
  BY HeldTypes
<1>2. x \in OpenFiles /\ x.fd = table[i].fd /\ x.kind = "file" /\ table[i].kind = "file"
  BY <1>1 DEF OpenFiles
<1>3. table \in [Ids -> {Free, Self} \cup OpenFiles]
  BY Types
<1>4. table' = [table EXCEPT ![i] = x]
  OBVIOUS
<1> HIDE DEF x
<1> QED BY <1>1, <1>2, <1>3, <1>4

\* What each system call keeps.
LEMMA CreateFileInv ==
  ASSUME TableOwned, NEW p, NEW name \in FileNames \cup BadNames \cup {NoName},
         CreateFile(p, name)
  PROVE  TableOwned' /\ (IdStandsForFile => IdStandsForFile')
<1>1. desc' = desc /\ table' = table /\ opened' = opened
  BY DEF CreateFile
<1>2. aborted' \in BOOLEAN /\ exists' \subseteq FileNames /\ host' \in [FileNames -> Contents]
  <2>1. CASE name = NoName
    BY <2>1, Types DEF CreateFile
  <2>2. CASE name # NoName /\ name \in BadNames
    BY <2>2, Types DEF CreateFile, OpenForWrite
  <2>3. CASE name \in FileNames /\ name \notin BadNames /\ name # NoName
    <3>1. <<>> \in Contents
      BY DEF Contents
    <3> QED BY <2>3, <3>1, Types DEF CreateFile, OpenForWrite
  <2> QED BY <2>1, <2>2, <2>3
<1> QED BY <1>1, <1>2, Types, EntriesKept

\* What is read is a part of the file.
LEMMA PartIsContents ==
  ASSUME NEW s \in Contents, NEW offset \in Nat, NEW n \in Int
  PROVE  ReadPartial(s, offset, n) \in Contents
<1> DEFINE end == IF offset + n < Len(s) THEN offset + n ELSE Len(s)
<1>1. s \in Seq(Bytes \cup {NUL}) /\ Len(s) \in Nat /\ end \in Int /\ end <= Len(s)
  BY DEF Contents
<1>2. ReadPartial(s, offset, n) = SubSeq(s, offset + 1, end)
  BY DEF ReadPartial
<1> HIDE DEF end
<1>3. SubSeq(s, offset + 1, end) \in Seq(Bytes \cup {NUL})
  BY <1>1, SMTT(30)
<1> QED BY <1>2, <1>3 DEF Contents

\* Read moves only the offset of its entry.
LEMMA ReadInv ==
  ASSUME TableOwned, NEW p, NEW fid \in Int, NEW count \in Int, Read(p, fid, count)
  PROVE  TableOwned' /\ (IdStandsForFile => IdStandsForFile')
<1>1. /\ desc' = desc /\ opened' = opened /\ host' = host /\ exists' = exists
      /\ aborted' = aborted
  BY DEF Read
<1>2. CASE ~(IsOpen(fid) /\ count >= 0)
  <2>1. table' = table
    BY <1>2 DEF Read
  <2> QED BY <1>1, <2>1, Types, EntriesKept
<1>3. CASE IsOpen(fid) /\ count >= 0
  <2> DEFINE data == ReadPartial(host[File(fid)], table[fid].offset, count)
             n == table[fid].offset + Len(data)
  <2>1. fid \in Held
    BY <1>3, OpenIsHeld
  <2>2. table[fid].offset \in Nat /\ host[File(fid)] \in Contents
    BY <2>1, HeldTypes, Types
  <2>3. data \in Contents
    BY <2>2, PartIsContents
  <2>4. n \in Nat
    BY <2>2, <2>3 DEF Contents
  <2>5. table' = [table EXCEPT ![fid] = [@ EXCEPT !.offset = n]]
    BY <1>3 DEF Read
  <2> HIDE DEF n
  <2>6. /\ table' \in [Ids -> {Free, Self} \cup OpenFiles]
        /\ \A j \in Ids : \/ table'[j] = table[j]
                          \/ /\ table[j].kind = "file" /\ table'[j].kind = "file"
                             /\ table'[j].fd = table[j].fd
    BY <2>1, <2>4, <2>5, OffsetMoved
  <2> QED BY <1>1, <2>6, Types, EntriesKept
<1> QED BY <1>2, <1>3

\* Seek moves only the offset of its entry.
LEMMA SeekInv ==
  ASSUME TableOwned, NEW p, NEW fid \in Int, NEW pos \in Int, Seek(p, pos, fid)
  PROVE  TableOwned' /\ (IdStandsForFile => IdStandsForFile')
<1> DEFINE new == IF IsOpen(fid) THEN SeekOffset(fid, pos) ELSE Failed
<1>1. /\ desc' = desc /\ opened' = opened /\ host' = host /\ exists' = exists
      /\ aborted' = aborted
  BY DEF Seek
<1>2. CASE new = Failed
  <2>1. table' = table
    BY <1>2 DEF Seek
  <2> QED BY <1>1, <2>1, Types, EntriesKept
<1>3. CASE new # Failed
  <2>1. fid \in Held /\ new = SeekOffset(fid, pos)
    BY <1>3, OpenIsHeld
  <2>2. Length(fid) \in Nat
    BY <2>1, HeldTypes, Types DEF Length, Contents
  <2>3. new \in Nat
    BY <1>3, <2>1, <2>2 DEF SeekOffset, Failed
  <2>4. table' = [table EXCEPT ![fid] = [@ EXCEPT !.offset = new]]
    BY <1>3 DEF Seek
  <2> HIDE DEF new
  <2>5. /\ table' \in [Ids -> {Free, Self} \cup OpenFiles]
        /\ \A j \in Ids : \/ table'[j] = table[j]
                          \/ /\ table[j].kind = "file" /\ table'[j].kind = "file"
                             /\ table'[j].fd = table[j].fd
    BY <2>1, <2>3, <2>4, OffsetMoved
  <2> QED BY <1>1, <2>5, Types, EntriesKept
<1> QED BY <1>2, <1>3

\* Buffers are sequences of bytes, and a kernel buffer is as long as the user's.
LEMMA KernelBuffer ==
  ASSUME NEW data \in Buffers
  PROVE  /\ User2System(data) \in Contents /\ Len(data) \in Nat
         /\ Len(User2System(data)) = Len(data)
<1>1. PICK n \in 0 .. MaxCount : data \in [1 .. n -> Bytes]
  BY DEF Buffers
<1>2. n \in Nat /\ DOMAIN data = 1 .. n
  BY <1>1, FileAssumption
<1>3. data \in Seq(Bytes) /\ Len(data) = n
  BY <1>1, <1>2
<1>4. User2System(data) \in [1 .. n -> Bytes \cup {NUL}]
  BY <1>1, <1>2 DEF User2System
<1>5. User2System(data) \in Seq(Bytes \cup {NUL}) /\ Len(User2System(data)) = n
  BY <1>2, <1>4
<1> QED BY <1>2, <1>3, <1>5 DEF Contents

\* A write never shortens a file, and keeps what is before its offset.
LEMMA WriteFileKeeps ==
  ASSUME NEW s \in Contents, NEW offset \in Nat, NEW data \in Contents
  PROVE  /\ WriteFile(s, offset, data) \in Contents
         /\ Len(WriteFile(s, offset, data)) >= Len(s)
         /\ \A k \in 1 .. Len(s) :
              k <= offset => WriteFile(s, offset, data)[k] = s[k]
<1> DEFINE end == offset + Len(data)
           n == IF data = <<>> \/ end < Len(s) THEN Len(s) ELSE end
           w == [i \in 1 .. n |-> IF offset < i /\ i <= end THEN data[i - offset]
                                  ELSE IF i <= Len(s) THEN s[i] ELSE NUL]
<1>1. WriteFile(s, offset, data) = w
  BY DEF WriteFile
<1>2. Len(s) \in Nat /\ Len(data) \in Nat /\ end \in Nat
  BY DEF Contents
<1>3. n \in Nat /\ n >= Len(s)
  BY <1>2
<1>4. \A i \in 1 .. n : w[i] \in Bytes \cup {NUL}
  <2> TAKE i \in 1 .. n
  <2>1. CASE offset < i /\ i <= end
    <3>1. i - offset \in 1 .. Len(data)
      BY <1>2, <1>3, <2>1
    <3>2. data[i - offset] \in Bytes \cup {NUL}
      BY <3>1 DEF Contents
    <3> QED BY <2>1, <3>2
  <2>2. CASE ~(offset < i /\ i <= end) /\ i <= Len(s)
    <3>1. i \in 1 .. Len(s)
      BY <1>2, <1>3, <2>2
    <3>2. s[i] \in Bytes \cup {NUL}
      BY <3>1 DEF Contents
    <3> QED BY <2>2, <3>2
  <2>3. CASE ~(offset < i /\ i <= end) /\ ~(i <= Len(s))
    BY <2>3
  <2> QED BY <2>1, <2>2, <2>3
<1>5. \A k \in 1 .. Len(s) : k <= offset => w[k] = s[k]
  BY <1>2, <1>3
<1>6. w \in [1 .. n -> Bytes \cup {NUL}]
  BY <1>4
<1> HIDE DEF w, n
<1>7. w \in Seq(Bytes \cup {NUL}) /\ Len(w) = n
  BY <1>3, <1>6
<1> QED BY <1>1, <1>3, <1>5, <1>7 DEF Contents

\* The effect of a Write that the table admits.
LEMMA WriteEffect ==
  ASSUME TableOwned, NEW p, NEW fid \in Int, NEW data \in Buffers, Write(p, fid, data),
         IsOpen(fid) /\ table[fid].type # 1
  PROVE  /\ fid \in Held
         /\ table' \in [Ids -> {Free, Self} \cup OpenFiles]
         /\ \A j \in Ids : \/ table'[j] = table[j]
                           \/ /\ j = fid
                              /\ table[j].kind = "file" /\ table'[j].kind = "file"
                              /\ table'[j].fd = table[j].fd
         /\ host' \in [FileNames -> Contents]
         /\ \A f \in FileNames : f # File(fid) => host'[f] = host[f]
         /\ Len(host'[File(fid)]) >= Len(host[File(fid)])
         /\ \A k \in 1 .. Len(host[File(fid)]) :
              k <= table[fid].offset => host'[File(fid)][k] = host[File(fid)][k]
<1> DEFINE n == table[fid].offset + Len(data)
           f == File(fid)
           w == WriteFile(host[f], table[fid].offset, User2System(data))
<1>1. fid \in Held
  BY OpenIsHeld
<1>2. table[fid].offset \in Nat /\ f \in FileNames /\ host[f] \in Contents
  BY <1>1, HeldTypes, Types
<1>3. n \in Nat
  BY <1>2, KernelBuffer
<1>4. table' = [table EXCEPT ![fid] = [@ EXCEPT !.offset = n]]
  BY DEF Write
<1>5. host' = [host EXCEPT ![f] = w]
  BY DEF Write
<1>6. /\ w \in Contents /\ Len(w) >= Len(host[f])
      /\ \A k \in 1 .. Len(host[f]) : k <= table[fid].offset => w[k] = host[f][k]
  <2>1. User2System(data) \in Contents
    BY KernelBuffer
  <2> QED BY <1>2, <2>1, WriteFileKeeps
<1> HIDE DEF n, w
<1>7. /\ table' \in [Ids -> {Free, Self} \cup OpenFiles]
      /\ \A j \in Ids : \/ table'[j] = table[j]
                        \/ /\ j = fid
                           /\ table[j].kind = "file" /\ table'[j].kind = "file"
                           /\ table'[j].fd = table[j].fd
  BY <1>1, <1>3, <1>4, OffsetMoved
<1>8. host' \in [FileNames -> Contents] /\ host'[f] = w
      /\ \A g \in FileNames : g # f => host'[g] = host[g]
  BY <1>2, <1>5, <1>6, Types
<1> QED BY <1>1, <1>6, <1>7, <1>8

\* Write changes the file and the offset of its entry.
LEMMA WriteInv ==
  ASSUME TableOwned, NEW p, NEW fid \in Int, NEW data \in Buffers, Write(p, fid, data)
  PROVE  TableOwned' /\ (IdStandsForFile => IdStandsForFile')
<1>1. desc' = desc /\ opened' = opened /\ exists' = exists /\ aborted' = aborted
  BY DEF Write
<1>2. CASE ~(IsOpen(fid) /\ table[fid].type # 1)
  <2>1. table' = table /\ host' = host
    BY <1>2 DEF Write
  <2> QED BY <1>1, <2>1, Types, EntriesKept
<1>3. CASE IsOpen(fid) /\ table[fid].type # 1
  <2>1. /\ table' \in [Ids -> {Free, Self} \cup OpenFiles]
        /\ \A j \in Ids : \/ table'[j] = table[j]
                          \/ /\ table[j].kind = "file" /\ table'[j].kind = "file"
                             /\ table'[j].fd = table[j].fd
        /\ host' \in [FileNames -> Contents]
    BY <1>3, WriteEffect
  <2> QED BY <1>1, <2>1, Types, EntriesKept
<1> QED BY <1>2, <1>3

\* One program uses the table.
OneProgram == \A p, q \in Procs : p = q

\* Open takes a free entry and a free descriptor together.
LEMMA OpenInv ==
  ASSUME TableOwned, NEW p \in Procs, NEW name, NEW type, Open(p, name, type)
  PROVE  TableOwned' /\ (IdStandsForFile => IdStandsForFile')
<1> DEFINE fid == FopenId(name, type)
           fd == OpenForReadWrite
           x == OpenFile(fd, type)
<1>1. host' = host /\ exists' = exists /\ aborted' = aborted
  BY DEF Open
<1>2. CASE fid = Failed
  <2>1. table' = table /\ desc' = desc /\ opened' = opened
    BY <1>2 DEF Open, Fopen
  <2> QED BY <1>1, <2>1, Types, EntriesKept
<1>3. CASE fid # Failed
  <2>1. type \in {0, 1} /\ name \in exists /\ FreeEntries # {} /\ fid = Least(FreeEntries)
    BY <1>3 DEF FopenId
  <2>2. fid \in Ids /\ table[fid] = Free
    <3>1. FreeEntries \in SUBSET Nat
      BY FileAssumption DEF FreeEntries, Ids
    <3>2. fid \in FreeEntries
      BY <2>1, <3>1, LeastIn
    <3> QED BY <3>2 DEF FreeEntries
  <2>3. fd \in Descriptors /\ desc[fd] = NoName
    <3> DEFINE S == {d \in Descriptors : desc[d] = NoName}
    <3>1. S \in SUBSET Nat /\ S # {}
      BY DescriptorLeft, FileAssumption DEF Descriptors
    <3>2. Least(S) \in S
      BY <3>1, LeastIn
    <3> QED BY <3>2 DEF OpenForReadWrite
  <2>4. name \in FileNames /\ name # NoName
    BY <2>1, Types, FileAssumption
  <2>5. x \in OpenFiles /\ x.kind = "file" /\ x.fd = fd
    BY <2>1, <2>3 DEF OpenFile, OpenFiles
  <2>6. /\ desc' = [desc EXCEPT ![fd] = name] /\ table' = [table EXCEPT ![fid] = x]
        /\ opened' = [opened EXCEPT ![p][fid] = name]
    BY <1>3 DEF Open, Fopen
  <2>7. fid >= 2
    <3>1. fid # 0 /\ fid # 1
      BY <2>2, Kinds DEF TableOwned
    <3> QED BY <2>2, <3>1, FileAssumption DEF Ids
  <2> HIDE DEF fid, fd, x
  <2>8. /\ table' \in [Ids -> {Free, Self} \cup OpenFiles]
        /\ table'[fid] = x /\ \A i \in Ids : i # fid => table'[i] = table[i]
    BY <2>2, <2>5, <2>6, Types
  <2>9. /\ desc' \in [Descriptors -> FileNames \cup {NoName}]
        /\ desc'[fd] = name /\ \A d \in Descriptors : d # fd => desc'[d] = desc[d]
    BY <2>3, <2>4, <2>6, Types
  <2>10. /\ opened' \in [Procs -> [Ids -> FileNames \cup {NoName}]]
         /\ opened'[p][fid] = name
         /\ \A q \in Procs, i \in Ids : q # p \/ i # fid => opened'[q][i] = opened[q][i]
    BY <2>2, <2>4, <2>6, Types
  <2>11. TypeOK'
    BY <1>1, <2>8, <2>9, <2>10, Types DEF TypeOK, Contents
  <2>12. Held' = Held \cup {fid} /\ fid \notin Held
    BY <2>2, <2>5, <2>8, Kinds DEF Held
  <2>13. \A i \in Held : /\ i \in Ids /\ i # fid /\ table'[i] = table[i]
                         /\ table[i].fd \in Descriptors /\ desc[table[i].fd] # NoName
                         /\ table[i].fd # fd
    <3> TAKE i \in Held
    <3>1. i \in Ids /\ table[i].fd \in Descriptors /\ File(i) \in FileNames
      BY HeldTypes
    <3>2. desc[table[i].fd] # NoName
      BY <3>1, FileAssumption DEF File
    <3> QED BY <2>3, <2>8, <2>12, <3>1, <3>2
  <2>14. \A i, j \in Held' : table'[i].fd = table'[j].fd => i = j
    BY <2>5, <2>8, <2>12, <2>13 DEF TableOwned, DescriptorsOwned
  <2>15. {d \in Descriptors : desc'[d] # NoName} = {table'[i].fd : i \in Held'}
    <3>1. {d \in Descriptors : desc'[d] # NoName}
            = {d \in Descriptors : desc[d] # NoName} \cup {fd}
      BY <2>3, <2>4, <2>9
    <3>2. {table'[i].fd : i \in Held'} = {table[i].fd : i \in Held} \cup {fd}
      BY <2>5, <2>8, <2>12, <2>13
    <3> QED BY <3>1, <3>2 DEF TableOwned, DescriptorsOwned
  <2>16. table'[0] = Self /\ table'[1] = Self
    BY <2>7, <2>8, FileAssumption DEF TableOwned, Ids
  <2>17. ASSUME IdStandsForFile PROVE IdStandsForFile'
    <3> SUFFICES ASSUME NEW q \in Procs, NEW i \in Ids, opened'[q][i] # NoName
                 PROVE  IsOpen(i)' /\ File(i)' = opened'[q][i]
      BY DEF IdStandsForFile
    <3>1. CASE i = fid
      <4>1. opened[q][i] = NoName
        <5>1. table[i].kind # "file"
          BY <2>2, <3>1, Kinds
        <5> QED BY <2>17, <5>1 DEF IdStandsForFile, IsOpen, TableGet
      <4>2. q = p
        BY <2>10, <3>1, <4>1
      <4> QED BY <2>5, <2>7, <2>8, <2>9, <2>10, <3>1, <4>2 DEF IsOpen, TableGet, File
    <3>2. CASE i # fid
      <4>1. opened[q][i] # NoName /\ opened'[q][i] = opened[q][i]
        BY <2>10, <3>2
      <4>2. i >= 2 /\ table[i].kind = "file" /\ File(i) = opened[q][i]
        BY <2>17, <4>1 DEF IdStandsForFile, IsOpen, TableGet
      <4>3. i \in Held
        BY <4>2 DEF Held
      <4>4. table'[i] = table[i] /\ desc'[table[i].fd] = desc[table[i].fd]
        BY <2>9, <2>13, <4>3
      <4> QED BY <4>1, <4>2, <4>4 DEF IsOpen, TableGet, File
    <3> QED BY <3>1, <3>2
  <2> QED BY <2>11, <2>14, <2>15, <2>16, <2>17 DEF TableOwned, DescriptorsOwned
<1> QED BY <1>2, <1>3

\* An id that two programs were told of is closed for both: the last conjunct
\* needs a single program.
LEMMA CloseInv ==
  ASSUME TableOwned, NEW p \in Procs, NEW fid \in Int, Close(p, fid)
  PROVE  TableOwned' /\ (OneProgram /\ IdStandsForFile => IdStandsForFile')
<1>1. host' = host /\ exists' = exists /\ aborted' = aborted
  BY DEF Close
<1>2. CASE ~IsOpen(fid)
  <2>1. table' = table /\ desc' = desc /\ opened' = opened
    BY <1>2 DEF Close
  <2> QED BY <1>1, <2>1, Types, EntriesKept
<1>3. CASE IsOpen(fid)
  <2> DEFINE fd == table[fid].fd
  <2>1. fid \in Held /\ fid \in Ids /\ fid >= 2 /\ fd \in Descriptors
    BY <1>3, OpenIsHeld, HeldTypes
  <2>2. /\ desc' = [desc EXCEPT ![fd] = NoName] /\ table' = [table EXCEPT ![fid] = Free]
        /\ opened' = [opened EXCEPT ![p][fid] = NoName]
    BY <1>3 DEF Close, Fclose
  <2>3. /\ table' \in [Ids -> {Free, Self} \cup OpenFiles]
        /\ table'[fid] = Free /\ \A i \in Ids : i # fid => table'[i] = table[i]
    BY <2>1, <2>2, Types
  <2>4. /\ desc' \in [Descriptors -> FileNames \cup {NoName}]
        /\ desc'[fd] = NoName /\ \A d \in Descriptors : d # fd => desc'[d] = desc[d]
    BY <2>1, <2>2, Types
  <2>5. /\ opened' \in [Procs -> [Ids -> FileNames \cup {NoName}]]
        /\ opened'[p][fid] = NoName
        /\ \A q \in Procs, i \in Ids : q # p \/ i # fid => opened'[q][i] = opened[q][i]
    BY <2>1, <2>2, Types
  <2>6. TypeOK'
    BY <1>1, <2>3, <2>4, <2>5, Types DEF TypeOK, Contents
  <2>7. Held' = Held \ {fid} /\ \A i \in Held' : table'[i] = table[i] /\ table[i].fd # fd
    <3>1. Held' = Held \ {fid}
      BY <2>3, Kinds DEF Held
    <3>2. \A i \in Held' : table'[i] = table[i]
      BY <2>3, <3>1 DEF Held
    <3>3. \A i \in Held' : table[i].fd # fd
      BY <2>1, <3>1 DEF TableOwned, DescriptorsOwned
    <3> QED BY <3>1, <3>2, <3>3
  <2>8. \A i, j \in Held' : table'[i].fd = table'[j].fd => i = j
    BY <2>7 DEF TableOwned, DescriptorsOwned
  <2>9. {d \in Descriptors : desc'[d] # NoName} = {table'[i].fd : i \in Held'}
    <3>1. {d \in Descriptors : desc'[d] # NoName}
            = {d \in Descriptors : desc[d] # NoName} \ {fd}
      BY <2>1, <2>4
    <3>2. {table'[i].fd : i \in Held'} = {table[i].fd : i \in Held} \ {fd}
      BY <2>1, <2>7
    <3> QED BY <3>1, <3>2 DEF TableOwned, DescriptorsOwned
  <2>10. table'[0] = Self /\ table'[1] = Self
    BY <2>1, <2>3, FileAssumption DEF TableOwned, Ids
  <2>11. ASSUME OneProgram, IdStandsForFile PROVE IdStandsForFile'
    <3> SUFFICES ASSUME NEW q \in Procs, NEW i \in Ids, opened'[q][i] # NoName
                 PROVE  IsOpen(i)' /\ File(i)' = opened'[q][i]
      BY DEF IdStandsForFile
    <3>1. i # fid /\ opened[q][i] # NoName /\ opened'[q][i] = opened[q][i]
      BY <2>5, <2>11 DEF OneProgram
    <3>2. i >= 2 /\ table[i].kind = "file" /\ File(i) = opened[q][i]
      BY <2>11, <3>1 DEF IdStandsForFile, IsOpen, TableGet
    <3>3. i \in Held /\ i \in Held'
      BY <2>7, <3>1, <3>2 DEF Held
    <3>4. table[i].fd \in Descriptors
      BY <3>3, HeldTypes
    <3>5. table'[i] = table[i] /\ desc'[table[i].fd] = desc[table[i].fd]
      BY <2>4, <2>7, <3>3, <3>4
    <3> QED BY <3>1, <3>2, <3>5 DEF IsOpen, TableGet, File
  <2> QED BY <2>6, <2>8, <2>9, <2>10, <2>11 DEF TableOwned, DescriptorsOwned
<1> QED BY <1>2, <1>3

-----------------------------------------------------------------------------
\* At the start no entry holds a descriptor.
LEMMA InitInv == Init => TableOwned /\ IdStandsForFile
<1> SUFFICES ASSUME Init PROVE TableOwned /\ IdStandsForFile
  OBVIOUS
<1> USE DEF Init, TableInit
<1>1. Held = {}
  BY Kinds DEF Held
<1>2. TypeOK
  <2>1. <<>> \in Seq(Bytes \cup {NUL})
    OBVIOUS
  <2> QED BY <2>1 DEF TypeOK
<1>3. DescriptorsOwned
  BY <1>1, <1>2 DEF DescriptorsOwned
<1>4. table[0] = Self /\ table[1] = Self
  BY FileAssumption DEF Ids
<1> QED BY <1>3, <1>4 DEF TableOwned, IdStandsForFile

\* Every step keeps the owners of the entries and the files of the ids.
LEMMA NextInv ==
  ASSUME TableOwned, [Next]_vars
  PROVE  TableOwned' /\ (OneProgram /\ IdStandsForFile => IdStandsForFile')
<1>1. ASSUME NEW p \in Procs, NEW name \in FileNames \cup BadNames \cup {NoName},
             CreateFile(p, name)
      PROVE  TableOwned' /\ (OneProgram /\ IdStandsForFile => IdStandsForFile')
  BY <1>1, CreateFileInv
<1>2. ASSUME NEW p \in Procs, NEW name \in FileNames \cup BadNames \cup {NoName},
             NEW type \in 0 .. 2, Open(p, name, type)
      PROVE  TableOwned' /\ (OneProgram /\ IdStandsForFile => IdStandsForFile')
  BY <1>2, OpenInv
<1>3. ASSUME NEW p \in Procs, NEW fid \in Int, NEW count \in -1 .. MaxCount,
             Read(p, fid, count)
      PROVE  TableOwned' /\ (OneProgram /\ IdStandsForFile => IdStandsForFile')
  <2>1. count \in Int
    BY FileAssumption
  <2> QED BY <1>3, <2>1, ReadInv
<1>4. ASSUME NEW p \in Procs, NEW fid \in Int, NEW data \in Buffers, Write(p, fid, data)
      PROVE  TableOwned' /\ (OneProgram /\ IdStandsForFile => IdStandsForFile')
  BY <1>4, WriteInv
<1>5. ASSUME NEW p \in Procs, NEW fid \in Int, Close(p, fid)
      PROVE  TableOwned' /\ (OneProgram /\ IdStandsForFile => IdStandsForFile')
  BY <1>5, CloseInv
<1>6. ASSUME NEW p \in Procs, NEW fid \in Int, NEW pos \in -2 .. MaxLen, Seek(p, pos, fid)
      PROVE  TableOwned' /\ (OneProgram /\ IdStandsForFile => IdStandsForFile')
  <2>1. pos \in Int
    BY FileAssumption
  <2> QED BY <1>6, <2>1, SeekInv
<1>7. CASE UNCHANGED vars
  <2>1. /\ desc' = desc /\ opened' = opened /\ host' = host /\ exists' = exists
        /\ aborted' = aborted /\ table' = table
    BY <1>7 DEF vars
  <2> QED BY <2>1, Types, EntriesKept
<1>8. {-1} \cup 2 .. TableSize \subseteq Int /\ -1 .. TableSize \subseteq Int
  BY FileAssumption
<1> QED BY <1>1, <1>2, <1>3, <1>4, <1>5, <1>6, <1>7, <1>8 DEF Next, Stopped

\* What one call may do to a file, in a state where the table is owned.
LEMMA WriterKeeps ==
  ASSUME TableOwned, Next, NEW f \in FileNames, last'.op # "CreateFile"
  PROVE  /\ Len(host'[f]) >= Len(host[f])
         /\ host'[f] # host[f] =>
              last'.op = "Write" /\ \E i \in Held : File(i) = f /\ table[i].type = 0
         /\ \A i \in Held :
              table'[i] # table[i] /\ File(i) = f =>
                \A k \in 1 .. Len(host[f]) :
                  k <= table[i].offset => host'[f][k] = host[f][k]
<1>1. Len(host[f]) \in Nat
  BY Types DEF Contents
<1>2. CASE host' = host
  BY <1>1, <1>2
<1>3. ASSUME NEW p \in Procs, NEW fid \in Int, NEW data \in Buffers,
             Write(p, fid, data), host' # host
      PROVE  /\ Len(host'[f]) >= Len(host[f])
             /\ host'[f] # host[f] =>
                  last'.op = "Write" /\ \E i \in Held : File(i) = f /\ table[i].type = 0
             /\ \A i \in Held :
                  table'[i] # table[i] /\ File(i) = f =>
                    \A k \in 1 .. Len(host[f]) :
                      k <= table[i].offset => host'[f][k] = host[f][k]
  <2>1. IsOpen(fid) /\ table[fid].type # 1 /\ last'.op = "Write"
    BY <1>3 DEF Write, Result
  <2>2. /\ fid \in Held
        /\ \A j \in Ids : table'[j] = table[j] \/ j = fid
        /\ \A g \in FileNames : g # File(fid) => host'[g] = host[g]
        /\ Len(host'[File(fid)]) >= Len(host[File(fid)])
        /\ \A k \in 1 .. Len(host[File(fid)]) :
             k <= table[fid].offset => host'[File(fid)][k] = host[File(fid)][k]
    BY <1>3, <2>1, WriteEffect, ZenonT(60)
  <2>3. table[fid].type = 0
    BY <2>1, <2>2, HeldTypes
  <2>4. CASE f # File(fid)
    <3>1. host'[f] = host[f]
      BY <2>2, <2>4
    <3> QED BY <1>1, <3>1
  <2>5. CASE f = File(fid)
    <3>1. \A i \in Held : table'[i] # table[i] => i = fid
      BY <2>2 DEF Held
    <3> QED BY <2>1, <2>2, <2>3, <2>5, <3>1
  <2> QED BY <2>4, <2>5
<1>4. ASSUME NEW p, NEW name, CreateFile(p, name) PROVE last'.op = "CreateFile"
  BY <1>4 DEF CreateFile, Result
<1>5. \/ host' = host
      \/ \E p, name : CreateFile(p, name)
      \/ \E p \in Procs, fid \in Int, data \in Buffers : Write(p, fid, data)
  <2>1. ASSUME NEW p, NEW name, NEW type, Open(p, name, type) PROVE host' = host
    BY <2>1 DEF Open
  <2>2. ASSUME NEW p, NEW fid, NEW count, Read(p, fid, count) PROVE host' = host
    BY <2>2 DEF Read
  <2>3. ASSUME NEW p, NEW fid, Close(p, fid) PROVE host' = host
    BY <2>3 DEF Close
  <2>4. ASSUME NEW p, NEW fid, NEW pos, Seek(p, pos, fid) PROVE host' = host
    BY <2>4 DEF Seek
  <2>5. Stopped => host' = host
    BY DEF Stopped, vars
  <2>6. {-1} \cup 2 .. TableSize \subseteq Int
    BY FileAssumption
  <2> QED BY <2>1, <2>2, <2>3, <2>4, <2>5, <2>6 DEF Next
<1> QED BY <1>2, <1>3, <1>4, <1>5

-----------------------------------------------------------------------------
\* For any number of programs, files and entries of gFileTable: entries and
\* host descriptors match one to one, so no failed Open leaks a descriptor.
THEOREM DescriptorsAreOwned == Spec => []DescriptorsOwned
<1>1. Init => TableOwned
  BY InitInv
<1>2. TableOwned /\ [Next]_vars => TableOwned'
  BY NextInv
<1>3. TableOwned => DescriptorsOwned
  BY DEF TableOwned
<1> QED BY <1>1, <1>2, <1>3, PTL DEF Spec

\* A program that appends never loses what was written before, however many
\* programs have the file open.
THEOREM WritersKeepFiles == Spec => AppendKeeps
<1>1. Init => TableOwned
  BY InitInv
<1>2. TableOwned /\ [Next]_vars => TableOwned'
  BY NextInv
<1>3. TableOwned /\ [Next]_vars =>
        [\A f \in FileNames :
           last'.op # "CreateFile" =>
             /\ Len(host'[f]) >= Len(host[f])
             /\ host'[f] # host[f] =>
                  last'.op = "Write" /\ \E i \in Held : File(i) = f /\ table[i].type = 0
             /\ \A i \in Held :
                  table'[i] # table[i] /\ File(i) = f =>
                    \A k \in 1 .. Len(host[f]) :
                      k <= table[i].offset => host'[f][k] = host[f][k]]_vars
  BY WriterKeeps
<1> QED BY <1>1, <1>2, <1>3, PTL DEF Spec, AppendKeeps

\* While a single program uses the table, an id stands for the file that the
\* program opened until the program closes it.
THEOREM IdsStandForFiles == ASSUME OneProgram PROVE Spec => []IdStandsForFile
<1>1. Init => TableOwned /\ IdStandsForFile
  BY InitInv
<1>2. TableOwned /\ IdStandsForFile /\ [Next]_vars => (TableOwned /\ IdStandsForFile)'
  BY NextInv, OneProgram
<1> QED BY <1>1, <1>2, PTL DEF Spec
=============================================================================
