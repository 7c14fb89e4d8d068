------------------------------- MODULE NachosFS -------------------------------
(***************************************************************************)
(* The file system on the simulated disk: filesys/filesys.cc,              *)
(* directory.cc, filehdr.cc and openfile.cc, and the programs Copy, Print  *)
(* and PerformanceTest of fstest.cc, used by one thread at a time as       *)
(* filesys.cc asks, and stopped at any moment.                             *)
(*                                                                         *)
(* An operation reads what it needs, changes it in memory, and writes      *)
(* sector after sector: todo is what it still has to write.  A crash loses *)
(* todo and the open files.                                                *)
(*                                                                         *)
(* The directory takes two sectors, and the entry numbered Straddle lies   *)
(* across them, its name in the second; the free map takes one.            *)
(***************************************************************************)
EXTENDS Integers, Sequences, FiniteSets, Functions

CONSTANTS NumSectors, SectorSize, NumDirEntries, Straddle, TransferSize,
          Names, Handles,
          MaxSize,     \* bound on the size of a file
          MaxOps,      \* bound on operations that change the disk, and crashes
          MaxCrashes   \* bound on the crashes

ASSUME NachosFSAssumption ==
  /\ {NumSectors, SectorSize, NumDirEntries, TransferSize} \subseteq Nat \ {0}
  /\ Straddle \in 1 .. NumDirEntries
  /\ {MaxSize, MaxOps, MaxCrashes} \subseteq Nat

FreeMap == INSTANCE PhysMem WITH NumPhysPages <- NumSectors, PageSize <- SectorSize

FreeMapSector == 0
DirectorySector == 1

VARIABLES machine,   \* "up", "down", "damaged" or "assert"
          disk,      \* the contents of each sector
          todo,      \* <<[sector, data], ...>>
          freeMapFile, directoryFile,  \* their headers, in memory
          handle,    \* the open files
          client,    \* where Copy or the performance test is
          op,        \* the last operation: its file, the directory entry that
                     \* it changes (0 if none), and what the file is after it
          written,   \* what each file must be: a byte is Unknown if no Write
                     \* has set it
          ops, crashes

vars == <<machine, disk, todo, freeMapFile, directoryFile, handle, client, op,
          written, ops, crashes>>

-----------------------------------------------------------------------------
(* FileHeader.                                                             *)

divRoundUp(n) == (n \div SectorSize) + (IF n % SectorSize > 0 THEN 1 ELSE 0)

NoHdr == [numBytes |-> 0, dataSectors |-> <<>>]

Allocate(map, fileSize) ==
  LET n == divRoundUp(fileSize)
      find[k \in 0 .. n] ==
        IF k = 0 THEN [dataSectors |-> <<>>, map |-> map]
        ELSE LET f == FreeMap!Find(find[k - 1].map)
             IN  [dataSectors |-> Append(find[k - 1].dataSectors, f.bit), map |-> f.map]
  IN  IF FreeMap!NumClear(map) < n THEN [ok |-> FALSE, map |-> map, hdr |-> NoHdr]
      ELSE [ok |-> TRUE, map |-> find[n].map,
            hdr |-> [numBytes |-> fileSize, dataSectors |-> find[n].dataSectors]]

\* The sectors that Deallocate clears, which ought to be marked.
Deallocate(hdr) == Range(hdr.dataSectors)

ByteToSector(hdr, offset) == hdr.dataSectors[(offset \div SectorSize) + 1]

HdrAt(sector) == disk[sector].hdr
HdrBlock(hdr) == [kind |-> "header", hdr |-> hdr]

-----------------------------------------------------------------------------
(* OpenFile, on the header that was read when the file was opened.         *)

Min2(a, b) == IF a < b THEN a ELSE b

\* What is transferred of numBytes at position.
Amount(hdr, numBytes, position) ==
  IF numBytes <= 0 \/ position >= hdr.numBytes THEN 0
  ELSE Min2(numBytes, hdr.numBytes - position)

\* A sector as bytes.  Only a file that was removed while it was open reads
\* a sector that has become something else, here as zeros.
Block(sector) ==
  IF disk[sector].kind = "data" THEN disk[sector].bytes
  ELSE [k \in 1 .. SectorSize |-> 0]

\* The part of the buffer that is copied.
Part(buf, skip, n) == SubSeq(buf, skip + 1, skip + n)

\* ReadAt: the sectors from the first to the last are read into a buffer,
\* and the part in question is copied.
ReadAt(hdr, numBytes, position) ==
  LET n == Amount(hdr, numBytes, position)
      firstSector == position \div SectorSize
      lastSector == (position + n - 1) \div SectorSize
      buf == [k \in 1 .. (1 + lastSector - firstSector) * SectorSize |->
                Block(ByteToSector(hdr, firstSector * SectorSize + k - 1))
                  [((k - 1) % SectorSize) + 1]]
  IN  IF n = 0 THEN <<>> ELSE Part(buf, position - firstSector * SectorSize, n)


\* WriteAt reads a sector that it does not overwrite whole.
KeepsOld(i, firstSector, lastSector, firstAligned, lastAligned) ==
  \/ i = firstSector /\ ~firstAligned
  \/ i = lastSector /\ ~lastAligned /\ (firstSector # lastSector \/ firstAligned)

\* The sectors that WriteAt writes.  ReadAt stops at the end of the file, so
\* the rest of the last sector is what new char[] has, here 0.
WriteAt(hdr, from, position) ==
  LET n == Amount(hdr, Len(from), position)
      firstSector == position \div SectorSize
      lastSector == (position + n - 1) \div SectorSize
      firstAligned == position = firstSector * SectorSize
      lastAligned == position + n = (lastSector + 1) * SectorSize
      Byte(i, k) ==
        LET at == i * SectorSize + k - 1
        IN  IF position <= at /\ at < position + n THEN from[at - position + 1]
            ELSE IF /\ KeepsOld(i, firstSector, lastSector, firstAligned, lastAligned)
                    /\ at < hdr.numBytes
                 THEN Block(ByteToSector(hdr, at))[k] ELSE 0
  IN  IF n = 0 THEN <<>>
      ELSE [j \in 1 .. 1 + lastSector - firstSector |->
              LET i == firstSector + j - 1
              IN  [sector |-> ByteToSector(hdr, i * SectorSize),
                   data |-> [kind |-> "data",
                             bytes |-> [k \in 1 .. SectorSize |-> Byte(i, k)]]]]

-----------------------------------------------------------------------------
(* Directory and free map.                                                 *)

FreeEntry == [inUse |-> FALSE, name |-> "", sector |-> 0]
EmptyDirectory == [i \in 1 .. NumDirEntries |-> FreeEntry]

DirBlock(table) == [kind |-> "directory", table |-> table]

\* FetchFrom: each field from the sector it lies in.
Directory(file) ==
  LET A == disk[file.dataSectors[1]].table
      B == disk[file.dataSectors[2]].table
  IN  [i \in 1 .. NumDirEntries |->
         [inUse |-> IF i <= Straddle THEN A[i].inUse ELSE B[i].inUse,
          sector |-> IF i <= Straddle THEN A[i].sector ELSE B[i].sector,
          name |-> IF i < Straddle THEN A[i].name ELSE B[i].name]]

\* WriteBack.
DirWrites(file, table) ==
  [k \in 1 .. 2 |-> [sector |-> file.dataSectors[k], data |-> DirBlock(table)]]

Found(table, name) == {i \in DOMAIN table : table[i].inUse /\ table[i].name = name}

\* FindIndex, -1 if there is none, and Find.
FindIndex(table, name) ==
  IF Found(table, name) = {} THEN -1
  ELSE CHOOSE i \in Found(table, name) : \A j \in Found(table, name) : i <= j
Find(table, name) ==
  IF FindIndex(table, name) = -1 THEN -1 ELSE table[FindIndex(table, name)].sector

\* Add, to a directory that does not have the name; Full says it fails.
Full(table) == \A i \in DOMAIN table : table[i].inUse
Add(table, name, newSector) ==
  LET i == CHOOSE i \in DOMAIN table :
             ~table[i].inUse /\ \A j \in DOMAIN table : j < i => table[j].inUse
  IN  [table EXCEPT ![i] = [inUse |-> TRUE, name |-> name, sector |-> newSector]]

\* Directory::Remove, of a name that is there.
DirectoryRemove(table, name) == [table EXCEPT ![FindIndex(table, name)].inUse = FALSE]

Map(file) == disk[file.dataSectors[1]].map
MapWrite(file, map) ==
  <<[sector |-> file.dataSectors[1], data |-> [kind |-> "map", map |-> map]]>>

-----------------------------------------------------------------------------
(* FileSystem.                                                             *)

Unknown == -1
NoFile == [exists |-> FALSE, size |-> 0, bytes |-> [p \in 0 .. MaxSize - 1 |-> Unknown]]
Closed == [open |-> FALSE, hdr |-> NoHdr, seekPosition |-> 0, name |-> "",
           removed |-> FALSE]
NoClient == [on |-> FALSE, test |-> FALSE, name |-> "", data |-> <<>>, next |-> 0]

Running == machine = "up" /\ todo = <<>> /\ ~client.on

Budget == ops + crashes < MaxOps

\* An operation on a file begins to write.
Begin(name, entry, before, after, writes) ==
  /\ ops' = ops + 1
  /\ todo' = writes
  /\ op' = [name |-> name, entry |-> entry, after |-> after]
  /\ written' = [written EXCEPT ![name] = IF writes = <<>> THEN after ELSE before]


CreateWrites(sector, hdr, table, map) ==
  <<[sector |-> sector, data |-> HdrBlock(hdr)]>>
    \o DirWrites(directoryFile, table) \o MapWrite(freeMapFile, map)

\* Create: what it writes, and the entry it fills, or that it fails.
CreateResult(name, initialSize) ==
  LET table == Directory(directoryFile)
      hdrSector == FreeMap!Find(Map(freeMapFile))
      data == Allocate(hdrSector.map, initialSize)
      added == Add(table, name, hdrSector.bit)
  IN  IF \/ FindIndex(table, name) # -1
         \/ hdrSector.bit = -1
         \/ Full(table)
         \/ ~data.ok
      THEN [ok |-> FALSE, entry |-> 0, writes |-> <<>>]
      ELSE [ok |-> TRUE, entry |-> FindIndex(added, name),
            writes |-> CreateWrites(hdrSector.bit, data.hdr, added, data.map)]

CreateAs(name, size, r) ==
  IF r.ok
  THEN Begin(name, r.entry, NoFile, [NoFile EXCEPT !.exists = TRUE, !.size = size],
             r.writes)
  ELSE UNCHANGED <<todo, op, written, ops>>

Create(name, size) ==
  /\ Running /\ Budget
  /\ CreateAs(name, size, CreateResult(name, size))
  /\ UNCHANGED <<machine, disk, freeMapFile, directoryFile, handle, client, crashes>>

\* Open: a file that is closed stands for NULL.
Opened(name) ==
  LET sector == Find(Directory(directoryFile), name)
  IN  IF sector < 0 THEN Closed
      ELSE [Closed EXCEPT !.open = TRUE, !.hdr = HdrAt(sector), !.name = name]

Open(h, name) ==
  /\ Running /\ ~handle[h].open
  /\ handle' = [handle EXCEPT ![h] = Opened(name)]
  /\ UNCHANGED <<machine, disk, todo, freeMapFile, directoryFile, client, op,
                 written, ops, crashes>>

Cleared(map, sector, hdr) == FreeMap!Clear(map \ Deallocate(hdr), sector)

\* Remove; a file that is open stays so, and keeps its header in memory.
RemoveAs(name) ==
  LET table == Directory(directoryFile)
      i == FindIndex(table, name)
      sector == Find(table, name)
      map == Map(freeMapFile)
  IN  /\ sector # -1
      /\ machine' = IF \A s \in Deallocate(HdrAt(sector)) : FreeMap!Test(map, s)
                    THEN "up" ELSE "assert"
      /\ Begin(name, i, NoFile, NoFile,
               MapWrite(freeMapFile, Cleared(map, sector, HdrAt(sector)))
                 \o DirWrites(directoryFile, DirectoryRemove(table, name)))
      /\ handle' = [h \in Handles |-> IF handle[h].name = name
                                      THEN [handle[h] EXCEPT !.removed = TRUE]
                                      ELSE handle[h]]

Remove(name) ==
  /\ Running /\ Budget
  /\ RemoveAs(name)
  /\ UNCHANGED <<disk, freeMapFile, directoryFile, client, crashes>>

-----------------------------------------------------------------------------
(* Open files.                                                             *)

\* What the file is while, and after, n bytes of from are written at pos.
During(f, n, pos) ==
  [f EXCEPT !.bytes = [p \in DOMAIN @ |->
                         IF pos <= p /\ p < pos + n THEN Unknown ELSE @[p]]]
After(f, n, pos, from) ==
  [f EXCEPT !.bytes = [p \in DOMAIN @ |->
                         IF pos <= p /\ p < pos + n THEN from[p - pos + 1] ELSE @[p]]]

\* Fault: the position is not advanced.
Advance_Not(f, n) == f

Advance(f, n) == [f EXCEPT !.seekPosition = @ + n]

\* Write.  Through a file that was removed, it may hit sectors that are in
\* use again: the disk is damaged.
WriteTo(h, from) ==
  LET f == handle[h]
      n == Amount(f.hdr, Len(from), f.seekPosition)
      writes == WriteAt(f.hdr, from, f.seekPosition)
      old == written[f.name]
  IN  /\ f.open
      /\ IF f.removed THEN Begin(f.name, 0, old, old, writes)
         ELSE Begin(f.name, 0, During(old, n, f.seekPosition),
                    After(old, n, f.seekPosition, from), writes)
      /\ machine' = IF /\ f.removed
                       /\ \E k \in DOMAIN writes : writes[k].sector \in Map(freeMapFile)
                    THEN "damaged" ELSE "up"
      /\ handle' = [handle EXCEPT ![h] = Advance(@, n)]

Write(h, from) ==
  /\ Running /\ Budget
  /\ WriteTo(h, from)
  /\ UNCHANGED <<disk, freeMapFile, directoryFile, client, crashes>>

Read(h, numBytes) ==
  /\ Running /\ handle[h].open
  /\ handle' = [handle EXCEPT ![h] =
                  Advance(@, Len(ReadAt(@.hdr, numBytes, @.seekPosition)))]
  /\ UNCHANGED <<machine, disk, todo, freeMapFile, directoryFile, client, op,
                 written, ops, crashes>>

Seek(h, position) ==
  /\ Running /\ handle[h].open
  /\ handle' = [handle EXCEPT ![h].seekPosition = position]
  /\ UNCHANGED <<machine, disk, todo, freeMapFile, directoryFile, client, op,
                 written, ops, crashes>>

Close(h) ==
  /\ Running /\ handle[h].open
  /\ handle' = [handle EXCEPT ![h] = Closed]
  /\ UNCHANGED <<machine, disk, todo, freeMapFile, directoryFile, client, op,
                 written, ops, crashes>>

-----------------------------------------------------------------------------
(* fstest.cc.                                                              *)

\* Copy creates a file as long as data, ...
Copy(name, data) ==
  LET r == CreateResult(name, Len(data))
  IN  /\ Running /\ Budget /\ \E h \in Handles : ~handle[h].open
      /\ CreateAs(name, Len(data), r)
      /\ client' = [on |-> r.ok, test |-> FALSE, name |-> name, data |-> data, next |-> -1]
      /\ UNCHANGED <<machine, disk, freeMapFile, directoryFile, handle, crashes>>

\* ... opens it, writes TransferSize bytes at a time, and closes it.
CopyNext(h) ==
  LET rest == Len(client.data) - client.next
      chunk == SubSeq(client.data, client.next + 1,
                      client.next + Min2(TransferSize, rest))
  IN  /\ machine = "up" /\ todo = <<>> /\ client.on /\ ~client.test
      /\ IF client.next = -1
         THEN /\ ~handle[h].open
              /\ handle' = [handle EXCEPT ![h] = Opened(client.name)]
              /\ client' = [client EXCEPT !.next = 0]
              /\ UNCHANGED <<machine, todo, op, written, ops>>
         ELSE /\ handle[h].name = client.name /\ ~handle[h].removed
              /\ IF rest > 0
                 THEN /\ WriteTo(h, chunk)
                      /\ client' = [client EXCEPT !.next = @ + Len(chunk)]
                 ELSE /\ handle' = [handle EXCEPT ![h] = Closed]
                      /\ client' = [client EXCEPT !.on = FALSE]
                      /\ UNCHANGED <<machine, todo, op, written, ops>>
      /\ UNCHANGED <<disk, freeMapFile, directoryFile, crashes>>

\* Print reads to the end, TransferSize bytes at a time.  It changes nothing;
\* this is what it prints.
Printed(name) ==
  LET from[p \in 0 .. MaxSize] ==
        LET r == ReadAt(Opened(name).hdr, TransferSize, p)
        IN  IF r = <<>> THEN <<>> ELSE r \o from[p + Len(r)]
  IN  from[0]

\* FileWrite of the performance test creates a file without bytes, if there
\* is none of the name, ...
FileWrite(name) ==
  /\ Running /\ Budget
  /\ CreateAs(name, 0, CreateResult(name, 0))
  /\ client' = [NoClient EXCEPT !.on = TRUE, !.test = TRUE, !.name = name]
  /\ UNCHANGED <<machine, disk, freeMapFile, directoryFile, handle, crashes>>

\* ... and its first Write transfers less than it should, as a file does not
\* grow: it gives up, FileRead changes nothing, and PerformanceTest removes
\* the file.
PerformanceTest ==
  /\ machine = "up" /\ todo = <<>> /\ client.on /\ client.test
  /\ IF Opened(client.name).open THEN RemoveAs(client.name)
     ELSE UNCHANGED <<machine, todo, op, written, ops, handle>>
  /\ client' = NoClient
  /\ UNCHANGED <<disk, freeMapFile, directoryFile, crashes>>

-----------------------------------------------------------------------------
(* The disk, crashes, and starting again.                                  *)

\* SynchDisk::WriteSector.
WriteSector ==
  /\ machine = "up" /\ todo # <<>>
  /\ disk' = [disk EXCEPT ![Head(todo).sector] = Head(todo).data]
  /\ todo' = Tail(todo)
  /\ written' = IF Len(todo) = 1 /\ op.name # ""
                THEN [written EXCEPT ![op.name] = op.after] ELSE written
  /\ UNCHANGED <<machine, freeMapFile, directoryFile, handle, client, op, ops,
                 crashes>>

Crash ==
  /\ machine = "up" /\ crashes < MaxCrashes /\ ops < MaxOps
  /\ machine' = "down" /\ crashes' = crashes + 1
  /\ todo' = <<>>
  /\ freeMapFile' = NoHdr /\ directoryFile' = NoHdr
  /\ handle' = [h \in Handles |-> Closed]
  /\ client' = NoClient
  /\ op' = IF todo = <<>> THEN [op EXCEPT !.entry = 0] ELSE op
  /\ UNCHANGED <<disk, written, ops>>

\* FileSystem(TRUE): headers, free map and directory of an empty disk.
FormatHdrs ==
  LET mapHdr == Allocate({FreeMapSector, DirectorySector}, SectorSize)
      dirHdr == Allocate(mapHdr.map, 2 * SectorSize)
  IN  [map |-> mapHdr.hdr, dir |-> dirHdr.hdr, marked |-> dirHdr.map]
FormatWrites ==
  <<[sector |-> FreeMapSector, data |-> HdrBlock(FormatHdrs.map)],
    [sector |-> DirectorySector, data |-> HdrBlock(FormatHdrs.dir)]>>
    \o MapWrite(FormatHdrs.map, FormatHdrs.marked)
    \o DirWrites(FormatHdrs.dir, EmptyDirectory)

Formatted ==
  /\ disk[FreeMapSector].kind = "header" /\ disk[DirectorySector].kind = "header"
  /\ disk[FormatHdrs.map.dataSectors[1]].kind = "map"
  /\ \A k \in 1 .. 2 : disk[FormatHdrs.dir.dataSectors[k]].kind = "directory"

Owned(e) == {e.sector} \cup Range(HdrAt(e.sector).dataSectors)

\* A file in the directory that a crash left with sectors not marked.
Damaged ==
  LET table == Directory(HdrAt(DirectorySector))
  IN  \E i \in DOMAIN table :
        table[i].inUse /\ ~(Owned(table[i]) \subseteq Map(HdrAt(FreeMapSector)))

\* FileSystem(FALSE), or TRUE (the flag -f) while the disk has no file
\* system.  What a damaged one does later is not followed.
Boot ==
  /\ machine = "down"
  /\ IF Formatted
     THEN /\ machine' = IF Damaged THEN "damaged" ELSE "up"
          /\ freeMapFile' = HdrAt(FreeMapSector)
          /\ directoryFile' = HdrAt(DirectorySector)
          /\ UNCHANGED todo
     ELSE /\ machine' = "up"
          /\ freeMapFile' = FormatHdrs.map
          /\ directoryFile' = FormatHdrs.dir
          /\ todo' = FormatWrites
  /\ UNCHANGED <<disk, handle, client, op, written, ops, crashes>>

Init ==
  /\ machine = "down"
  /\ disk = [s \in 0 .. NumSectors - 1 |->
               [kind |-> "data", bytes |-> [k \in 1 .. SectorSize |-> 0]]]
  /\ todo = <<>>
  /\ freeMapFile = NoHdr /\ directoryFile = NoHdr
  /\ handle = [h \in Handles |-> Closed]
  /\ client = NoClient
  /\ op = [name |-> "", entry |-> 0, after |-> NoFile]
  /\ written = [n \in Names |-> NoFile]
  /\ ops = 0 /\ crashes = 0

Stopped ==
  /\ machine \in {"damaged", "assert"}
  /\ UNCHANGED vars

\* What is written.  The file system only copies bytes, so that each write
\* has bytes of its own.
Data(n) == [k \in 1 .. n |-> ops * MaxSize + k]

Next ==
  \/ \E name \in Names :
       \/ \E size \in 0 .. MaxSize :
            Create(name, size) \/ Copy(name, Data(size))
       \/ Remove(name) \/ FileWrite(name)
       \/ \E h \in Handles : Open(h, name)
  \/ \E h \in Handles :
       \/ \E n \in 0 .. MaxSize :
            Read(h, n) \/ Seek(h, n) \/ Write(h, Data(n))
       \/ Close(h) \/ CopyNext(h)
  \/ PerformanceTest \/ WriteSector \/ Crash \/ Boot \/ Stopped

Spec == Init /\ [][Next]_vars

-----------------------------------------------------------------------------
(* Properties.                                                             *)

Sectors == 0 .. NumSectors - 1

\* A header never names a sector that the disk does not have, on the disk or
\* in an open file (FileHeader::Allocate looks at the space before it takes
\* it), and no operation meets an ASSERT.
TypeOK ==
  /\ machine \in {"up", "down", "damaged"}
  /\ \A s \in Sectors :
       disk[s].kind = "header" => Range(disk[s].hdr.dataSectors) \subseteq Sectors
  /\ \A h \in Handles : handle[h].seekPosition \in 0 .. MaxSize
  /\ \A k \in DOMAIN todo : todo[k].sector \in Sectors
  /\ ops \in 0 .. MaxOps + MaxSize /\ crashes \in 0 .. MaxCrashes

SystemSectors ==
  {FreeMapSector, DirectorySector} \cup Range(HdrAt(FreeMapSector).dataSectors)
    \cup Range(HdrAt(DirectorySector).dataSectors)

\* On the disk, the files of the entries in E are sound: their sectors are
\* marked, are nobody else's, and hold a header.
SoundFiles(E) ==
  LET table == Directory(HdrAt(DirectorySector))
      used == {i \in DOMAIN table : table[i].inUse}
  IN  \A i \in used \cap E :
        /\ Owned(table[i]) \subseteq Map(HdrAt(FreeMapSector)) \ SystemSectors
        /\ \A j \in used \ {i} : Owned(table[i]) \cap Owned(table[j]) = {}

\* On the disk, every marked sector is somebody's.
NothingLost ==
  LET table == Directory(HdrAt(DirectorySector))
  IN  Map(HdrAt(FreeMapSector)) \subseteq
        SystemSectors \cup UNION {Owned(table[i]) : i \in {j \in DOMAIN table : table[j].inUse}}

\* Between operations the free map has exactly the sectors of the system and
\* of the files in the directory, and no two files share one: Create and
\* Remove change map, header and directory together.
SectorsOwned ==
  machine = "up" /\ todo = <<>> /\ Formatted =>
    SoundFiles(1 .. NumDirEntries) /\ NothingLost /\ SystemSectors \subseteq Map(HdrAt(FreeMapSector))


\* A byte that was written to a file is in it, found from the directory
\* through the header, until it is written again or the file is removed:
\* writes to other bytes of the sector, to other files, and crashes do not
\* change it.
FilesKept ==
  machine \in {"up", "down"} /\ Formatted =>
    \A name \in Names : written[name].exists =>
      LET sector == Find(Directory(HdrAt(DirectorySector)), name)
      IN  /\ sector # -1
          /\ HdrAt(sector).numBytes = written[name].size
          /\ \A p \in 0 .. MaxSize - 1 :
               written[name].bytes[p] # Unknown =>
                 disk[ByteToSector(HdrAt(sector), p)].bytes[(p % SectorSize) + 1]
                   = written[name].bytes[p]

\* Bytes read at a position are those of the file f from there, as many as
\* asked for and as there are.
IsPart(bytes, f, position, n) ==
  /\ Len(bytes) = IF position >= f.size THEN 0 ELSE Min2(n, f.size - position)
  /\ \A k \in DOMAIN bytes : f.bytes[position + k - 1] \in {Unknown, bytes[k]}

\* A Read through an open file, at whatever position and across whatever
\* sectors, and whatever was removed and created since it was opened, gets
\* the bytes of the file; and Print, in pieces, gets all of them.
ReadExact ==
  machine = "up" /\ todo = <<>> /\ Formatted =>
    /\ \A h \in Handles, n \in 0 .. MaxSize :
         LET f == handle[h]
         IN  f.open /\ ~f.removed /\ written[f.name].exists =>
               IsPart(ReadAt(f.hdr, n, f.seekPosition), written[f.name],
                      f.seekPosition, n)
    /\ \A name \in Names :
         written[name].exists => IsPart(Printed(name), written[name], 0, MaxSize)


\* When Copy is done the file is the data, written in pieces that do not end
\* where sectors do; and the performance test leaves no file of its name.
CopyWhole ==
  [][client.on /\ ~client'.on /\ machine' = "up" =>
       IF client.test THEN ~written'[client.name].exists ELSE
       LET f == written[client.name]
       IN  /\ f.size = Len(client.data)
           /\ \A p \in DOMAIN client.data : f.bytes[p - 1] = client.data[p]]_vars
=============================================================================
