------------------------------ MODULE FileTable ------------------------------
(***************************************************************************)
(* Files as user programs see them in the default build: the system calls  *)
(* of userprog/exception.cc, the copy loops of machine/machine.cc, the     *)
(* global file table of the stub FileSystem (filesys/filesys.h,            *)
(* threads/table.cc) and the stub OpenFile (filesys/openfile.h), over the  *)
(* host's files.  None of them can lose the CPU, so a system call is one   *)
(* step.  Ids 0 and 1, the console, are in module SynchConsole.            *)
(***************************************************************************)
EXTENDS Integers, Sequences, FiniteSets

CONSTANTS Procs,      \* user programs
          FileNames,
          NoName,     \* a call with a null pointer for a name
          BadNames,   \* names the host cannot create a file under
          TableSize,  \* entries of gFileTable, 10 in the code
          Bytes,      \* byte values of files and buffers
          MaxLen,     \* bound on the length of a file
          MaxCount    \* bound on the count of Read and Write

NUL == 0
Failed == -1
Ids == 0 .. TableSize - 1
Descriptors == 1 .. TableSize  \* what open() of the host returns

ASSUME FileAssumption ==
  /\ NoName \notin FileNames \cup BadNames
  /\ BadNames \cap FileNames = {}
  /\ TableSize \in Nat /\ TableSize >= 2
  /\ Bytes \subseteq Nat
  /\ MaxLen \in Nat /\ MaxCount \in Nat

VARIABLES aborted, \* an assertion has failed
          host,   \* the contents of the host's files
          exists, \* the files that exist
          desc,   \* host descriptors: the file each one is open on, or NoName
          table,  \* gFileTable: entries are free, self (not an OpenFile) or
                  \* an OpenFile with its descriptor, type and currentOffset
          opened, \* history: the file that a program was told an id stands
                  \* for, until it closes the id
          last    \* the last system call: its name, its result and what it has
                  \* copied into user memory

vars == <<aborted, host, exists, desc, table, opened, last>>

Free == [kind |-> "free"]
Self == [kind |-> "self"]
OpenFile(fd, type) == [kind |-> "file", fd |-> fd, type |-> type, offset |-> 0]

Result(op, ret, user) == last' = [op |-> op, ret |-> ret, user |-> user]

Least(S) == CHOOSE i \in S : \A j \in S : i <= j

-----------------------------------------------------------------------------
(* Machine::User2System and System2User stop after the first NUL; the rest *)
(* of a kernel buffer is zero, the rest of user memory is left as it was.  *)

Nuls(s) == {i \in DOMAIN s : s[i] = NUL}

User2System(s) ==
  [i \in DOMAIN s |-> IF \E k \in Nuls(s) : k < i THEN NUL ELSE s[i]]

System2User(s) ==
  IF Nuls(s) = {} THEN s ELSE SubSeq(s, 1, Least(Nuls(s)))

-----------------------------------------------------------------------------
(* The host (machine/sysdep.cc).  open() returns the lowest descriptor that *)
(* is free.  Reading past the end gives nothing, and writing past the end  *)
(* fills the gap with zero bytes.                                          *)

OpenForReadWrite == Least({d \in Descriptors : desc[d] = NoName})

ReadPartial(s, offset, n) ==
  SubSeq(s, offset + 1, IF offset + n < Len(s) THEN offset + n ELSE Len(s))

\* Fault: a write ends the file.
WriteFile_Truncates(s, offset, data) ==
  [i \in 1 .. offset + Len(data) |->
     IF offset < i THEN data[i - offset] ELSE IF i <= Len(s) THEN s[i] ELSE NUL]

WriteFile(s, offset, data) ==
  LET end == offset + Len(data)
  IN  [i \in 1 .. IF data = <<>> \/ end < Len(s) THEN Len(s) ELSE end |->
         IF offset < i /\ i <= end THEN data[i - offset]
         ELSE IF i <= Len(s) THEN s[i] ELSE NUL]

\* A file that exists is truncated, though other programs may have it open;
\* the host's refusal fails an assertion.
OpenForWrite(name) ==
  /\ aborted' = (name \in BadNames)
  /\ IF name \in BadNames THEN UNCHANGED <<host, exists>>
     ELSE host' = [host EXCEPT ![name] = <<>>] /\ exists' = exists \cup {name}

-----------------------------------------------------------------------------
(* Table, FileSystem and OpenFile.                                         *)

TableGet(fid) == IF fid \in Ids THEN table[fid] ELSE Free

FreeEntries == {i \in Ids : table[i] = Free}

\* FileSystem::getOpenFile finds an OpenFile.
IsOpen(fid) == fid >= 2 /\ TableGet(fid).kind = "file"

File(fid) == desc[table[fid].fd]
Length(fid) == Len(host[File(fid)])

FopenId(name, type) ==
  IF type \notin {0, 1} \/ name \notin exists \/ FreeEntries = {}
  THEN Failed ELSE Least(FreeEntries)

\* Fault: when the table is full the descriptor stays open.
Fopen_Leaks(name, type) ==
  LET fd == OpenForReadWrite
      fid == FopenId(name, type)
  IN  /\ desc' = IF type \in {0, 1} /\ name \in exists THEN [desc EXCEPT ![fd] = name] ELSE desc
      /\ table' = IF fid = Failed THEN table ELSE [table EXCEPT ![fid] = OpenFile(fd, type)]

\* When the table is full the OpenFile is deleted again, which closes its
\* descriptor.
Fopen(name, type) ==
  LET fd == OpenForReadWrite
      fid == FopenId(name, type)
  IN  IF fid = Failed THEN UNCHANGED <<desc, table>>
      ELSE /\ desc' = [desc EXCEPT ![fd] = name]
           /\ table' = [table EXCEPT ![fid] = OpenFile(fd, type)]

Fclose(fid) ==
  /\ desc' = [desc EXCEPT ![table[fid].fd] = NoName]
  /\ table' = [table EXCEPT ![fid] = Free]

\* Where a Seek to pos leads: -1 is the end of the file, where a read-only
\* file stops too.
SeekOffset(fid, pos) ==
  IF pos = -1 \/ (table[fid].type = 1 /\ pos > Length(fid)) THEN Length(fid)
  ELSE IF pos < 0 THEN Failed ELSE pos

-----------------------------------------------------------------------------
(* The system calls.                                                       *)

CreateFile(p, name) ==
  /\ ~aborted
  /\ IF name = NoName THEN UNCHANGED <<aborted, host, exists>> ELSE OpenForWrite(name)
  /\ Result("CreateFile", IF name \in FileNames THEN 0 ELSE Failed, <<>>)
  /\ UNCHANGED <<desc, table, opened>>

\* Fault: Open returns the id after the one it filled.
Open_NextId(p, name, type) ==
  LET fid == FopenId(name, type)
  IN  /\ ~aborted
      /\ Fopen(name, type)
      /\ opened' = IF fid = Failed THEN opened ELSE [opened EXCEPT ![p][fid + 1] = name]
      /\ Result("Open", IF fid = Failed THEN fid ELSE fid + 1, <<>>)
      /\ UNCHANGED <<aborted, host, exists>>

Open(p, name, type) ==
  LET fid == FopenId(name, type)
  IN  /\ ~aborted
      /\ Fopen(name, type)
      /\ opened' = IF fid = Failed THEN opened ELSE [opened EXCEPT ![p][fid] = name]
      /\ Result("Open", fid, <<>>)
      /\ UNCHANGED <<aborted, host, exists>>

\* SyscallClose does not return what fclose returns.
Close(p, fid) ==
  /\ ~aborted
  /\ IF IsOpen(fid)
     THEN Fclose(fid) /\ opened' = [opened EXCEPT ![p][fid] = NoName]
     ELSE UNCHANGED <<desc, table, opened>>
  /\ Result("Close", 0, <<>>)
  /\ UNCHANGED <<aborted, host, exists>>

\* A count of zero, like the end of the file, is answered with -2.
Read(p, fid, count) ==
  /\ ~aborted
  /\ IF IsOpen(fid) /\ count >= 0
     THEN LET data == ReadPartial(host[File(fid)], table[fid].offset, count)
          IN  /\ table' = [table EXCEPT ![fid].offset = @ + Len(data)]
              /\ Result("Read", IF data = <<>> THEN -2 ELSE Len(data), System2User(data))
     ELSE Result("Read", Failed, <<>>) /\ UNCHANGED table
  /\ UNCHANGED <<aborted, host, exists, desc, opened>>

\* The write that would pass MaxLen is left out.
Write(p, fid, data) ==
  /\ ~aborted
  /\ IF IsOpen(fid) /\ table[fid].type # 1
     THEN /\ table[fid].offset + Len(data) <= MaxLen
          /\ host' = [host EXCEPT ![File(fid)] =
                        WriteFile(@, table[fid].offset, User2System(data))]
          /\ table' = [table EXCEPT ![fid].offset = @ + Len(data)]
          /\ Result("Write", Len(data), <<>>)
     ELSE Result("Write", Failed, <<>>) /\ UNCHANGED <<host, table>>
  /\ UNCHANGED <<aborted, exists, desc, opened>>

Seek(p, pos, fid) ==
  LET new == IF IsOpen(fid) THEN SeekOffset(fid, pos) ELSE Failed
  IN  /\ ~aborted
      /\ IF new = Failed THEN UNCHANGED table
         ELSE table' = [table EXCEPT ![fid].offset = new]
      /\ Result("Seek", new, <<>>)
      /\ UNCHANGED <<aborted, host, exists, desc, opened>>

-----------------------------------------------------------------------------
\* The FileSystem constructor puts itself into entries 0 and 1.
TableInit ==
  /\ aborted = FALSE
  /\ desc = [d \in Descriptors |-> NoName]
  /\ table = [i \in Ids |-> IF i < 2 THEN Self ELSE Free]
  /\ opened = [p \in Procs |-> [i \in Ids |-> NoName]]
  /\ last = [op |-> "none", ret |-> 0, user |-> <<>>]

Init ==
  /\ TableInit
  /\ host = [f \in FileNames |-> <<>>]
  /\ exists = {}

Buffers == UNION {[1 .. n -> Bytes] : n \in 0 .. MaxCount}

Stopped == aborted /\ UNCHANGED vars

Next ==
  \/ \E p \in Procs :
       \/ \E name \in FileNames \cup BadNames \cup {NoName} :
            \/ CreateFile(p, name)
            \/ \E type \in 0 .. 2 : Open(p, name, type)
       \/ \E fid \in {-1} \cup 2 .. TableSize :
            \/ \E count \in -1 .. MaxCount : Read(p, fid, count)
            \/ \E data \in Buffers : Write(p, fid, data)
       \/ \E fid \in -1 .. TableSize :
            \/ Close(p, fid)
            \/ \E pos \in -2 .. MaxLen : Seek(p, pos, fid)
  \/ Stopped

Spec == Init /\ [][Next]_vars

-----------------------------------------------------------------------------
(* Properties.                                                             *)

OpenFiles ==
  [kind : {"file"}, fd : Descriptors, type : {0, 1}, offset : Nat]

TypeOK ==
  /\ aborted \in BOOLEAN
  /\ host \in [FileNames -> Seq(Bytes \cup {NUL})]
  /\ exists \subseteq FileNames
  /\ desc \in [Descriptors -> FileNames \cup {NoName}]
  /\ table \in [Ids -> {Free, Self} \cup OpenFiles]
  /\ opened \in [Procs -> [Ids -> FileNames \cup {NoName}]]

Held == {i \in Ids : table[i].kind = "file"}

\* Every descriptor that is open belongs to one entry of the table, and every
\* entry has its descriptor: no failed Open leaks one, and no Close leaves an
\* entry whose descriptor the host may give to another file.
DescriptorsOwned ==
  /\ TypeOK
  /\ \A i, j \in Held : table[i].fd = table[j].fd => i = j
  /\ {d \in Descriptors : desc[d] # NoName} = {table[i].fd : i \in Held}

\* No call but CreateFile shortens a file or changes what is before the
\* writer's offset: a program that appends never loses what was written
\* before, whoever else has the file open; and what changes at all has
\* changed through an entry that is not read-only.
AppendKeeps ==
  [][\A f \in FileNames :
       last'.op # "CreateFile" =>
         /\ Len(host'[f]) >= Len(host[f])
         /\ host'[f] # host[f] =>
              last'.op = "Write" /\ \E i \in Held : File(i) = f /\ table[i].type = 0
         /\ \A i \in Held :
              table'[i] # table[i] /\ File(i) = f =>
                \A k \in 1 .. Len(host[f]) :
                  k <= table[i].offset => host'[f][k] = host[f][k]]_vars

\* "return an "OpenFileId" that can be used to read and write to the file"
\* (userprog/syscall.h, Open): until the program closes it, an id stands for
\* the file that the program opened, if no other program closes it.
IdStandsForFile ==
  \A p \in Procs, i \in Ids :
    opened[p][i] # NoName => IsOpen(i) /\ File(i) = opened[p][i]
=============================================================================
