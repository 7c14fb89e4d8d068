------------------------------ MODULE AddrSpace ------------------------------
(***************************************************************************)
(* From an object file to a program in memory: bin/coff2noff.c, which      *)
(* makes the executable, userprog/addrspace.cc, which loads it into free   *)
(* frames, and, for comparison, the other loaders of bin/: load_program    *)
(* (main.c) and coff2flat.c.                                               *)
(*                                                                         *)
(* A COFF file is the sequence of its sections, [name, paddr, bytes]; a    *)
(* NOFF file has the header's three segments and the bytes after it.       *)
(***************************************************************************)
EXTENDS PhysMem, Sequences, SequencesExt

CONSTANT UserStackSize

ASSUME StackAssumption == UserStackSize \in Nat

-----------------------------------------------------------------------------
(* bin/coff2noff.c.                                                        *)

NoSegment == [virtualAddr |-> 0, inFileAddr |-> 0, size |-> 0]
NoffEmpty == [ok |-> TRUE, code |-> NoSegment, initData |-> NoSegment,
              uninitData |-> NoSegment, file |-> <<>>]

\* One turn of the loop over the sections.  A second section of uninitialised
\* data is refused when it follows the first one, and else taken to.
CopySection(noff, sec) ==
  LET size == Len(sec.bytes)
      segment == [virtualAddr |-> sec.paddr, inFileAddr |-> Len(noff.file),
                  size |-> size]
      bss == noff.uninitData
  IN  CASE size = 0 \/ ~noff.ok -> noff
        [] sec.name = ".text" ->
             [noff EXCEPT !.code = segment, !.file = @ \o sec.bytes]
        [] sec.name \in {".data", ".rdata"} /\ noff.initData.size = 0 ->
             [noff EXCEPT !.initData = segment, !.file = @ \o sec.bytes]
        [] sec.name \in {".bss", ".sbss"} /\ bss.size = 0 ->
             [noff EXCEPT !.uninitData = segment]
        [] /\ sec.name \in {".bss", ".sbss"} /\ bss.size # 0
           /\ sec.paddr # bss.virtualAddr + bss.size ->
             [noff EXCEPT !.uninitData.size = @ + size]
        [] OTHER -> [noff EXCEPT !.ok = FALSE]

coff2noff(coff) == FoldLeft(CopySection, NoffEmpty, coff)

-----------------------------------------------------------------------------
(* AddrSpace::AddrSpace.                                                   *)

divRoundUp(n, s) == (n \div s) + (IF n % s > 0 THEN 1 ELSE 0)

numPages(noff) ==
  divRoundUp(noff.code.size + noff.initData.size + noff.uninitData.size
               + UserStackSize, PageSize)

Entry(frame) == [physicalPage |-> frame, valid |-> TRUE, use |-> FALSE,
                 dirty |-> FALSE, readOnly |-> FALSE]

\* The page table of n pages, and the bit map with their frames marked.
Allocate(n, map) ==
  LET Add(acc, k) == LET f == Find(acc.map)
                     IN  [map |-> f.map, pt |-> Append(acc.pt, Entry(f.bit))]
  IN  FoldLeft(Add, [map |-> map, pt |-> <<>>], [k \in 1 .. n |-> k])

\* bzero of each frame.
Zero(pt, mem) ==
  [a \in DOMAIN mem |->
     IF \E k \in DOMAIN pt : pt[k].physicalPage = a \div PageSize
     THEN 0 ELSE mem[a]]

\* executable->ReadAt(&mainMemory[phys], n, from).
ReadAt(mem, noff, phys, n, from) ==
  [a \in DOMAIN mem |->
     IF a \in phys .. phys + n - 1 THEN noff.file[from + (a - phys) + 1]
     ELSE mem[a]]

\* Fault: the last page is read from where the pages between begin.
LastPageAt_TooEarly(seg, firstPageSize, pages) ==
  seg.inFileAddr + firstPageSize

\* Where the last page of a segment is in the file.
LastPageAt(seg, firstPageSize, pages) ==
  seg.inFileAddr + firstPageSize + (pages - 1) * PageSize

\* A segment is read into its first page, its last one, and those between.
LoadSegment(mem, pt, noff, seg) ==
  LET firstPage == seg.virtualAddr \div PageSize
      tempPageSize == PageSize - (seg.virtualAddr % PageSize)
      fits == tempPageSize >= seg.size
      firstPageSize == IF fits THEN seg.size ELSE tempPageSize
      end == seg.virtualAddr + seg.size
      lastPage == IF fits THEN firstPage + 1 ELSE end \div PageSize
      lastPageSize == IF fits THEN 0 ELSE end % PageSize
      Frame(page) == pt[page + 1].physicalPage * PageSize
      first == ReadAt(mem, noff, Frame(firstPage) + PageSize - tempPageSize,
                      firstPageSize, seg.inFileAddr)
      last == IF lastPageSize = 0 THEN first
              ELSE ReadAt(first, noff, Frame(lastPage), lastPageSize,
                          LastPageAt(seg, firstPageSize, lastPage - firstPage))
      Page(m, i) == ReadAt(m, noff, Frame(i), PageSize,
                           seg.inFileAddr + firstPageSize
                             + (i - firstPage - 1) * PageSize)
  IN  IF seg.size = 0 THEN mem
      ELSE FoldLeft(Page, last,
                    [k \in 1 .. lastPage - firstPage - 1 |-> firstPage + k])

\* The new space's page table, and the bit map and the memory it leaves.
NewSpace(noff, map, mem) ==
  LET a == Allocate(numPages(noff), map)
      code == LoadSegment(Zero(a.pt, mem), a.pt, noff, noff.code)
  IN  [pt |-> a.pt, map |-> a.map,
       mem |-> LoadSegment(code, a.pt, noff, noff.initData)]

\* AddrSpace::~AddrSpace.
DeleteSpace(pt, map) == map \ {pt[k].physicalPage : k \in DOMAIN pt}

-----------------------------------------------------------------------------
(* The other loaders of the object file.                                   *)

\* load_program of bin/main.c puts each section at its address, in a memory
\* that is zero elsewhere.
load_program(coff, size) ==
  [a \in 0 .. size - 1 |->
     LET at == {k \in DOMAIN coff :
                  a \in coff[k].paddr .. coff[k].paddr + Len(coff[k].bytes) - 1}
     IN  IF at = {} THEN 0
         ELSE LET k == CHOOSE k \in at : TRUE
              IN  coff[k].bytes[a - coff[k].paddr + 1]]

\* coff2flat.c writes one section after the other, the uninitialised data
\* left out, and ends with a word of zeros at the top of the stack.
coff2flat(coff) ==
  LET Copy(flat, sec) == IF sec.name \in {".bss", ".sbss"} THEN flat
                         ELSE flat \o sec.bytes
      Top(top, sec) == IF sec.paddr + Len(sec.bytes) > top
                       THEN sec.paddr + Len(sec.bytes) ELSE top
      flat == FoldLeft(Copy, <<>>, coff)
      size == FoldLeft(Top, 0, coff) + UserStackSize
  IN  [a \in 0 .. size - 1 |-> IF a < Len(flat) THEN flat[a + 1] ELSE 0]
=============================================================================
