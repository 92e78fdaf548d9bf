----------------------------- MODULE AddrSpace ------------------------------
(***************************************************************************)
(* From a program's COFF file to its image in memory: the conversion to    *)
(* NOFF (coff2noff.c), the bitmap of physical frames (lib/bitmap.cc) and   *)
(* the address spaces loaded into them (userprog/addrspace.cc), by the     *)
(* main thread (main.cc: AddrSpace(), Load, Execute) and by the threads    *)
(* that Exec forks (progtest.cc: StartProcess_2).                          *)
(*                                                                         *)
(* A thread can be preempted only where interrupts are enabled again, at   *)
(* the end of addrLock->P() and of addrLock->V(), and so takes three steps.*)
(***************************************************************************)
EXTENDS Integers, Sequences, FiniteSets, SequencesExt

CONSTANTS PageSize, NumPhysPages,
          NumFrames,          \* bits of gPhysPageBitMap
          BitsInWord,         \* bits per word of a bitmap
          UserStackSize,
          HeaderSize,         \* bytes of a NoffHeader
          Layouts,            \* sizes of the sections .text, .rdata, .data, .bss
          Main, Children      \* the main thread, and those Exec may fork

VARIABLES map,                \* of gPhysPageBitMap: word -> the bits set in it
          addrLock,           \* TRUE when the semaphore's value is 1
          mainMemory,
          pc,                 \* where each thread is
          coff, noff,         \* the program it loads, linked and converted
          pageTable,          \* its frames, in the order of its pages
          status              \* of the machine: running, halted, or crashed

spaceVars == <<map, addrLock, mainMemory, pc, coff, noff, pageTable,
               status>>

Processes == {Main} \cup Children
MemorySize == NumPhysPages * PageSize
Zero == <<"zero", 0>>

-----------------------------------------------------------------------------
(***************************************************************************)
(* The files.  A linked program has its sections one after the other, from *)
(* address 0 on (test/script); byte k of a section of p's program is       *)
(* <<p, name, k>>.                                                         *)
(***************************************************************************)
Coff(p, size) ==
    LET names == <<".text", ".rdata", ".data", ".bss">>
        paddr == <<0, size[1], size[1] + size[2], size[1] + size[2] + size[3]>>
    IN  [n \in 1 .. 4 |->
            [name |-> names[n], paddr |-> paddr[n], size |-> size[n],
             data |-> [k \in 1 .. size[n] |-> <<p, names[n], k>>]]]

Unset == [virtualAddr |-> -1, inFileAddr |-> -1, size |-> 0]
InFile == {".text", ".rdata", ".data"}

\* The NOFF header before any section is copied: every size is 0.
NoffHeader == [seg |-> [name \in InFile \cup {".bss"} |-> Unset],
               body |-> <<>>, failed |-> FALSE]

\* One turn of coff2noff's loop over the sections.
CopySection(file, s) ==
    LET bss == file.seg[".bss"]
    IN  IF file.failed \/ s.size = 0 THEN file
        ELSE IF s.name \in InFile
        THEN [file EXCEPT !.seg[s.name] =
                              [virtualAddr |-> s.paddr, size |-> s.size,
                               inFileAddr |-> HeaderSize + Len(file.body)],
                          !.body = @ \o s.data]
        ELSE IF s.name # ".bss"
                  \/ (bss.size # 0 /\ s.paddr = bss.virtualAddr + bss.size)
        THEN [file EXCEPT !.failed = TRUE]
        ELSE [file EXCEPT !.seg[".bss"] =
                              [virtualAddr |-> IF bss.size = 0 THEN s.paddr ELSE @.virtualAddr,
                               inFileAddr |-> -1, size |-> @.size + s.size]]

Coff2noff(sections) == FoldLeft(CopySection, NoffHeader, sections)

\* OpenFile::ReadAt: the offsets of the file that n bytes from "from" on give.
ReadAt(file, n, from) ==
    {offset \in from .. from + n - 1 : offset < HeaderSize + Len(file.body)}

-----------------------------------------------------------------------------
(***************************************************************************)
(* Bitmap.                                                                 *)
(***************************************************************************)
NumWords == (NumFrames + BitsInWord - 1) \div BitsInWord
Bitmap == [w \in 0 .. NumWords - 1 |-> {}]
Test(m, which) == which % BitsInWord \in m[which \div BitsInWord]
Mark(m, bits) == [w \in DOMAIN m |->
                    m[w] \cup {b \in 0 .. BitsInWord - 1 : w * BitsInWord + b \in bits}]
ClearBits(m) == {b \in 0 .. NumFrames - 1 : ~Test(m, b)}
NumClear(m) == Cardinality(ClearBits(m))
Lowest(clear, n) == [i \in 1 .. n |-> CHOOSE b \in clear :
                                         Cardinality({c \in clear : c < b}) = i - 1]

\* A bug: the bit found is not set.
FindAndSetNothing(m, n) == [found |-> Lowest(ClearBits(m), n), map |-> m]

\* n calls of FindAndSet: each returns the lowest clear bit and sets it.
FindAndSet(m, n) == [found |-> Lowest(ClearBits(m), n),
                     map |-> Mark(m, ToSet(Lowest(ClearBits(m), n)))]

-----------------------------------------------------------------------------
(***************************************************************************)
(* AddrSpace.                                                              *)
(***************************************************************************)
NumPages(file) ==
    LET Size(name) == file.seg[name].size
        size == Size(".text") + Size(".rdata") + Size(".data") + Size(".bss") + UserStackSize
    IN  size \div PageSize + (IF size % PageSize > 0 THEN 1 ELSE 0)

\* bzero of the frames of a page table.
Bzero(mem, table) == [a \in DOMAIN mem |-> IF a \div PageSize \in ToSet(table)
                                           THEN Zero ELSE mem[a]]

\* The loop that reads a segment: for each page a page of the file, to the
\* segment's address in that page's frame; a later page overwrites an earlier.
ReadSegment(mem, table, file, seg) ==
    LET To(i) == seg.virtualAddr + table[i] * PageSize
        From(i) == seg.inFileAddr + (i - 1) * PageSize
        Written(a) == {i \in DOMAIN table :
                          a - To(i) + From(i) \in ReadAt(file, PageSize, From(i))}
        LastPage(a) == CHOOSE i \in Written(a) : \A j \in Written(a) : j <= i
        Byte(a, i) == file.body[a - To(i) + From(i) - HeaderSize + 1]
    IN  [a \in DOMAIN mem |-> IF seg.size = 0 \/ Written(a) = {} THEN mem[a]
                              ELSE Byte(a, LastPage(a))]

ReadImage(mem, table, file) ==
    ReadSegment(ReadSegment(ReadSegment(mem, table, file, file.seg[".text"]),
                            table, file, file.seg[".data"]),
                table, file, file.seg[".rdata"])

\* bzero and read write past mainMemory when a frame lies outside it: the host
\* crashes, or nothing of the machine is changed by it.
HostSurvives(table) ==
    IF \A i \in DOMAIN table : table[i] < NumPhysPages THEN UNCHANGED status
    ELSE status' \in {"running", "crashed"}

\* The translation of a virtual address through a page table.
Translate(table, vaddr) ==
    LET vpn == vaddr \div PageSize
    IN  IF vpn >= Len(table) THEN [exc |-> "AddressErrorException", phys |-> -1]
        ELSE IF table[vpn + 1] >= NumPhysPages
        THEN [exc |-> "BusErrorException", phys |-> -1]
        ELSE [exc |-> "NoException",
              phys |-> table[vpn + 1] * PageSize + (vaddr % PageSize)]

-----------------------------------------------------------------------------
SpaceInit ==
    /\ map = Bitmap /\ addrLock = TRUE
    /\ mainMemory = [a \in 0 .. MemorySize - 1 |-> Zero]
    /\ pc = [p \in Processes |-> IF p = Main THEN "open" ELSE "new"]
    /\ \E size \in [Processes -> Layouts] :
          coff = [p \in Processes |-> Coff(p, size[p])]
    /\ noff = [p \in Processes |-> Coff2noff(coff[p])]
    /\ pageTable = [p \in Processes |-> <<>>]
    /\ status = "running"

\* main: new AddrSpace zeroes the memory; its page table is replaced by Load.
Boot == /\ status = "running" /\ pc[Main] = "open"
        /\ mainMemory' = [a \in DOMAIN mainMemory |-> Zero]
        /\ pc' = [pc EXCEPT ![Main] = "wait"]
        /\ UNCHANGED <<map, addrLock, coff, noff, pageTable, status>>

\* Exec has found the file and forked the thread, which opens it.
Exec(p) == /\ status = "running" /\ p \in Children /\ pc[p] = "new"
           /\ \E q \in Processes : pc[q] = "user"
           /\ pc' = [pc EXCEPT ![p] = "wait"]
           /\ UNCHANGED <<map, addrLock, mainMemory, coff, noff, pageTable, status>>

LockP(p) == /\ status = "running" /\ pc[p] = "wait" /\ addrLock
            /\ addrLock' = FALSE
            /\ pc' = [pc EXCEPT ![p] = "locked"]
            /\ UNCHANGED <<map, mainMemory, coff, noff, pageTable, status>>

\* A bug: the lock is not released once the frames are allocated.
AllocateFramesOnly(p) ==
    LET got == FindAndSet(map, NumPages(noff[p]))
    IN  /\ map' = got.map
        /\ pageTable' = [pageTable EXCEPT ![p] = got.found]
        /\ mainMemory' = Bzero(mainMemory, got.found)
        /\ HostSurvives(got.found)
        /\ pc' = [pc EXCEPT ![p] = "allocated"]
        /\ UNCHANGED addrLock

AllocateFrames(p) ==
    LET got == FindAndSet(map, NumPages(noff[p]))
    IN  /\ map' = got.map
        /\ pageTable' = [pageTable EXCEPT ![p] = got.found]
        /\ mainMemory' = Bzero(mainMemory, got.found)
        /\ HostSurvives(got.found)
        /\ pc' = [pc EXCEPT ![p] = "allocated"]
        /\ addrLock' = TRUE

\* Not enough frames: Load returns FALSE and main halts; the constructor
\* returns a space of no pages, which is run all the same.
NotEnough(p) ==
    /\ addrLock' = TRUE
    /\ pc' = [pc EXCEPT ![p] = "allocated"]
    /\ status' = IF p = Main THEN "halted" ELSE status
    /\ UNCHANGED <<map, mainMemory, pageTable>>

Allocate(p) ==
    /\ status = "running" /\ pc[p] = "locked"
    /\ IF NumPages(noff[p]) > NumClear(map) THEN NotEnough(p) ELSE AllocateFrames(p)
    /\ UNCHANGED <<coff, noff>>

\* The segments are read; then InitRegisters sets the program counter to 0,
\* RestoreState installs the page table, and Run fetches the instruction at 0.
\* An exception there halts the machine.
LoadAndRun(p) ==
    LET fetch == Translate(pageTable[p], 0)
    IN  /\ status = "running" /\ pc[p] = "allocated"
        /\ mainMemory' = ReadImage(mainMemory, pageTable[p], noff[p])
        /\ IF fetch.exc # "NoException" THEN status' = "halted"
           ELSE HostSurvives(pageTable[p])
        /\ pc' = [pc EXCEPT ![p] = "user"]
        /\ UNCHANGED <<map, addrLock, coff, noff, pageTable>>

\* The thread ends; no destructor gives the frames back.
Exit(p) == /\ status = "running" /\ pc[p] = "user"
           /\ pc' = [pc EXCEPT ![p] = "exited"]
           /\ UNCHANGED <<map, addrLock, mainMemory, coff, noff, pageTable, status>>

SpaceNext == \/ Boot
             \/ \E p \in Processes : \/ Exec(p) \/ LockP(p) \/ Allocate(p)
                                     \/ LoadAndRun(p) \/ Exit(p)

\* A ready thread is scheduled in the end, and a thread waiting for addrLock is
\* woken by V; a program need not call Exec nor ever exit.
SpaceSpec ==
    /\ SpaceInit /\ [][SpaceNext]_spaceVars
    /\ WF_spaceVars(Boot)
    /\ \A p \in Processes : WF_spaceVars(LockP(p) \/ Allocate(p) \/ LoadAndRun(p))

-----------------------------------------------------------------------------
SpaceTypeOK ==
    /\ map \in [0 .. NumWords - 1 -> SUBSET (0 .. BitsInWord - 1)]
    /\ addrLock \in BOOLEAN
    /\ DOMAIN mainMemory = 0 .. MemorySize - 1
    /\ pc \in [Processes -> {"new", "open", "wait", "locked", "allocated", "user", "exited"}]
    /\ \A p \in Processes : ToSet(pageTable[p]) \subseteq 0 .. NumFrames - 1
    /\ status \in {"running", "halted", "crashed"}

\* What p's program is to find at virtual address v.
Image(p, v) ==
    LET In(s) == v \in s.paddr .. s.paddr + s.size - 1
    IN  IF \A n \in 1 .. 3 : ~In(coff[p][n]) THEN Zero
        ELSE LET s == coff[p][CHOOSE n \in 1 .. 3 : In(coff[p][n])]
             IN  s.data[v - s.paddr + 1]
Extent(p) == coff[p][4].paddr + coff[p][4].size + UserStackSize

\* While a program has not written its memory it finds there, through its page
\* table, what its COFF file says: the sections at their addresses, and zeros
\* in .bss and in UserStackSize bytes of stack; whatever is being loaded next
\* to it.  (A page whose frame is outside main memory cannot be read at all.)
ImageLoaded ==
    \A p \in Processes : pc[p] = "user" /\ pageTable[p] # <<>> =>
      \A v \in 0 .. Extent(p) - 1 :
        LET t == Translate(pageTable[p], v)
        IN  \/ t.exc = "NoException" /\ mainMemory[t.phys] = Image(p, v)
            \/ t.exc = "BusErrorException"

\* Every thread that begins to load a program comes to run it, unless the
\* machine stops: addrLock is always released.
LoadersEnd == \A p \in Processes :
                pc[p] = "wait" ~> (pc[p] = "user" \/ status # "running")

\* The frames a process is given are frames of the physical memory (kernel.cc
\* says the bitmap manages the physical frames in RAM).
FramesInMemory == \A p \in Processes : \A i \in DOMAIN pageTable[p] :
                     pageTable[p][i] < NumPhysPages
=============================================================================
