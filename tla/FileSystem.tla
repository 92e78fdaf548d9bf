------------------------------ MODULE FileSystem ------------------------------
(***************************************************************************)
(* The Nachos file system on its disk (filesys/, built without             *)
(* FILESYS_STUB) under the commands of threads/main.cc that use it: Copy,  *)
(* Print, Remove.  They run one after another, with no concurrent access,  *)
(* so a command's reads come before its writes, and the writes, which a    *)
(* machine that stops may cut short anywhere, are kept one by one in todo. *)
(* The disk is what SynchDisk promises: it does a sector at a time.        *)
(***************************************************************************)
EXTENDS Integers, Sequences, FiniteSets

CONSTANTS NumSectors, SectorSize, NumDirEntries,
          TransferSize,        \* of main.cc
          Straddle,            \* the directory entry whose name begins the second
                               \* sector of the directory: 6 in the code
          FsNames,             \* file names, distinct in FileNameMaxLen bytes
          Contents,            \* the UNIX files there are to copy
          Blank, Junk          \* a name, a byte no one has written

VARIABLES disk,                \* sector -> what is in it
          todo,                \* the sector writes yet to be made
          command,             \* of main.cc
          stored               \* history: the files that commands have stored

fsVars == <<disk, todo, command, stored>>

FreeMapSector == 0
DirectorySector == 1
NoCommand == [kind |-> "none", name |-> Blank]
DiskSectors == 0 .. NumSectors - 1
Entries == 0 .. NumDirEntries - 1

divRoundUp(n, s) == (n + s - 1) \div s
Lesser(a, b) == IF a < b THEN a ELSE b

-----------------------------------------------------------------------------
(* FileHeader, PersistentBitmap, Directory *)

FetchHeader(sector) == disk[sector].hdr

\* The map of free sectors, as the set of those marked.
FetchMap == disk[FetchHeader(FreeMapSector).dataSectors[1]].marked

\* n calls of Bitmap::FindAndSet: the lowest sectors that are not marked.
FindAndSet(marked, n) ==
    {s \in DiskSectors \ marked : Cardinality({r \in DiskSectors \ marked : r < s}) < n}

InOrder(S) == [k \in 1 .. Cardinality(S) |->
                 CHOOSE s \in S : Cardinality({r \in S : r < s}) = k - 1]

\* The sector of the directory that holds an entry's inUse and sector, and its name.
HeadIn(i) == IF i <= Straddle THEN 1 ELSE 2
NameIn(i) == IF i < Straddle THEN 1 ELSE 2

\* Directory::FetchFrom
FetchDirectory ==
    LET in(k) == disk[FetchHeader(DirectorySector).dataSectors[k]]
    IN  [i \in Entries |-> [inUse |-> in(HeadIn(i)).heads[i].inUse,
                            sector |-> in(HeadIn(i)).heads[i].sector,
                            name |-> in(NameIn(i)).names[i]]]

\* Directory::FindIndex, as the set of no or one index
FindIndex(table, name) ==
    LET matches == {i \in Entries : table[i].inUse /\ table[i].name = name}
    IN  {i \in matches : \A j \in matches : i <= j}

FreeEntry(table) == {i \in Entries : /\ ~table[i].inUse
                                     /\ \A j \in 0 .. i - 1 : table[j].inUse}

\* Directory::WriteBack and PersistentBitmap::WriteBack, as writes of sectors
DirectoryWrites(table) ==
    [k \in 1 .. 2 |->
       [sector |-> FetchHeader(DirectorySector).dataSectors[k],
        value |-> [heads |-> [i \in {e \in Entries : HeadIn(e) = k} |->
                                [inUse |-> table[i].inUse, sector |-> table[i].sector]],
                   names |-> [i \in {e \in Entries : NameIn(e) = k} |-> table[i].name]]]]

MapWrites(marked) == <<[sector |-> FetchHeader(FreeMapSector).dataSectors[1],
                        value |-> [marked |-> marked]]>>

HeaderWrites(sector, hdr) == <<[sector |-> sector, value |-> [hdr |-> hdr]]>>

-----------------------------------------------------------------------------
(* OpenFile *)

\* What a sector holds, read as the bytes of a file
BytesIn(sector) == IF "bytes" \in DOMAIN disk[sector] THEN disk[sector].bytes
                   ELSE [b \in 1 .. SectorSize |-> Junk]

ReadAt(hdr, numBytes, position) ==
    [k \in 1 .. Lesser(numBytes, hdr.numBytes - position) |->
       BytesIn(hdr.dataSectors[((position + k - 1) \div SectorSize) + 1])
         [((position + k - 1) % SectorSize) + 1]]

\* A bug: the first sector is not read before part of it is written.
WriteAtUnread(hdr, from, position) ==
    LET numBytes == Lesser(Len(from), hdr.numBytes - position)
        firstSector == position \div SectorSize
        lastSector == (position + numBytes - 1) \div SectorSize
        firstAligned == position = firstSector * SectorSize
        lastAligned == position + numBytes = (lastSector + 1) * SectorSize
        Read(i) == i = lastSector /\ ~lastAligned /\ (firstSector # lastSector \/ firstAligned)
        Byte(i, k) == IF k \in position .. position + numBytes - 1 THEN from[k - position + 1]
                      ELSE IF Read(i) /\ k < hdr.numBytes
                           THEN BytesIn(hdr.dataSectors[i + 1])[(k % SectorSize) + 1]
                      ELSE Junk
    IN  IF numBytes <= 0 THEN <<>>
        ELSE [n \in 1 .. 1 + lastSector - firstSector |->
                LET i == firstSector + n - 1
                IN  [sector |-> hdr.dataSectors[i + 1],
                     value |-> [bytes |-> [b \in 1 .. SectorSize |-> Byte(i, i * SectorSize + b - 1)]]]]

\* The whole sectors that a write of some bytes amounts to; a sector that is partly
\* modified is read first.
WriteAt(hdr, from, position) ==
    LET numBytes == Lesser(Len(from), hdr.numBytes - position)
        firstSector == position \div SectorSize
        lastSector == (position + numBytes - 1) \div SectorSize
        firstAligned == position = firstSector * SectorSize
        lastAligned == position + numBytes = (lastSector + 1) * SectorSize
        Read(i) == \/ i = firstSector /\ ~firstAligned
                   \/ i = lastSector /\ ~lastAligned /\ (firstSector # lastSector \/ firstAligned)
        Byte(i, k) == IF k \in position .. position + numBytes - 1 THEN from[k - position + 1]
                      ELSE IF Read(i) /\ k < hdr.numBytes
                           THEN BytesIn(hdr.dataSectors[i + 1])[(k % SectorSize) + 1]
                      ELSE Junk
    IN  IF numBytes <= 0 THEN <<>>
        ELSE [n \in 1 .. 1 + lastSector - firstSector |->
                LET i == firstSector + n - 1
                IN  [sector |-> hdr.dataSectors[i + 1],
                     value |-> [bytes |-> [b \in 1 .. SectorSize |-> Byte(i, i * SectorSize + b - 1)]]]]

\* FileSystem::Open, of a file that is in the directory
Open(name) ==
    FetchHeader(FetchDirectory[CHOOSE i \in FindIndex(FetchDirectory, name) : TRUE].sector)

-----------------------------------------------------------------------------
(* A formatted disk, as the constructor that filesys.cc has commented out makes it *)
Formatted ==
    LET Free == [bytes |-> [b \in 1 .. SectorSize |-> Junk]]
        Empty(k) == [heads |-> [i \in {e \in Entries : HeadIn(e) = k} |->
                                  [inUse |-> FALSE, sector |-> 0]],
                     names |-> [i \in {e \in Entries : NameIn(e) = k} |-> Blank]]
    IN  [s \in DiskSectors |->
           CASE s = 0 -> [hdr |-> [numBytes |-> SectorSize, dataSectors |-> <<2>>]]
             [] s = 1 -> [hdr |-> [numBytes |-> 2 * SectorSize, dataSectors |-> <<3, 4>>]]
             [] s = 2 -> [marked |-> 0 .. 4]
             [] s = 3 -> Empty(1)
             [] s = 4 -> Empty(2)
             [] OTHER -> Free]

FsInit == /\ disk = Formatted /\ todo = <<>> /\ command = NoCommand
          /\ stored = [n \in FsNames |-> Blank]

Idle == todo = <<>> /\ command = NoCommand

\* FileSystem::Create, FileHeader::Allocate: the header, the directory and the map
\* are written once everything has been found.
CreateWrites(name, size) ==
    LET marked == FetchMap
        sector == FindAndSet(marked, 1)
        data == FindAndSet(marked \cup sector, divRoundUp(size, SectorSize))
        entry == FreeEntry(FetchDirectory)
        hdr == [numBytes |-> size, dataSectors |-> InOrder(data)]
    IN  IF \/ FindIndex(FetchDirectory, name) # {}
           \/ sector = {} \/ entry = {}
           \/ Cardinality(data) < divRoundUp(size, SectorSize)
        THEN <<>>                       \* Create returns FALSE
        ELSE LET s == CHOOSE s \in sector : TRUE
                 i == CHOOSE i \in entry : TRUE
             IN  HeaderWrites(s, hdr)
                 \o DirectoryWrites([FetchDirectory EXCEPT
                                       ![i] = [inUse |-> TRUE, sector |-> s, name |-> name]])
                 \o MapWrites(marked \cup sector \cup data)

\* main.cc: Copy, to where the new file is opened
Copy(name, content) ==
    /\ Idle
    /\ LET writes == CreateWrites(name, Len(content))
       IN  /\ writes # <<>>
           /\ todo' = writes
           /\ command' = [kind |-> "copy", name |-> name, content |-> content, at |-> 0]
    /\ UNCHANGED <<disk, stored>>

\* One round of Copy's loop
CopyChunk ==
    /\ todo = <<>> /\ command.kind = "copy" /\ command.at < Len(command.content)
    /\ LET amountRead == Lesser(TransferSize, Len(command.content) - command.at)
       IN  /\ todo' = WriteAt(Open(command.name),
                              SubSeq(command.content, command.at + 1, command.at + amountRead),
                              command.at)
           /\ command' = [command EXCEPT !.at = @ + amountRead]
    /\ UNCHANGED <<disk, stored>>

CopyDone ==
    /\ todo = <<>> /\ command.kind = "copy" /\ command.at = Len(command.content)
    /\ stored' = [stored EXCEPT ![command.name] = command.content]
    /\ command' = NoCommand
    /\ UNCHANGED <<disk, todo>>

\* A bug: the sector of the header is not given back.
RemoveWritesLeak(name) ==
    LET i == CHOOSE i \in FindIndex(FetchDirectory, name) : TRUE
        hdr == FetchHeader(FetchDirectory[i].sector)
        data == {hdr.dataSectors[k] : k \in DOMAIN hdr.dataSectors}
    IN  MapWrites(FetchMap \ data)
        \o DirectoryWrites([FetchDirectory EXCEPT ![i].inUse = FALSE])

\* FileSystem::Remove, FileHeader::Deallocate, Directory::Remove
RemoveWrites(name) ==
    LET i == CHOOSE i \in FindIndex(FetchDirectory, name) : TRUE
        hdr == FetchHeader(FetchDirectory[i].sector)
        data == {hdr.dataSectors[k] : k \in DOMAIN hdr.dataSectors}
    IN  MapWrites((FetchMap \ data) \ {FetchDirectory[i].sector})
        \o DirectoryWrites([FetchDirectory EXCEPT ![i].inUse = FALSE])

Remove(name) ==
    /\ Idle
    /\ FindIndex(FetchDirectory, name) # {}
    /\ todo' = RemoveWrites(name)
    /\ command' = [kind |-> "remove", name |-> name]
    /\ UNCHANGED <<disk, stored>>

RemoveDone ==
    /\ todo = <<>> /\ command.kind = "remove"
    /\ stored' = [stored EXCEPT ![command.name] = Blank]
    /\ command' = NoCommand
    /\ UNCHANGED <<disk, todo>>

\* SynchDisk::WriteSector
WriteSector ==
    /\ todo # <<>>
    /\ disk' = [disk EXCEPT ![Head(todo).sector] = Head(todo).value]
    /\ todo' = Tail(todo)
    /\ UNCHANGED <<command, stored>>

FsNext ==
    \/ \E name \in FsNames : Remove(name) \/ \E content \in Contents : Copy(name, content)
    \/ CopyChunk \/ CopyDone \/ RemoveDone \/ WriteSector

FsSpec == FsInit /\ [][FsNext]_fsVars

-----------------------------------------------------------------------------
\* main.cc: Print, the bytes it prints: those Read returns round by round
Printed(name) ==
    LET hdr == Open(name)
        rounds == divRoundUp(hdr.numBytes, TransferSize)
        After[r \in 0 .. rounds] ==
          IF r = 0 THEN <<>>
          ELSE After[r - 1] \o ReadAt(hdr, TransferSize, (r - 1) * TransferSize)
    IN  After[rounds]

FsTypeOK ==
    /\ DOMAIN disk = DiskSectors
    /\ \A n \in DOMAIN todo : todo[n].sector \in DiskSectors
    /\ command.kind \in {"none", "copy", "remove"}
    /\ stored \in [FsNames -> Contents \cup {Blank}]

\* Whenever the machine stops, even between two of the sector writes of a Create, a
\* Remove or a WriteAt, every file other than the one the command is about can still
\* be found on the disk and is printed as it was copied.  (The directory takes two
\* sectors, so a directory entry can be half written.)
OthersIntact ==
    \A n \in FsNames \ {command.name} :
      stored[n] # Blank => /\ FindIndex(FetchDirectory, n) # {}
                           /\ Printed(n) = stored[n]

\* Between two commands the map on the disk marks exactly the sectors in use, no
\* sector is used twice, and the directory has exactly the files stored: a Create
\* that failed has left nothing behind, and a Remove has given back every sector.
MapExact ==
    Idle =>
      LET table == FetchDirectory
          Used == {i \in Entries : table[i].inUse}
          DataOf(s) == LET d == FetchHeader(s).dataSectors IN {d[k] : k \in DOMAIN d}
          Of(i) == {table[i].sector} \cup DataOf(table[i].sector)
      IN  /\ FetchMap = UNION ({Of(i) : i \in Used} \cup {{0, 1}, DataOf(0), DataOf(1)})
          /\ \A i, j \in Used : i # j => Of(i) \cap Of(j) = {}
          /\ {table[i].name : i \in Used} = {n \in FsNames : stored[n] # Blank}
=============================================================================
