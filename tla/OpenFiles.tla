------------------------------ MODULE OpenFiles ------------------------------
(***************************************************************************)
(* The file system calls of user programs (userprog/ksyscall.h) on the     *)
(* build's stub file system (filesys/filesys.h, openfile.h), which keeps   *)
(* one table of open files for all processes and leaves the files to UNIX. *)
(***************************************************************************)
EXTENDS Integers, Sequences

CONSTANTS FileSlots,         \* the size of openFiles: 10 in the code
          FileNames,         \* the names of UNIX files, other than those two:
          StdIn, StdOut,     \* the names "stdin" and "stdout"
          Bytes,             \* what files hold
          Hole,              \* the byte UNIX puts into a gap
          NoFile             \* the null pointer; no such file

VARIABLES files,             \* what each file holds, or NoFile
          openFiles,         \* FileSystem::openFiles: slot -> [name, offset], and,
                             \* as history, the type asked for at Open
          type,              \* FileSystem::type
          returned, buffer   \* what the last call returned, and has read

fileVars == <<files, openFiles, type, returned, buffer>>

FileIds == 0 .. FileSlots - 1

Opened(name, t) == [name |-> name, offset |-> 0, asked |-> t]

\* FileSystem::FileSystem; type[1] = 1 marks stdout.
FilesInit(contents) ==
    /\ files = contents
    /\ openFiles = [i \in FileIds |-> CASE i = 0 -> Opened(StdIn, 0)
                                        [] i = 1 -> Opened(StdOut, 1)
                                        [] OTHER -> NoFile]
    /\ type = [i \in FileIds |-> IF i = 1 THEN 1 ELSE 0]
    /\ returned = 0 /\ buffer = <<>>

ReturnOnly(result) == returned' = result /\ UNCHANGED <<files, openFiles, type, buffer>>

-----------------------------------------------------------------------------
\* FileSystem::Create: OpenForWrite truncates the file, or UNIX refuses.
SysCreateFile(name) ==
    \/ /\ files' = [files EXCEPT ![name] = <<>>]
       /\ returned' = 0
       /\ UNCHANGED <<openFiles, type, buffer>>
    \/ ReturnOnly(-1)

findFreeSlot == {i \in FileIds \ {0, 1} :
                   /\ openFiles[i] = NoFile
                   /\ \A j \in 2 .. i - 1 : openFiles[j] # NoFile}

\* A bug: the type of the slot stays what it was.
OpenInTypeKept(name, t, slot) ==
    LET opened == t \in {0, 1} /\ files[name] # NoFile
    IN  /\ openFiles' = [openFiles EXCEPT ![slot] =
                            IF opened THEN Opened(name, t) ELSE NoFile]
        /\ returned' = IF opened THEN slot ELSE -1
        /\ UNCHANGED <<files, type, buffer>>

OpenIn(name, t, slot) ==
    LET opened == t \in {0, 1} /\ files[name] # NoFile
    IN  /\ type' = [type EXCEPT ![slot] = t]
        /\ openFiles' = [openFiles EXCEPT ![slot] =
                            IF opened THEN Opened(name, t) ELSE NoFile]
        /\ returned' = IF opened THEN slot ELSE -1
        /\ UNCHANGED <<files, buffer>>

SysOpen(name, t) ==
    CASE name = StdIn -> ReturnOnly(0)
      [] name = StdOut -> ReturnOnly(1)
      [] name \in FileNames ->
           \/ findFreeSlot = {} /\ ReturnOnly(-1)
           \/ \E slot \in findFreeSlot : OpenIn(name, t, slot)

SysClose(id) ==
    IF id \notin FileIds \/ openFiles[id] = NoFile THEN ReturnOnly(-1)
    ELSE /\ openFiles' = [openFiles EXCEPT ![id] = NoFile]
         /\ returned' = 0
         /\ UNCHANGED <<files, type, buffer>>

\* OpenFile::Read, at the file's own offset.
ReadFile(id, count) ==
    LET f == openFiles[id]
        left == Len(files[f.name]) - f.offset
        numRead == IF left < count THEN left ELSE count
    IN  IF numRead <= 0 THEN ReturnOnly(-3)
        ELSE /\ openFiles' = [openFiles EXCEPT ![id].offset = @ + numRead]
             /\ buffer' = SubSeq(files[f.name], f.offset + 1, f.offset + numRead)
             /\ returned' = numRead
             /\ UNCHANGED <<files, type>>

SysRead(count, id) ==
    IF id \notin FileIds THEN ReturnOnly(-1)
    ELSE IF openFiles[id] = NoFile THEN ReturnOnly(-4)
    ELSE IF id = 0 THEN \E n \in 0 .. count : ReturnOnly(n)   \* what is typed
    ELSE IF id = 1 THEN ReturnOnly(-2)
    ELSE ReadFile(id, count)

\* The file after bytes are written at an offset, which may be past its end.
Written(old, at, bytes) ==
    [n \in 1 .. (IF at + Len(bytes) > Len(old) THEN at + Len(bytes) ELSE Len(old)) |->
        IF n > at /\ n <= at + Len(bytes) THEN bytes[n - at]
        ELSE IF n <= Len(old) THEN old[n] ELSE Hole]

\* OpenFile::Write
WriteFile(id, bytes) ==
    LET f == openFiles[id]
    IN  /\ files' = [files EXCEPT ![f.name] = Written(@, f.offset, bytes)]
        /\ openFiles' = [openFiles EXCEPT ![id].offset = @ + Len(bytes)]
        /\ returned' = Len(bytes)
        /\ UNCHANGED <<type, buffer>>

SysWrite(bytes, id) ==
    IF id \notin FileIds THEN ReturnOnly(-1)
    ELSE IF openFiles[id] = NoFile THEN ReturnOnly(-4)
    ELSE IF type[id] = 1 THEN ReturnOnly(-2)
    ELSE IF id = 1 THEN ReturnOnly(Len(bytes))                \* to the display
    ELSE IF id = 0 THEN ReturnOnly(-2)
    ELSE WriteFile(id, bytes)

\* An id from 10 to 14 passes the code's test, and reads past the table: the
\* programs modelled pass none.
SysSeek(pos, id) ==
    LET length == Len(files[openFiles[id].name])
        to == IF pos = -1 THEN length ELSE pos
    IN  IF id \notin FileIds THEN ReturnOnly(-1)
        ELSE IF openFiles[id] = NoFile \/ id \in {0, 1} THEN ReturnOnly(-1)
        ELSE IF to > length \/ to < 0 THEN ReturnOnly(-1)
        ELSE /\ openFiles' = [openFiles EXCEPT ![id].offset = to]
             /\ returned' = to
             /\ UNCHANGED <<files, type, buffer>>

-----------------------------------------------------------------------------
\* Programs that make any of these calls on the files named; MaxBytes bounds the files.
CONSTANTS AnyBytes, MaxBytes

OpenFile == [name : FileNames \cup {StdIn, StdOut}, offset : Nat, asked : 0 .. 1]

ASSUME OpenFilesAssumption ==
    /\ FileSlots \in Nat
    /\ StdIn \notin FileNames /\ StdOut \notin FileNames /\ StdIn # StdOut
    /\ Hole \in Bytes /\ AnyBytes \subseteq Seq(Bytes)
    /\ NoFile \notin OpenFile /\ NoFile \notin Seq(Bytes)

AnyFileCall(names) ==
    \/ \E name \in names : SysCreateFile(name)
    \/ \E name \in names \cup {StdIn, StdOut}, t \in 0 .. 2 : SysOpen(name, t)
    \/ \E id \in -1 .. FileSlots :
          \/ id # 0 /\ SysClose(id)
          \/ SysRead(1, id)
          \/ \E bytes \in AnyBytes :
                /\ id \in 2 .. FileSlots - 1 /\ openFiles[id] # NoFile =>
                     openFiles[id].offset + Len(bytes) <= MaxBytes
                /\ SysWrite(bytes, id)
    \/ \E id \in -1 .. FileSlots - 1, pos \in -1 .. 1 : SysSeek(pos, id)

FilesTypeOK ==
    /\ files \in [FileNames -> Seq(Bytes) \cup {NoFile}]
    /\ openFiles \in [FileIds -> OpenFile \cup {NoFile}]
    /\ type \in [FileIds -> 0 .. 2]
    /\ returned \in Int

\* What the calls of all processes together may do to a file: it changes only
\* by CreateFile, which empties it, or by a Write through an id that was opened
\* with type 0, which keeps the other bytes; and never through an id of type 1.
ReadOnlyKept ==
    [][\A n \in FileNames : files'[n] # files[n] =>
         \/ files'[n] = <<>>
         \/ \E id \in FileIds \ {0, 1} :
              /\ openFiles[id] # NoFile /\ openFiles[id].name = n /\ openFiles[id].asked = 0
              /\ \A k \in 1 .. Len(files[n]) :
                   files'[n][k] = files[n][k]
                   \/ k \in openFiles[id].offset + 1 .. openFiles'[id].offset]_fileVars

\* A program that writes to the display by its file id, as test/shell.c does.
DisplayWrite == \E bytes \in AnyBytes : SysWrite(bytes, 1)

\* Write can be used on the open file that stands for the display without first
\* opening it, as syscall.h says: such a Write is not refused.
DisplayWritable == returned >= 0
=============================================================================
