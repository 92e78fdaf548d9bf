---------------------------- MODULE WaterTapSteps -----------------------------
(***************************************************************************)
(* First part of the proofs about what the lab's programs rest on, and     *)
(* about the programs.                                                     *)
(*                                                                         *)
(* SemTable, for any processes, names, size of the table and initial       *)
(* values: the bitmap, the pointers and the names agree (TableInv).        *)
(*                                                                         *)
(* OpenFiles, for any files, any table and any programs: files change only *)
(* through the ids opened for writing (FilesInv).                          *)
(*                                                                         *)
(* WaterTap, for any students, litres and input: the inductive invariant   *)
(* (TapInv, which rests on both of the others), and that the steps of      *)
(* main.c, and of sinhvien.c up to the tap, keep it.                       *)
(***************************************************************************)
EXTENDS WaterTap, TLAPS


-----------------------------------------------------------------------------
(* The table of semaphores *)

\* Create marks a slot and fills it at once, nothing is ever unmarked, and a name that
\* is found is not created again.
TableInv ==
  /\ TypeOK
  /\ bm = {i \in Slots : semTab[i] # NULL}
  /\ \A i, j \in bm : semTab[i].name = semTab[j].name => i = j
  /\ \A p \in Procs : waiting[p] # NULL => waiting[p] \in bm

\* The directory that a table stands for
Units == [n \in Names |->
            IF Held(n) = {} THEN NULL ELSE semTab[CHOOSE i \in Held(n) : TRUE].value]
WaitsFor == [p \in Procs |-> IF waiting[p] = NULL THEN NULL ELSE semTab[waiting[p]].name]

LEMMA SlotsAreNumbers == NULL \notin Slots /\ Slots \subseteq Int
BY SemTableAssumption DEF Slots

LEMMA InitTable == Init => TableInv
<1> SUFFICES ASSUME Init PROVE TableInv
  OBVIOUS
<1>1. TypeOK
  BY DEF Init, TypeOK
<1>2. QED
  BY <1>1 DEF Init, TableInv

\* A marked slot holds the only semaphore of its name.
LEMMA MarkedSlot ==
  ASSUME TableInv, NEW i \in bm
  PROVE  /\ i \in Slots /\ semTab[i] \in Sems
         /\ semTab[i].name \in Names /\ semTab[i].value \in Int
         /\ Held(semTab[i].name) = {i}
         /\ Units[semTab[i].name] = semTab[i].value
<1>1. i \in Slots /\ semTab[i] \in Sems
  BY DEF TableInv, TypeOK
<1>2. semTab[i].name \in Names /\ semTab[i].value \in Int
  BY <1>1 DEF Sems
<1>3. Held(semTab[i].name) = {i}
  BY <1>1 DEF Held, TableInv
<1>4. (CHOOSE j \in {i} : TRUE) = i
  OBVIOUS
<1>5. Units[semTab[i].name] = semTab[i].value
  BY <1>2, <1>3, <1>4 DEF Units
<1>6. QED
  BY <1>1, <1>2, <1>3, <1>5

LEMMA UnheldName ==
  ASSUME TableInv, NEW n \in Names, \A i \in bm : semTab[i].name # n
  PROVE  Held(n) = {} /\ Units[n] = NULL
<1>1. Held(n) = {}
  BY DEF Held, TableInv
<1>2. QED
  BY <1>1 DEF Units

\* The names of the directory are those of the marked slots.
LEMMA MadeNames ==
  ASSUME TableInv, NEW n \in Names
  PROVE  Units[n] # NULL <=> \E i \in bm : semTab[i].name = n
<1>1. ASSUME NEW i \in bm, semTab[i].name = n PROVE Units[n] # NULL
  BY <1>1, MarkedSlot, SemTableAssumption
<1>2. QED
  BY <1>1, UnheldName

-----------------------------------------------------------------------------
(* The invariant *)

LEMMA CreateKeeps ==
  ASSUME TableInv, NEW p \in Procs, NEW n \in Names, NEW v \in InitialValues, Create(p, n, v)
  PROVE  TableInv'
<1>1. PICK id \in Slots \ bm :
        /\ bm' = bm \cup {id}
        /\ semTab' = [semTab EXCEPT ![id] = [name |-> n, value |-> v]]
  BY Zenon DEF Create, IsFirst
<1>2. [name |-> n, value |-> v] \in Sems /\ [name |-> n, value |-> v] # NULL
  BY SemTableAssumption DEF Sems
<1>3. TypeOK'
  BY <1>1, <1>2 DEF TableInv, TypeOK, Create, Returns
<1>4. \A i \in Slots : semTab'[i] = IF i = id THEN [name |-> n, value |-> v] ELSE semTab[i]
  BY <1>1 DEF TableInv, TypeOK
<1>5. bm' = {i \in Slots : semTab'[i] # NULL}
  BY <1>1, <1>2, <1>4 DEF TableInv
<1>6. \A i \in bm : i # id /\ i \in Slots /\ semTab[i].name # n
  BY <1>1 DEF Create, Found, TableInv
<1>7. \A i, j \in bm' : semTab'[i].name = semTab'[j].name => i = j
  BY <1>1, <1>4, <1>6 DEF TableInv
<1>8. \A q \in Procs : waiting'[q] # NULL => waiting'[q] \in bm'
  BY <1>1 DEF Create, TableInv
<1>9. QED
  BY <1>3, <1>5, <1>7, <1>8 DEF TableInv

\* A step that changes the value of one marked semaphore
LEMMA ValueChanges ==
  ASSUME TableInv, NEW i \in bm, NEW x \in Int, bm' = bm,
         semTab' = [semTab EXCEPT ![i].value = x]
  PROVE  /\ semTab' \in [Slots -> Sems \cup {NULL}]
         /\ \A j \in bm : /\ semTab'[j].name = semTab[j].name
                          /\ semTab'[j].value = IF j = i THEN x ELSE semTab[j].value
         /\ bm' = {j \in Slots : semTab'[j] # NULL}
<1>1. i \in Slots /\ semTab[i] \in Sems
  BY MarkedSlot
<1>2. \A j \in Slots : semTab'[j] = IF j = i THEN [semTab[i] EXCEPT !.value = x] ELSE semTab[j]
  BY <1>1 DEF TableInv, TypeOK
<1>3. [semTab[i] EXCEPT !.value = x] = [name |-> semTab[i].name, value |-> x]
  BY <1>1 DEF Sems
<1>4. [name |-> semTab[i].name, value |-> x] \in Sems /\ [name |-> semTab[i].name, value |-> x] # NULL
  BY <1>1, SemTableAssumption DEF Sems
<1>5. semTab' \in [Slots -> Sems \cup {NULL}]
  BY <1>1, <1>3, <1>4 DEF TableInv, TypeOK
<1>6. \A j \in bm : /\ semTab'[j].name = semTab[j].name
                    /\ semTab'[j].value = IF j = i THEN x ELSE semTab[j].value
  BY <1>2, <1>3 DEF TableInv
<1>7. bm' = {j \in Slots : semTab'[j] # NULL}
  BY <1>1, <1>2, <1>3, <1>4 DEF TableInv
<1>8. QED
  BY <1>5, <1>6, <1>7

\* What P takes and what V adds
LEMMA WaitPStep ==
  ASSUME TableInv, NEW p \in Procs, WaitP(p)
  PROVE  LET i == waiting[p] IN
         /\ i \in bm /\ bm' = bm /\ semTab[i].value # 0
         /\ semTab[i].value - 1 \in Int
         /\ semTab' = [semTab EXCEPT ![i].value = semTab[i].value - 1]
         /\ waiting' = [waiting EXCEPT ![p] = NULL]
<1>1. waiting[p] \in bm
  BY DEF WaitP, TableInv
<1>2. semTab[waiting[p]].value \in Int
  BY <1>1, MarkedSlot
<1>3. QED
  BY <1>1, <1>2 DEF WaitP

LEMMA SignalStep ==
  ASSUME TableInv, NEW p \in Procs, NEW n \in Names, Signal(p, n)
  PROVE  \E i \in bm :
           /\ semTab[i].name = n /\ bm' = bm
           /\ semTab[i].value + 1 \in Int
           /\ semTab' = [semTab EXCEPT ![i].value = semTab[i].value + 1]
           /\ waiting' = waiting
<1>1. PICK i \in Slots : IsFirst(i, Found(n)) /\ semTab' = [semTab EXCEPT ![i].value = @ + 1]
  BY Zenon DEF Signal
<1>2. i \in bm /\ semTab[i].name = n
  BY <1>1 DEF IsFirst, Found
<1>3. semTab[i].value \in Int
  BY <1>2, MarkedSlot
<1>4. bm' = bm /\ waiting' = waiting
  BY DEF Signal
<1>5. semTab' = [semTab EXCEPT ![i].value = semTab[i].value + 1]
  BY <1>1
<1>6. semTab[i].value + 1 \in Int
  BY <1>3
<1>7. QED
  BY <1>2, <1>4, <1>5, <1>6, Zenon

LEMMA WaitPKeeps ==
  ASSUME TableInv, NEW p \in Procs, WaitP(p)
  PROVE  TableInv'
<1> DEFINE i == waiting[p]
           x == semTab[i].value - 1
<1>1. /\ i \in bm /\ x \in Int /\ bm' = bm
      /\ semTab' = [semTab EXCEPT ![i].value = x]
      /\ waiting' = [waiting EXCEPT ![p] = NULL]
  BY WaitPStep
<1> HIDE DEF i, x
<1>2. /\ semTab' \in [Slots -> Sems \cup {NULL}]
      /\ \A j \in bm : semTab'[j].name = semTab[j].name
      /\ bm' = {j \in Slots : semTab'[j] # NULL}
  BY <1>1, ValueChanges, Zenon
<1>3. TypeOK'
  BY <1>1, <1>2 DEF TableInv, TypeOK, WaitP, Returns
<1>4. \A q \in Procs : waiting'[q] # NULL => waiting'[q] \in bm'
  BY <1>1 DEF TableInv, TypeOK
<1>5. QED
  BY <1>1, <1>2, <1>3, <1>4 DEF TableInv

LEMMA SignalKeeps ==
  ASSUME TableInv, NEW p \in Procs, NEW n \in Names, Signal(p, n)
  PROVE  TableInv'
<1>1. PICK i \in bm : /\ bm' = bm /\ semTab[i].value + 1 \in Int
                      /\ semTab' = [semTab EXCEPT ![i].value = semTab[i].value + 1]
                      /\ waiting' = waiting
  BY SignalStep
<1>2. /\ semTab' \in [Slots -> Sems \cup {NULL}]
      /\ \A j \in bm : semTab'[j].name = semTab[j].name
      /\ bm' = {j \in Slots : semTab'[j] # NULL}
  BY <1>1, ValueChanges, Zenon
<1>3. TypeOK'
  BY <1>1, <1>2 DEF TableInv, TypeOK, Signal, Returns
<1>4. QED
  BY <1>1, <1>2, <1>3 DEF TableInv

LEMMA CallWaitKeeps ==
  ASSUME TableInv, NEW p \in Procs, NEW n \in Names, CallWait(p, n)
  PROVE  TableInv'
<1>1. PICK i \in bm : i \in Slots /\ waiting' = [waiting EXCEPT ![p] = i]
  BY Zenon DEF CallWait, IsFirst, Found
<1>2. UNCHANGED <<bm, semTab, result>>
  BY DEF CallWait
<1>3. TypeOK'
  BY <1>1, <1>2 DEF TableInv, TypeOK
<1>4. \A q \in Procs : waiting'[q] # NULL => waiting'[q] \in bm'
  BY <1>1, <1>2 DEF TableInv, TypeOK
<1>5. QED
  BY <1>2, <1>3, <1>4 DEF TableInv

\* A call that fails, or no step at all
LEMMA FailingKeeps ==
  ASSUME TableInv, UNCHANGED <<bm, semTab, waiting>>, result' \in [Procs -> {0, -1}]
  PROVE  TableInv'
<1>1. TypeOK'
  BY DEF TableInv, TypeOK
<1>2. QED
  BY <1>1 DEF TableInv

LEMMA FailingCalls ==
  ASSUME TableInv, NEW p \in Procs, NEW n \in Names, CreateFails(p, n) \/ NotFound(p, n)
  PROVE  UNCHANGED <<bm, semTab, waiting>> /\ result' \in [Procs -> {0, -1}]
BY DEF CreateFails, NotFound, Returns, TableInv, TypeOK

LEMMA NextKeepsTable == TableInv /\ [Next]_vars => TableInv'
<1> SUFFICES ASSUME TableInv, [Next]_vars PROVE TableInv'
  OBVIOUS
<1>1. CASE UNCHANGED vars
  BY <1>1, FailingKeeps DEF vars, TableInv, TypeOK
<1>2. ASSUME NEW p \in Procs, NEW n \in Names, CreateFails(p, n) \/ NotFound(p, n) PROVE TableInv'
  BY <1>2, FailingCalls, FailingKeeps
<1>3. QED
  BY <1>1, <1>2, CreateKeeps, WaitPKeeps, SignalKeeps, CallWaitKeeps DEF Next


-----------------------------------------------------------------------------
(* Open files *)

UserIds == FileIds \ {0, 1}

\* An id of a file that exists is of the type it was opened with: Open sets both at once.
FilesInv ==
  /\ FilesTypeOK
  /\ \A id \in UserIds : openFiles[id] # NoFile =>
       /\ openFiles[id].name \in FileNames
       /\ files[openFiles[id].name] # NoFile
       /\ openFiles[id].asked = type[id]

\* What a call may do to the file n: the step of ReadOnlyKept
FileKept(n) ==
  files'[n] # files[n] =>
    \/ files'[n] = <<>>
    \/ \E id \in FileIds \ {0, 1} :
         /\ openFiles[id] # NoFile /\ openFiles[id].name = n /\ openFiles[id].asked = 0
         /\ \A k \in 1 .. Len(files[n]) :
              files'[n][k] = files[n][k]
              \/ k \in openFiles[id].offset + 1 .. openFiles'[id].offset

\* What an open id gives
LEMMA OpenId ==
  ASSUME FilesInv, NEW id \in UserIds, openFiles[id] # NoFile
  PROVE  /\ id \in FileIds /\ openFiles[id] \in OpenFile
         /\ openFiles[id].name \in FileNames /\ openFiles[id].offset \in Nat
         /\ openFiles[id].asked \in 0 .. 1 /\ openFiles[id].asked = type[id]
         /\ files[openFiles[id].name] \in Seq(Bytes)
<1>1. id \in FileIds /\ openFiles[id] \in OpenFile
  BY DEF FilesInv, FilesTypeOK, UserIds
<1>2. openFiles[id].offset \in Nat /\ openFiles[id].asked \in 0 .. 1
  BY <1>1 DEF OpenFile
<1>3. /\ openFiles[id].name \in FileNames /\ files[openFiles[id].name] # NoFile
      /\ openFiles[id].asked = type[id]
  BY DEF FilesInv
<1>4. files[openFiles[id].name] \in Seq(Bytes)
  BY <1>3 DEF FilesInv, FilesTypeOK
<1>5. QED
  BY <1>1, <1>2, <1>3, <1>4

\* A call that only returns
LEMMA ReturnKeeps ==
  ASSUME FilesInv, NEW r \in Int, ReturnOnly(r)
  PROVE  FilesInv'
<1>1. FilesTypeOK'
  BY DEF FilesInv, FilesTypeOK, ReturnOnly
<1>2. QED
  BY <1>1 DEF FilesInv, ReturnOnly

\* A call that moves the offset of an open id
LEMMA OffsetMoves ==
  ASSUME FilesInv, NEW id \in UserIds, openFiles[id] # NoFile, NEW x \in Nat,
         openFiles' = [openFiles EXCEPT ![id].offset = x]
  PROVE  /\ openFiles' \in [FileIds -> OpenFile \cup {NoFile}]
         /\ \A j \in FileIds : j # id => openFiles'[j] = openFiles[j]
         /\ openFiles'[id] # NoFile /\ openFiles'[id].name = openFiles[id].name
         /\ openFiles'[id].asked = openFiles[id].asked /\ openFiles'[id].offset = x
<1>1. id \in FileIds /\ openFiles[id] \in OpenFile
  BY OpenId
<1>2. openFiles \in [FileIds -> OpenFile \cup {NoFile}]
  BY DEF FilesInv, FilesTypeOK
<1>3. openFiles'[id] = [openFiles[id] EXCEPT !.offset = x]
  BY <1>1, <1>2
<1>4. /\ openFiles'[id] \in OpenFile /\ openFiles'[id].name = openFiles[id].name
      /\ openFiles'[id].asked = openFiles[id].asked /\ openFiles'[id].offset = x
  BY <1>1, <1>3 DEF OpenFile
<1>5. openFiles'[id] # NoFile
  BY <1>4, OpenFilesAssumption
<1>6. \A j \in FileIds : j # id => openFiles'[j] = openFiles[j]
  BY <1>2
<1>7. openFiles' \in [FileIds -> OpenFile \cup {NoFile}]
  <2>1. openFiles' = [j \in FileIds |-> openFiles'[j]]
    BY <1>2, Zenon
  <2>2. \A j \in FileIds : openFiles'[j] \in OpenFile \cup {NoFile}
    BY <1>2, <1>4, <1>6
  <2>3. QED
    BY <2>1, <2>2, Zenon
<1>8. QED
  BY <1>4, <1>5, <1>6, <1>7

LEMMA OffsetKeeps ==
  ASSUME FilesInv, NEW id \in UserIds, openFiles[id] # NoFile, NEW x \in Nat,
         openFiles' = [openFiles EXCEPT ![id].offset = x], type' = type, returned' \in Int,
         files' \in [FileNames -> Seq(Bytes) \cup {NoFile}],
         \A n \in FileNames : files[n] # NoFile => files'[n] # NoFile
  PROVE  FilesInv'
<1>1. /\ openFiles' \in [FileIds -> OpenFile \cup {NoFile}]
      /\ \A j \in FileIds : j # id => openFiles'[j] = openFiles[j]
      /\ openFiles'[id].name = openFiles[id].name /\ openFiles'[id].asked = openFiles[id].asked
  BY OffsetMoves, Zenon
<1>2. FilesTypeOK'
  BY <1>1 DEF FilesInv, FilesTypeOK
<1>3. ASSUME NEW j \in UserIds, openFiles'[j] # NoFile
      PROVE  /\ openFiles'[j].name \in FileNames /\ files'[openFiles'[j].name] # NoFile
             /\ openFiles'[j].asked = type'[j]
  <2>1. openFiles'[j].name = openFiles[j].name /\ openFiles'[j].asked = openFiles[j].asked
    BY <1>1 DEF UserIds
  <2>2. openFiles[j] # NoFile
    BY <1>1, <1>3 DEF UserIds
  <2>3. QED
    BY <2>1, <2>2 DEF FilesInv
<1>4. QED
  BY <1>2, <1>3 DEF FilesInv

LEMMA CreateFileKeeps ==
  ASSUME FilesInv, NEW name \in FileNames, SysCreateFile(name)
  PROVE  FilesInv' /\ \A n \in FileNames : FileKept(n)
<1>1. CASE ReturnOnly(-1)
  BY <1>1, ReturnKeeps DEF ReturnOnly, FileKept
<1>2. CASE /\ files' = [files EXCEPT ![name] = <<>>] /\ returned' = 0
           /\ UNCHANGED <<openFiles, type, buffer>>
  <2>1. \A n \in FileNames : files'[n] = IF n = name THEN <<>> ELSE files[n]
    BY <1>2 DEF FilesInv, FilesTypeOK
  <2>2. <<>> \in Seq(Bytes) /\ <<>> # NoFile
    <3>1. <<>> \in Seq(Bytes)
      OBVIOUS
    <3>2. QED
      BY <3>1, OpenFilesAssumption, Zenon
  <2>3. FilesTypeOK'
    BY <1>2, <2>2 DEF FilesInv, FilesTypeOK
  <2>4. FilesInv'
    BY <1>2, <2>1, <2>2, <2>3 DEF FilesInv
  <2>5. QED
    BY <2>1, <2>4 DEF FileKept
<1>3. QED
  BY <1>1, <1>2 DEF SysCreateFile

\* Open of a file: nothing but a free slot changes.
LEMMA OpenInKeeps ==
  ASSUME FilesInv, NEW name \in FileNames, NEW t \in 0 .. 2, NEW slot \in UserIds,
         OpenIn(name, t, slot)
  PROVE  FilesInv'
<1> DEFINE opened == t \in {0, 1} /\ files[name] # NoFile
           new == IF opened THEN Opened(name, t) ELSE NoFile
<1>1. /\ type' = [type EXCEPT ![slot] = t] /\ openFiles' = [openFiles EXCEPT ![slot] = new]
      /\ returned' = IF opened THEN slot ELSE -1
      /\ UNCHANGED <<files, buffer>>
  BY DEF OpenIn
<1>2. slot \in FileIds /\ slot \in Int
  BY OpenFilesAssumption DEF UserIds, FileIds
<1>3. opened => Opened(name, t) \in OpenFile /\ Opened(name, t).name = name /\ Opened(name, t).asked = t
  BY DEF Opened, OpenFile
<1>4. new \in OpenFile \cup {NoFile}
  BY <1>3
<1>5. new # NoFile => opened /\ new.name = name /\ new.asked = t
  BY <1>3
<1> HIDE DEF new
<1>6. FilesTypeOK'
  BY <1>1, <1>2, <1>4 DEF FilesInv, FilesTypeOK
<1>7. \A j \in FileIds : /\ openFiles'[j] = IF j = slot THEN new ELSE openFiles[j]
                         /\ type'[j] = IF j = slot THEN t ELSE type[j]
  BY <1>1 DEF FilesInv, FilesTypeOK
<1>8. ASSUME NEW j \in UserIds, openFiles'[j] # NoFile
      PROVE  /\ openFiles'[j].name \in FileNames /\ files'[openFiles'[j].name] # NoFile
             /\ openFiles'[j].asked = type'[j]
  BY <1>1, <1>5, <1>7, <1>8 DEF FilesInv, UserIds
<1>9. QED
  BY <1>6, <1>8 DEF FilesInv

LEMMA OpenKeeps ==
  ASSUME FilesInv, NEW name \in FileNames \cup {StdIn, StdOut}, NEW t \in 0 .. 2, SysOpen(name, t)
  PROVE  FilesInv' /\ files' = files
<1>1. CASE name = StdIn
  BY <1>1, ReturnKeeps, OpenFilesAssumption DEF SysOpen, ReturnOnly
<1>2. CASE name = StdOut
  BY <1>2, ReturnKeeps, OpenFilesAssumption DEF SysOpen, ReturnOnly
<1>3. CASE name \in FileNames
  <2>1. ReturnOnly(-1) \/ \E slot \in findFreeSlot : OpenIn(name, t, slot)
    BY <1>3, OpenFilesAssumption DEF SysOpen
  <2>2. CASE ReturnOnly(-1)
    BY <2>2, ReturnKeeps DEF ReturnOnly
  <2>3. ASSUME NEW slot \in findFreeSlot, OpenIn(name, t, slot) PROVE FilesInv' /\ files' = files
    <3>1. slot \in UserIds
      BY DEF findFreeSlot, UserIds
    <3>2. QED
      BY <1>3, <2>3, <3>1, OpenInKeeps, Zenon DEF OpenIn
  <2>4. QED
    BY <2>1, <2>2, <2>3
<1>4. QED
  BY <1>1, <1>2, <1>3

LEMMA CloseKeeps ==
  ASSUME FilesInv, NEW id \in Int, SysClose(id)
  PROVE  FilesInv' /\ files' = files
<1>1. CASE ReturnOnly(-1)
  BY <1>1, ReturnKeeps DEF ReturnOnly
<1>2. CASE /\ openFiles' = [openFiles EXCEPT ![id] = NoFile] /\ returned' = 0
           /\ UNCHANGED <<files, type, buffer>>
  <2>1. FilesTypeOK'
    <3>1. openFiles' \in [FileIds -> OpenFile \cup {NoFile}]
      BY <1>2, Zenon DEF FilesInv, FilesTypeOK
    <3>2. QED
      BY <1>2, <3>1 DEF FilesInv, FilesTypeOK
  <2>2. \A j \in FileIds : openFiles'[j] = IF j = id THEN NoFile ELSE openFiles[j]
    BY <1>2 DEF FilesInv, FilesTypeOK
  <2>3. FilesInv'
    BY <1>2, <2>1, <2>2 DEF FilesInv, UserIds
  <2>4. QED
    BY <1>2, <2>3
<1>3. QED
  BY <1>1, <1>2 DEF SysClose

LEMMA ReadKeeps ==
  ASSUME FilesInv, NEW id \in Int, NEW count \in Nat, SysRead(count, id)
  PROVE  FilesInv' /\ files' = files
<1>1. ASSUME NEW r \in Int, ReturnOnly(r) PROVE FilesInv' /\ files' = files
  BY <1>1, ReturnKeeps DEF ReturnOnly
<1>2. CASE id \in UserIds /\ openFiles[id] # NoFile /\ ReadFile(id, count)
  <2> DEFINE f == openFiles[id]
             left == Len(files[f.name]) - f.offset
             numRead == IF left < count THEN left ELSE count
  <2>1. f.offset \in Nat /\ files[f.name] \in Seq(Bytes)
    BY <1>2, OpenId
  <2>2. numRead \in Int
    BY <2>1
  <2>3. CASE numRead <= 0
    BY <1>1, <1>2, <2>3 DEF ReadFile
  <2>4. CASE ~(numRead <= 0)
    <3>1. /\ openFiles' = [openFiles EXCEPT ![id].offset = @ + numRead]
          /\ returned' = numRead /\ UNCHANGED <<files, type>>
      BY <1>2, <2>4, Zenon DEF ReadFile
    <3>2. openFiles' = [openFiles EXCEPT ![id].offset = f.offset + numRead]
      BY <3>1
    <3>3. f.offset + numRead \in Nat
      BY <2>1, <2>2, <2>4
    <3>4. files' \in [FileNames -> Seq(Bytes) \cup {NoFile}]
      BY <3>1 DEF FilesInv, FilesTypeOK
    <3> HIDE DEF numRead, f
    <3>5. QED
      BY <1>2, <2>2, <3>1, <3>2, <3>3, <3>4, OffsetKeeps, Zenon
  <2>5. QED
    BY <2>3, <2>4
<1>3. (\E r \in Int : ReturnOnly(r)) \/ (id \in UserIds /\ openFiles[id] # NoFile /\ ReadFile(id, count))
  BY DEF SysRead, UserIds
<1>4. QED
  BY <1>1, <1>2, <1>3

\* The bytes of a file after a write
LEMMA WrittenBytes ==
  ASSUME NEW old \in Seq(Bytes), NEW at \in Nat, NEW bytes \in Seq(Bytes)
  PROVE  /\ Written(old, at, bytes) \in Seq(Bytes)
         /\ Len(Written(old, at, bytes)) =
              IF at + Len(bytes) > Len(old) THEN at + Len(bytes) ELSE Len(old)
         /\ \A k \in 1 .. Len(old) : k \notin at + 1 .. at + Len(bytes) =>
              Written(old, at, bytes)[k] = old[k]
         /\ \A k \in 1 .. Len(bytes) : Written(old, at, bytes)[at + k] = bytes[k]
<1> DEFINE w == Written(old, at, bytes)
           n == IF at + Len(bytes) > Len(old) THEN at + Len(bytes) ELSE Len(old)
           Byte(k) == IF k > at /\ k <= at + Len(bytes) THEN bytes[k - at]
                      ELSE IF k <= Len(old) THEN old[k] ELSE Hole
<1>1. n \in Nat /\ Len(old) \in Nat /\ Len(bytes) \in Nat
  OBVIOUS
<1>2. w = [k \in 1 .. n |-> Byte(k)]
  BY DEF Written
<1>3. \A k \in 1 .. n : Byte(k) \in Bytes
  <2> SUFFICES ASSUME NEW k \in 1 .. n PROVE Byte(k) \in Bytes
    OBVIOUS
  <2>1. CASE k > at /\ k <= at + Len(bytes)
    <3>1. k - at \in 1 .. Len(bytes)
      BY <2>1, <1>1
    <3>2. QED
      BY <2>1, <3>1
  <2>2. CASE ~(k > at /\ k <= at + Len(bytes))
    BY <2>2, <1>1, OpenFilesAssumption
  <2>3. QED
    BY <2>1, <2>2
<1>4. \A k \in 1 .. Len(old) : k \notin at + 1 .. at + Len(bytes) => k \in 1 .. n /\ Byte(k) = old[k]
  BY <1>1
<1>5. \A k \in 1 .. Len(bytes) : at + k \in 1 .. n /\ Byte(at + k) = bytes[k]
  BY <1>1
<1> HIDE DEF n, Byte
<1>6. w \in [1 .. n -> Bytes]
  BY <1>2, <1>3, Zenon
<1>7. w \in Seq(Bytes) /\ Len(w) = n
  BY <1>1, <1>6
<1>8. \A k \in 1 .. n : w[k] = Byte(k)
  BY <1>2, Zenon
<1>9. /\ \A k \in 1 .. Len(old) : k \notin at + 1 .. at + Len(bytes) => w[k] = old[k]
      /\ \A k \in 1 .. Len(bytes) : w[at + k] = bytes[k]
  BY <1>4, <1>5, <1>8, Zenon
<1>10. QED
  BY <1>7, <1>9, Zenon DEF n

LEMMA WriteFileStep ==
  ASSUME FilesInv, NEW id \in UserIds, openFiles[id] # NoFile, NEW bytes \in Seq(Bytes),
         WriteFile(id, bytes)
  PROVE  LET f == openFiles[id] IN
         /\ FilesInv'
         /\ files'[f.name] = Written(files[f.name], f.offset, bytes)
         /\ \A n \in FileNames : n # f.name => files'[n] = files[n]
         /\ openFiles' = [openFiles EXCEPT ![id].offset = f.offset + Len(bytes)]
         /\ openFiles'[id].offset = f.offset + Len(bytes)
<1> DEFINE f == openFiles[id]
           x == f.offset + Len(bytes)
           w == Written(files[f.name], f.offset, bytes)
<1>1. f.name \in FileNames /\ f.offset \in Nat /\ files[f.name] \in Seq(Bytes)
  BY OpenId
<1>2. w \in Seq(Bytes)
  BY <1>1, WrittenBytes
<1>3. /\ files' = [files EXCEPT ![f.name] = w]
      /\ openFiles' = [openFiles EXCEPT ![id].offset = x]
      /\ returned' = Len(bytes) /\ type' = type
  BY DEF WriteFile
<1>4. x \in Nat /\ returned' \in Int
  BY <1>1, <1>3
<1>5. w # NoFile
  BY <1>2, OpenFilesAssumption
<1> HIDE DEF f, x, w
<1>6. /\ files' \in [FileNames -> Seq(Bytes) \cup {NoFile}]
      /\ \A n \in FileNames : files'[n] = IF n = f.name THEN w ELSE files[n]
  BY <1>1, <1>2, <1>3 DEF FilesInv, FilesTypeOK
<1>7. FilesInv'
  BY <1>3, <1>4, <1>5, <1>6, OffsetKeeps, Zenon
<1>8. openFiles'[id].offset = x
  BY <1>3, <1>4, OffsetMoves, Zenon
<1>9. QED
  BY <1>1, <1>3, <1>6, <1>7, <1>8 DEF f, x, w

LEMMA WriteKeeps ==
  ASSUME FilesInv, NEW id \in Int, NEW bytes \in Seq(Bytes), SysWrite(bytes, id)
  PROVE  FilesInv' /\ \A n \in FileNames : FileKept(n)
<1>1. ASSUME NEW r \in Int, ReturnOnly(r) PROVE FilesInv' /\ \A n \in FileNames : FileKept(n)
  BY <1>1, ReturnKeeps DEF ReturnOnly, FileKept
<1>2. CASE id \in UserIds /\ openFiles[id] # NoFile /\ type[id] # 1 /\ WriteFile(id, bytes)
  <2> DEFINE f == openFiles[id]
  <2>1. /\ FilesInv'
        /\ files'[f.name] = Written(files[f.name], f.offset, bytes)
        /\ \A n \in FileNames : n # f.name => files'[n] = files[n]
        /\ openFiles'[id].offset = f.offset + Len(bytes)
    BY <1>2, WriteFileStep
  <2>2. f.asked = 0 /\ f.offset \in Nat /\ files[f.name] \in Seq(Bytes) /\ f.name \in FileNames
    BY <1>2, OpenId
  <2>3. \A k \in 1 .. Len(files[f.name]) : k \notin f.offset + 1 .. f.offset + Len(bytes) =>
          files'[f.name][k] = files[f.name][k]
    BY <2>1, <2>2, WrittenBytes
  <2>4. FileKept(f.name)
    BY <1>2, <2>1, <2>2, <2>3, Zenon DEF FileKept, UserIds
  <2>5. \A n \in FileNames : n # f.name => FileKept(n)
    BY <2>1, Zenon DEF FileKept
  <2>6. QED
    BY <2>1, <2>4, <2>5, Zenon
<1>3. \/ \E r \in Int : ReturnOnly(r)
      \/ id \in UserIds /\ openFiles[id] # NoFile /\ type[id] # 1 /\ WriteFile(id, bytes)
  <2>1. Len(bytes) \in Int
    OBVIOUS
  <2>2. QED
    BY <2>1 DEF SysWrite, UserIds
<1>4. QED
  BY <1>1, <1>2, <1>3

LEMMA SeekKeeps ==
  ASSUME FilesInv, NEW id \in Int, NEW pos \in Int, SysSeek(pos, id)
  PROVE  FilesInv' /\ files' = files
<1> DEFINE length == Len(files[openFiles[id].name])
           to == IF pos = -1 THEN length ELSE pos
<1>1. CASE ReturnOnly(-1)
  BY <1>1, ReturnKeeps DEF ReturnOnly
<1>2. CASE /\ id \in UserIds /\ openFiles[id] # NoFile /\ ~(to > length \/ to < 0)
           /\ openFiles' = [openFiles EXCEPT ![id].offset = to] /\ returned' = to
           /\ UNCHANGED <<files, type, buffer>>
  <2>1. length \in Nat
    BY <1>2, OpenId
  <2>2. to \in Nat
    BY <1>2, <2>1
  <2>3. files' \in [FileNames -> Seq(Bytes) \cup {NoFile}]
    BY <1>2 DEF FilesInv, FilesTypeOK
  <2>4. /\ id \in UserIds /\ openFiles[id] # NoFile /\ returned' \in Int
        /\ openFiles' = [openFiles EXCEPT ![id].offset = to] /\ files' = files /\ type' = type
    BY <1>2, <2>2
  <2> HIDE DEF to
  <2>5. FilesInv'
    BY <2>2, <2>3, <2>4, OffsetKeeps, Zenon
  <2>6. QED
    BY <2>4, <2>5
<1>3. QED
  BY <1>1, <1>2, Zenon DEF SysSeek, UserIds

LEMMA FilesInitInv ==
  ASSUME NEW contents \in [FileNames -> Seq(Bytes) \cup {NoFile}], FilesInit(contents)
  PROVE  FilesInv /\ \A id \in UserIds : openFiles[id] = NoFile
<1>1. Opened(StdIn, 0) \in OpenFile /\ Opened(StdOut, 1) \in OpenFile
  BY DEF Opened, OpenFile
<1>2. FilesTypeOK
  BY <1>1 DEF FilesInit, FilesTypeOK
<1>3. \A id \in UserIds : openFiles[id] = NoFile
  BY DEF FilesInit, UserIds
<1>4. QED
  BY <1>2, <1>3 DEF FilesInv

\* The open files of all processes together: a file changes only by CreateFile or by a Write
\* through an id that was opened for writing, which keeps the bytes it does not write;
\* for any size of the table, any files, and any programs that make these calls.
THEOREM FilesCorrect ==
  ASSUME NEW contents \in [FileNames -> Seq(Bytes) \cup {NoFile}], NEW names \in SUBSET FileNames
  PROVE  FilesInit(contents) /\ [][AnyFileCall(names)]_fileVars => []FilesTypeOK /\ ReadOnlyKept
<1>1. FilesInit(contents) => FilesInv
  BY FilesInitInv
<1>2. ASSUME FilesInv, [AnyFileCall(names)]_fileVars
      PROVE  FilesInv' /\ (fileVars' = fileVars \/ \A n \in FileNames : FileKept(n))
  <2>1. CASE UNCHANGED fileVars
    <3>1. FilesTypeOK'
      BY <1>2, <2>1 DEF FilesInv, FilesTypeOK, fileVars
    <3>2. QED
      BY <1>2, <2>1, <3>1 DEF FilesInv, fileVars
  <2>2. ASSUME FilesInv', files' = files PROVE FilesInv' /\ \A n \in FileNames : FileKept(n)
    BY <2>2 DEF FileKept
  <2>3. ASSUME NEW name \in names, SysCreateFile(name)
        PROVE  FilesInv' /\ \A n \in FileNames : FileKept(n)
    BY <1>2, <2>3, CreateFileKeeps
  <2>4. ASSUME NEW name \in names \cup {StdIn, StdOut}, NEW t \in 0 .. 2, SysOpen(name, t)
        PROVE  FilesInv' /\ \A n \in FileNames : FileKept(n)
    BY <1>2, <2>2, <2>4, OpenKeeps
  <2>5. ASSUME NEW id \in -1 .. FileSlots, SysClose(id) \/ SysRead(1, id)
        PROVE  FilesInv' /\ \A n \in FileNames : FileKept(n)
    BY <1>2, <2>2, <2>5, CloseKeeps, ReadKeeps, OpenFilesAssumption
  <2>6. ASSUME NEW id \in -1 .. FileSlots, NEW bytes \in AnyBytes, SysWrite(bytes, id)
        PROVE  FilesInv' /\ \A n \in FileNames : FileKept(n)
    BY <1>2, <2>6, WriteKeeps, OpenFilesAssumption
  <2>7. ASSUME NEW id \in -1 .. FileSlots - 1, NEW pos \in -1 .. 1, SysSeek(pos, id)
        PROVE  FilesInv' /\ \A n \in FileNames : FileKept(n)
    BY <1>2, <2>2, <2>7, SeekKeeps, OpenFilesAssumption
  <2>8. QED
    BY <1>2, <2>1, <2>3, <2>4, <2>5, <2>6, <2>7, Zenon DEF AnyFileCall
<1>3. FilesInv => FilesTypeOK
  BY DEF FilesInv
<1>4. FilesInv /\ [AnyFileCall(names)]_fileVars => [\A n \in FileNames : FileKept(n)]_fileVars
  BY <1>2
<1>5. QED
  BY <1>1, <1>2, <1>3, <1>4, PTL DEF ReadOnlyKept, FileKept



-----------------------------------------------------------------------------
(* The water tap *)

Labels == {"create", "open", "createOutput", "read", "exec", "closeInput", "closeOutput",
           "join", "halt", "unborn", "wait", "seekEnd", "seek", "writeId", "writeSpace",
           "close", "signal", "exited"}

TapTypes ==
  /\ tapAt \in [{Parent} \cup Students -> Labels]
  /\ fileId \in [{Parent} \cup Students -> Int]
  /\ lengthFile \in [Students -> Int]
  /\ litres \in [Students -> Nat]

\* main.c has not come to its Joins.
Before == tapAt[Parent] \notin {"join", "halt"}

\* The semaphore of the tap lets nobody in before main.c's Signal, and one at a time then.
TapGuarded ==
  /\ \A i \in bm : semTab[i].name = Tap
  /\ Before => /\ \A i \in bm : semTab[i].value = 0
               /\ \A s \in Students : ~AtTap(s)
  /\ tapAt[Parent] = "join" =>
       \A i \in bm : \/ semTab[i].value = 0
                     \/ semTab[i].value = 1 /\ \A s \in Students : ~AtTap(s)
  /\ \A r, s \in Students : AtTap(r) /\ AtTap(s) => r = s

Holding(s) == tapAt[s] \in {"seekEnd", "seek", "writeId", "writeSpace", "close"}

\* Only main.c and the student at the tap hold an id, so that there is always one for the
\* next student; and the student's offset is the end of the file when it writes.
IdsHeld ==
  /\ \A id \in UserIds : openFiles[id] # NoFile =>
       id = fileId[Parent] \/ \E s \in Students : Holding(s) /\ id = fileId[s]
  /\ tapAt[Parent] \in {"create", "open"} => \A id \in UserIds : openFiles[id] = NoFile
  /\ \A s \in Students : Holding(s) =>
       /\ fileId[s] \in UserIds /\ openFiles[fileId[s]] # NoFile
       /\ openFiles[fileId[s]].name = Output /\ openFiles[fileId[s]].asked = 0
       /\ tapAt[s] = "seek" => lengthFile[s] = Len(files[Output])
       /\ tapAt[s] \in {"writeId", "writeSpace"} =>
            openFiles[fileId[s]].offset = Len(files[Output])

Visits(out, s) == {k \in 1 .. Len(out) : out[k] = s}
Begun(s) == litres[s] + (IF tapAt[s] \in {"writeSpace", "close", "signal"} THEN 1 ELSE 0)

\* What output.txt holds
OutputKept ==
  /\ \A k \in 1 .. Len(files[Output]) : (files[Output][k] = Space) <=> (k % 2 = 0)
  /\ \A s \in Students : Cardinality(Visits(files[Output], s)) = Begun(s)
  /\ Len(files[Output]) % 2 = 1 <=> \E s \in Students : tapAt[s] = "writeSpace"

Lines ==
  /\ tapAt[Parent] \in {"create", "open", "createOutput"} => \A s \in Students : litres[s] = 0
  /\ tapAt[Parent] \in {"read", "exec", "join"} => files[Output] # NoFile
  /\ files[Output] # NoFile => OutputKept

TapInv == TableInv /\ FilesInv /\ TapTypes /\ TapGuarded /\ IdsHeld /\ Lines

LEMMA SemsSame == TableInv /\ UNCHANGED vars => TableInv'
BY NextKeepsTable

LEMMA FilesSame == FilesInv /\ UNCHANGED fileVars => FilesInv'
<1> SUFFICES ASSUME FilesInv, UNCHANGED fileVars PROVE FilesInv'
  OBVIOUS
<1>1. FilesTypeOK'
  BY DEF FilesInv, FilesTypeOK, fileVars
<1>2. QED
  BY <1>1 DEF FilesInv, fileVars

\* A process goes on to its next call.
LEMMA GoesOn ==
  ASSUME TapTypes, NEW p \in {Parent} \cup Students, NEW to \in Labels, Goes(p, to)
  PROVE  /\ tapAt' \in [{Parent} \cup Students -> Labels] /\ tapAt'[p] = to
         /\ \A q \in {Parent} \cup Students : q # p => tapAt'[q] = tapAt[q]
BY DEF TapTypes, Goes

\* main.c goes on before its Signal: no student is at the tap.
LEMMA MainGoesOn ==
  ASSUME TapInv, Before, NEW to \in Labels, Goes(Parent, to)
  PROVE  /\ tapAt' \in [{Parent} \cup Students -> Labels] /\ tapAt'[Parent] = to
         /\ \A s \in Students : /\ tapAt'[s] = tapAt[s] /\ ~AtTap(s) /\ ~AtTap(s)'
                                /\ ~Holding(s) /\ ~Holding(s)'
                                /\ tapAt[s] # "writeSpace" /\ tapAt'[s] # "writeSpace"
                                /\ litres' = litres => Begun(s)' = Begun(s)
<1>1. /\ tapAt' \in [{Parent} \cup Students -> Labels] /\ tapAt'[Parent] = to
      /\ \A s \in Students : tapAt'[s] = tapAt[s]
  BY GoesOn, TapAssumption DEF TapInv
<1>2. \A s \in Students : ~AtTap(s)
  BY DEF TapInv, TapGuarded
<1>3. \A s \in Students : tapAt[s] \notin {"open", "seekEnd", "seek", "writeId", "writeSpace", "close", "signal"}
  BY <1>2 DEF AtTap
<1>4. ASSUME NEW s \in Students
      PROVE  /\ ~AtTap(s)' /\ ~Holding(s) /\ ~Holding(s)'
             /\ tapAt[s] # "writeSpace" /\ tapAt'[s] # "writeSpace"
             /\ litres' = litres => Begun(s)' = Begun(s)
  BY <1>1, <1>3 DEF AtTap, Holding, Begun
<1>5. QED
  BY <1>1, <1>2, <1>4

\* The student at the tap goes on: no other one is there, and main.c is in its Joins.
LEMMA StudentGoesOn ==
  ASSUME TapInv, tapAt[Parent] # "halt", NEW s \in Students, AtTap(s),
         NEW to \in Labels, Goes(s, to)
  PROVE  /\ tapAt' \in [{Parent} \cup Students -> Labels] /\ tapAt'[s] = to
         /\ tapAt[Parent] = "join" /\ tapAt'[Parent] = "join"
         /\ \A r \in Students \ {s} : /\ tapAt'[r] = tapAt[r] /\ ~AtTap(r) /\ ~AtTap(r)'
                                      /\ ~Holding(r) /\ ~Holding(r)'
                                      /\ tapAt[r] # "writeSpace" /\ tapAt'[r] # "writeSpace"
                                      /\ litres'[r] = litres[r] => Begun(r)' = Begun(r)
<1>1. /\ tapAt' \in [{Parent} \cup Students -> Labels] /\ tapAt'[s] = to
      /\ tapAt'[Parent] = tapAt[Parent]
      /\ \A r \in Students \ {s} : tapAt'[r] = tapAt[r]
  BY GoesOn, TapAssumption DEF TapInv
<1>2. tapAt[Parent] = "join"
  BY DEF TapInv, TapGuarded, Before
<1>3. \A r \in Students \ {s} : ~AtTap(r)
  BY DEF TapInv, TapGuarded
<1>4. \A r \in Students \ {s} :
        tapAt[r] \notin {"open", "seekEnd", "seek", "writeId", "writeSpace", "close", "signal"}
  BY <1>3 DEF AtTap
<1>5. ASSUME NEW r \in Students \ {s}
      PROVE  /\ ~AtTap(r)' /\ ~Holding(r) /\ ~Holding(r)'
             /\ tapAt[r] # "writeSpace" /\ tapAt'[r] # "writeSpace"
             /\ litres'[r] = litres[r] => Begun(r)' = Begun(r)
  BY <1>1, <1>4 DEF AtTap, Holding, Begun
<1>6. QED
  BY <1>1, <1>2, <1>3, <1>5

\* Nothing is written.
LEMMA LinesSame ==
  ASSUME TapInv, files' = files,
         tapAt'[Parent] \in {"create", "open", "createOutput"} =>
           tapAt[Parent] \in {"create", "open", "createOutput"} /\ litres' = litres,
         tapAt'[Parent] \in {"read", "exec", "join"} => files[Output] # NoFile,
         \A s \in Students : Begun(s)' = Begun(s),
         (\E s \in Students : tapAt'[s] = "writeSpace") <=> \E s \in Students : tapAt[s] = "writeSpace"
  PROVE  Lines'
<1>1. files[Output] # NoFile => OutputKept'
  <2> SUFFICES ASSUME OutputKept PROVE OutputKept'
    BY DEF TapInv, Lines
  <2>1. \A s \in Students : Visits(files[Output], s)' = Visits(files[Output], s)
    BY DEF Visits
  <2>2. \A s \in Students : Cardinality(Visits(files[Output], s))' = Begun(s)'
    BY <2>1, Zenon DEF OutputKept
  <2>3. QED
    BY <2>2, Zenon DEF OutputKept
<1>2. QED
  BY <1>1 DEF TapInv, Lines

-----------------------------------------------------------------------------
(* main.c *)

\* main.c makes a call on files, or none, before its Signal.
LEMMA MainStays ==
  ASSUME TapInv, Before, FilesInv', UNCHANGED <<vars, litres, lengthFile>>,
         NEW to \in Labels \ {"join"}, Goes(Parent, to),
         fileId' \in [{Parent} \cup Students -> Int]
  PROVE  TableInv' /\ FilesInv' /\ TapTypes' /\ TapGuarded'
<1>1. /\ tapAt' \in [{Parent} \cup Students -> Labels] /\ tapAt'[Parent] = to
      /\ \A s \in Students : ~AtTap(s)'
  BY MainGoesOn
<1>2. TapTypes'
  BY <1>1 DEF TapInv, TapTypes
<1>3. TapGuarded'
  BY <1>1 DEF TapInv, TapGuarded, Before, vars
<1>4. QED
  BY <1>2, <1>3, SemsSame DEF TapInv

\* No student holds an id then.
LEMMA MainIds ==
  ASSUME \A s \in Students : ~Holding(s)',
         \A id \in UserIds : openFiles'[id] # NoFile => id = fileId'[Parent],
         tapAt'[Parent] \notin {"create", "open"} \/ \A id \in UserIds : openFiles'[id] = NoFile
  PROVE  IdsHeld'
BY DEF IdsHeld

\* The ids that are open before main.c's Signal
LEMMA MainHolds ==
  ASSUME TapInv, Before, NEW id \in UserIds, openFiles[id] # NoFile
  PROVE  id = fileId[Parent] /\ tapAt[Parent] \notin {"create", "open"}
<1>1. \A s \in Students : ~Holding(s)
  BY DEF TapInv, TapGuarded, AtTap, Holding
<1>2. QED
  BY <1>1 DEF TapInv, IdsHeld

LEMMA MainCreatesKeeps == ASSUME TapInv, MainCreates PROVE TapInv'
<1>1. /\ tapAt[Parent] = "create" /\ Create(Parent, Tap, 0) /\ Goes(Parent, "open")
      /\ UNCHANGED <<fileVars, fileId, litres, slsv, children, lengthFile>>
  BY DEF MainCreates
<1>2. /\ tapAt' \in [{Parent} \cup Students -> Labels] /\ tapAt'[Parent] = "open"
      /\ \A s \in Students : /\ ~AtTap(s)' /\ ~Holding(s)' /\ Begun(s)' = Begun(s)
                             /\ tapAt[s] # "writeSpace" /\ tapAt'[s] # "writeSpace"
  BY <1>1, MainGoesOn DEF Labels, Before
<1>3. TableInv'
  BY <1>1, CreateKeeps, TapAssumption DEF TapInv
<1>4. FilesInv' /\ files' = files /\ openFiles' = openFiles
  BY <1>1, FilesSame DEF TapInv, fileVars
<1>5. TapTypes'
  BY <1>1, <1>2 DEF TapInv, TapTypes
<1>6. TapGuarded'
  <2>1. PICK id \in Slots : /\ bm' = bm \cup {id}
                            /\ semTab' = [semTab EXCEPT ![id] = [name |-> Tap, value |-> 0]]
    BY <1>1, Zenon DEF Create
  <2>2. \A i \in bm' : semTab'[i] = IF i = id THEN [name |-> Tap, value |-> 0] ELSE semTab[i]
    BY <2>1 DEF TapInv, TableInv, TypeOK
  <2>3. \A i \in bm : semTab[i].name = Tap /\ semTab[i].value = 0
    BY <1>1 DEF TapInv, TapGuarded, Before
  <2>4. \A i \in bm' : semTab'[i].name = Tap /\ semTab'[i].value = 0
    BY <2>1, <2>2, <2>3
  <2>5. QED
    BY <1>2, <2>4 DEF TapGuarded
<1>7. IdsHeld'
  BY <1>1, <1>2, <1>4, MainIds DEF TapInv, IdsHeld
<1>8. Lines'
  BY <1>1, <1>2, <1>4, LinesSame
<1>9. QED
  BY <1>3, <1>4, <1>5, <1>6, <1>7, <1>8 DEF TapInv

\* What Open does to the table: at most the slot it returns is open anew.
LEMMA OpenStep ==
  ASSUME FilesInv, NEW name \in FileNames, NEW t \in 0 .. 1, SysOpen(name, t)
  PROVE  /\ returned' \in Int
         /\ \A id \in UserIds : openFiles'[id] # NoFile => openFiles[id] # NoFile \/ id = returned'
<1>1. (findFreeSlot = {} /\ ReturnOnly(-1)) \/ \E slot \in findFreeSlot : OpenIn(name, t, slot)
  BY OpenFilesAssumption DEF SysOpen
<1>2. CASE ReturnOnly(-1)
  BY <1>2 DEF ReturnOnly
<1>3. ASSUME NEW slot \in findFreeSlot, OpenIn(name, t, slot)
      PROVE  /\ returned' \in Int
             /\ \A id \in UserIds : openFiles'[id] # NoFile => openFiles[id] # NoFile \/ id = returned'
  <2>1. slot \in FileIds /\ slot \in Int
    BY OpenFilesAssumption DEF findFreeSlot, FileIds
  <2>2. \A id \in UserIds : openFiles'[id] = IF id # slot THEN openFiles[id]
                            ELSE IF files[name] # NoFile THEN Opened(name, t) ELSE NoFile
    BY <1>3 DEF OpenIn, FilesInv, FilesTypeOK, UserIds
  <2>3. returned' = IF files[name] # NoFile THEN slot ELSE -1
    BY <1>3 DEF OpenIn
  <2>4. QED
    BY <2>1, <2>2, <2>3
<1>4. QED
  BY <1>1, <1>2, <1>3

LEMMA MainOpensKeeps == ASSUME TapInv, MainOpens PROVE TapInv'
<1> DEFINE to == IF returned' = -1 THEN "halt" ELSE "createOutput"
<1>1. /\ tapAt[Parent] = "open" /\ SysOpen(Input, 1) /\ Goes(Parent, to)
      /\ fileId' = [fileId EXCEPT ![Parent] = returned']
      /\ UNCHANGED <<vars, litres, slsv, children, lengthFile>>
  BY DEF MainOpens
<1>2. to \in Labels \ {"join", "create", "open", "read", "exec"} /\ Before
  BY <1>1 DEF Labels, Before
<1> HIDE DEF to
<1>3. /\ tapAt'[Parent] = to
      /\ \A s \in Students : /\ ~Holding(s)' /\ Begun(s)' = Begun(s)
                             /\ tapAt[s] # "writeSpace" /\ tapAt'[s] # "writeSpace"
  BY <1>1, <1>2, MainGoesOn
<1>4. FilesInv' /\ files' = files
  BY <1>1, OpenKeeps, TapAssumption DEF TapInv
<1>5. /\ returned' \in Int
      /\ \A id \in UserIds : openFiles'[id] # NoFile => openFiles[id] # NoFile \/ id = returned'
  BY <1>1, OpenStep, TapAssumption DEF TapInv
<1>6. fileId' \in [{Parent} \cup Students -> Int] /\ fileId'[Parent] = returned'
  BY <1>1, <1>5 DEF TapInv, TapTypes
<1>7. TableInv' /\ TapTypes' /\ TapGuarded'
  BY <1>1, <1>2, <1>4, <1>6, MainStays
<1>8. IdsHeld'
  BY <1>1, <1>2, <1>3, <1>5, <1>6, MainIds, MainHolds
<1>9. Lines'
  BY <1>1, <1>2, <1>3, <1>4, LinesSame
<1>10. QED
  BY <1>4, <1>7, <1>8, <1>9 DEF TapInv


\* Read and Close open nothing.
LEMMA ReadStep ==
  ASSUME FilesInv, NEW id \in Int, NEW count \in Nat, SysRead(count, id), NEW j \in UserIds,
         openFiles'[j] # NoFile
  PROVE  openFiles[j] # NoFile
<1>1. CASE openFiles' = openFiles
  BY <1>1
<1>2. CASE id \in UserIds /\ openFiles[id] # NoFile /\ \E x : openFiles' = [openFiles EXCEPT ![id].offset = x]
  <2>1. j # id => openFiles'[j] = openFiles[j]
    BY <1>2 DEF FilesInv, FilesTypeOK, UserIds
  <2>2. QED
    BY <1>2, <2>1
<1>3. openFiles' = openFiles \/ (id \in UserIds /\ openFiles[id] # NoFile /\ ReadFile(id, count))
  BY DEF SysRead, UserIds, ReturnOnly
<1>4. ReadFile(id, count) =>
        openFiles' = openFiles \/ \E x : openFiles' = [openFiles EXCEPT ![id].offset = x]
  <2> SUFFICES ASSUME ReadFile(id, count), openFiles' # openFiles
               PROVE  \E x : openFiles' = [openFiles EXCEPT ![id].offset = x]
    OBVIOUS
  <2> DEFINE f == openFiles[id]
             left == Len(files[f.name]) - f.offset
             numRead == IF left < count THEN left ELSE count
  <2>1. openFiles' = [openFiles EXCEPT ![id].offset = @ + numRead]
    BY Zenon DEF ReadFile, ReturnOnly
  <2> HIDE DEF numRead
  <2>2. openFiles' = [openFiles EXCEPT ![id].offset = openFiles[id].offset + numRead]
    BY <2>1
  <2>3. QED
    BY <2>2, Zenon
<1>5. QED
  BY <1>1, <1>2, <1>3, <1>4

LEMMA CloseStep ==
  ASSUME FilesInv, NEW id \in Int, SysClose(id), NEW j \in UserIds, openFiles'[j] # NoFile
  PROVE  openFiles[j] # NoFile /\ (j = id => id \notin FileIds)
<1>1. CASE (id \notin FileIds \/ openFiles[id] = NoFile) /\ ReturnOnly(-1)
  BY <1>1 DEF ReturnOnly, UserIds
<1>2. CASE id \in FileIds /\ openFiles' = [openFiles EXCEPT ![id] = NoFile]
  <2>1. openFiles'[j] = IF j = id THEN NoFile ELSE openFiles[j]
    BY <1>2 DEF FilesInv, FilesTypeOK, UserIds
  <2>2. QED
    BY <2>1
<1>3. QED
  BY <1>1, <1>2 DEF SysClose

\* The calls of main.c that open nothing and write nothing
LEMMA MainCallKeeps ==
  ASSUME TapInv, Before, tapAt[Parent] \notin {"create", "open", "createOutput"},
         FilesInv', files' = files, UNCHANGED <<vars, fileId, litres, lengthFile>>,
         \A id \in UserIds : openFiles'[id] # NoFile => openFiles[id] # NoFile,
         NEW to \in Labels \ {"create", "open", "createOutput", "join"}, Goes(Parent, to),
         to \in {"read", "exec"} => tapAt[Parent] \in {"read", "exec"}
  PROVE  TapInv'
<1>1. /\ tapAt'[Parent] = to
      /\ \A s \in Students : /\ ~Holding(s)' /\ Begun(s)' = Begun(s)
                             /\ tapAt[s] # "writeSpace" /\ tapAt'[s] # "writeSpace"
  BY MainGoesOn
<1>2. TableInv' /\ TapTypes' /\ TapGuarded'
  BY MainStays DEF TapInv, TapTypes
<1>3. IdsHeld'
  <2>1. \A id \in UserIds : openFiles'[id] # NoFile => id = fileId'[Parent]
    BY MainHolds
  <2>2. QED
    BY <1>1, <2>1, MainIds
<1>4. Lines'
  <2>1. to \in {"read", "exec"} => files[Output] # NoFile
    BY DEF TapInv, Lines
  <2>2. QED
    BY <1>1, <2>1, LinesSame
<1>5. QED
  BY <1>2, <1>3, <1>4 DEF TapInv

LEMMA MainReadsKeeps == ASSUME TapInv, MainReads PROVE TapInv'
<1> DEFINE to == IF returned' = -3 THEN "exec" ELSE "read"
<1>1. /\ tapAt[Parent] = "read" /\ SysRead(1, fileId[Parent]) /\ Goes(Parent, to)
      /\ UNCHANGED <<vars, fileId, litres, children, lengthFile>>
  BY DEF MainReads
<1>2. to \in Labels \ {"create", "open", "createOutput", "join"} /\ Before
  BY <1>1 DEF Labels, Before
<1>3. fileId[Parent] \in Int
  BY DEF TapInv, TapTypes
<1>4. /\ FilesInv' /\ files' = files
      /\ \A id \in UserIds : openFiles'[id] # NoFile => openFiles[id] # NoFile
  BY <1>1, <1>3, ReadKeeps, ReadStep DEF TapInv
<1> HIDE DEF to
<1>5. QED
  BY <1>1, <1>2, <1>4, MainCallKeeps, Zenon

LEMMA MainClosesKeeps == ASSUME TapInv, MainCloses PROVE TapInv'
<1>1. PICK id \in Int : SysClose(id)
  BY OpenFilesAssumption DEF MainCloses, TapInv, TapTypes
<1>2. /\ FilesInv' /\ files' = files
      /\ \A j \in UserIds : openFiles'[j] # NoFile => openFiles[j] # NoFile
  BY <1>1, CloseKeeps, CloseStep DEF TapInv
<1>3. tapAt[Parent] \in {"closeInput", "closeOutput"} /\ \E to \in {"closeOutput", "halt"} : Goes(Parent, to)
  BY DEF MainCloses
<1>4. PICK to \in {"closeOutput", "halt"} : Goes(Parent, to)
  BY <1>3
<1>5. UNCHANGED <<vars, fileId, litres, lengthFile>>
  BY DEF MainCloses
<1>6. QED
  BY <1>2, <1>3, <1>4, <1>5, MainCallKeeps DEF Before, Labels

LEMMA MainExecsKeeps == ASSUME TapInv, MainExecs PROVE TapInv'
<1>1. /\ tapAt[Parent] = "exec" /\ Before
      /\ UNCHANGED <<vars, fileVars, fileId, litres, slsv, lengthFile>>
  BY DEF MainExecs, Before
<1>2. FilesInv' /\ files' = files /\ openFiles' = openFiles
  BY <1>1, FilesSame DEF TapInv, fileVars
<1>3. CASE Goes(Parent, "closeInput")
  BY <1>1, <1>2, <1>3, MainCallKeeps DEF Labels
<1>4. ASSUME NEW s \in Students, tapAt[s] = "unborn", Goes(s, "wait") PROVE TapInv'
  <2>1. /\ tapAt' \in [{Parent} \cup Students -> Labels] /\ tapAt'[s] = "wait"
        /\ tapAt'[Parent] = "exec" /\ \A r \in Students \ {s} : tapAt'[r] = tapAt[r]
    BY <1>1, <1>4, GoesOn, TapAssumption DEF TapInv, Labels
  <2>2. \A r \in Students : /\ (AtTap(r)' <=> AtTap(r)) /\ (Holding(r)' <=> Holding(r))
                            /\ Begun(r)' = Begun(r)
                            /\ (tapAt'[r] = "writeSpace" <=> tapAt[r] = "writeSpace")
    BY <1>1, <1>4, <2>1 DEF AtTap, Holding, Begun
  <2>3. TableInv'
    BY <1>1, SemsSame DEF TapInv
  <2>4. TapTypes'
    BY <1>1, <2>1 DEF TapInv, TapTypes
  <2>5. TapGuarded'
    BY <1>1, <2>1, <2>2, Zenon DEF TapInv, TapGuarded, Before, vars
  <2>6. IdsHeld'
    <3>1. \A r \in Students : ~Holding(r)'
      BY <1>1, <2>2 DEF TapInv, TapGuarded, AtTap, Holding
    <3>2. QED
      BY <1>1, <1>2, <2>1, <3>1, MainHolds, MainIds
  <2>7. Lines'
    <3>1. files[Output] # NoFile
      BY <1>1 DEF TapInv, Lines
    <3>2. QED
      BY <1>1, <1>2, <2>1, <2>2, <3>1, LinesSame
  <2>8. QED
    BY <1>2, <2>3, <2>4, <2>5, <2>6, <2>7 DEF TapInv
<1>5. QED
  BY <1>3, <1>4 DEF MainExecs, Goes

\* V of the tap's semaphore: its value becomes 1, when no student is at the tap any more.
LEMMA SignalFrees ==
  ASSUME TapInv, NEW p \in Procs, Signal(p, Tap), \A i \in bm : semTab[i].value = 0,
         tapAt'[Parent] = "join", \A s \in Students : ~AtTap(s)'
  PROVE  TapGuarded'
<1>1. PICK i \in bm : /\ bm' = bm /\ semTab' = [semTab EXCEPT ![i].value = semTab[i].value + 1]
                      /\ semTab[i].value + 1 \in Int
  BY SignalStep, TapAssumption DEF TapInv
<1>2. \A j \in bm : /\ semTab'[j].name = semTab[j].name
                    /\ semTab'[j].value = IF j = i THEN semTab[i].value + 1 ELSE semTab[j].value
  <2>1. TableInv
    BY DEF TapInv
  <2>2. QED
    BY <1>1, <2>1, ValueChanges, Zenon
<1>3. \A j \in bm' : semTab'[j].name = Tap /\ semTab'[j].value \in {0, 1}
  BY <1>1, <1>2 DEF TapInv, TapGuarded
<1>4. QED
  BY <1>3 DEF TapGuarded, Before

LEMMA MainSignalsKeeps == ASSUME TapInv, MainSignals PROVE TapInv'
<1>1. /\ tapAt[Parent] = "exec" /\ Before /\ Signal(Parent, Tap) /\ Goes(Parent, "join")
      /\ UNCHANGED <<fileVars, fileId, litres, slsv, children, lengthFile>>
  BY DEF MainSignals, Before
<1>2. /\ tapAt' \in [{Parent} \cup Students -> Labels] /\ tapAt'[Parent] = "join"
      /\ \A s \in Students : /\ ~AtTap(s)' /\ ~Holding(s)' /\ Begun(s)' = Begun(s)
                             /\ tapAt[s] # "writeSpace" /\ tapAt'[s] # "writeSpace"
  BY <1>1, MainGoesOn DEF Labels
<1>3. TableInv'
  BY <1>1, SignalKeeps, TapAssumption DEF TapInv
<1>4. FilesInv' /\ files' = files /\ openFiles' = openFiles
  BY <1>1, FilesSame DEF TapInv, fileVars
<1>5. TapTypes'
  BY <1>1, <1>2 DEF TapInv, TapTypes
<1>6. TapGuarded'
  <2>1. \A i \in bm : semTab[i].value = 0
    BY <1>1 DEF TapInv, TapGuarded
  <2>2. QED
    BY <1>1, <1>2, <2>1, SignalFrees, TapAssumption
<1>7. IdsHeld'
  BY <1>1, <1>2, <1>4, MainHolds, MainIds, Zenon
<1>8. Lines'
  <2>1. files[Output] # NoFile
    BY <1>1 DEF TapInv, Lines
  <2>2. QED
    BY <1>1, <1>2, <1>4, <2>1, LinesSame
<1>9. QED
  BY <1>3, <1>4, <1>5, <1>6, <1>7, <1>8 DEF TapInv

LEMMA MainJoinsKeeps == ASSUME TapInv, MainJoins PROVE TapInv'
<1>1. /\ tapAt[Parent] = "join" /\ Goes(Parent, "halt")
      /\ UNCHANGED <<vars, fileVars, fileId, litres, slsv, children, lengthFile>>
  BY DEF MainJoins
<1>2. /\ tapAt' \in [{Parent} \cup Students -> Labels] /\ tapAt'[Parent] = "halt"
      /\ \A s \in Students : tapAt'[s] = tapAt[s]
  BY <1>1, GoesOn, TapAssumption, Zenon DEF TapInv, Labels
<1>3. \A s \in Students : /\ (AtTap(s)' <=> AtTap(s)) /\ (Holding(s)' <=> Holding(s))
                          /\ Begun(s)' = Begun(s)
  BY <1>1, <1>2 DEF AtTap, Holding, Begun
<1>4. TableInv' /\ FilesInv'
  BY <1>1, SemsSame, FilesSame DEF TapInv
<1>5. TapTypes'
  BY <1>1, <1>2 DEF TapInv, TapTypes
<1>6. TapGuarded'
  BY <1>1, <1>2, <1>3, Zenon DEF TapInv, TapGuarded, Before, vars
<1>7. IdsHeld'
  BY <1>1, <1>2, <1>3, Zenon DEF TapInv, IdsHeld, fileVars
<1>8. Lines'
  BY <1>1, <1>2, <1>3, LinesSame DEF fileVars
<1>9. QED
  BY <1>4, <1>5, <1>6, <1>7, <1>8 DEF TapInv

-----------------------------------------------------------------------------
(* sinhvien.c *)

LEMMA StudentWaitsKeeps ==
  ASSUME TapInv, tapAt[Parent] # "halt", NEW s \in Students, StudentWaits(s)
  PROVE  TapInv'
<1>1. /\ tapAt[s] = "wait" /\ s \in Procs /\ Tap \in Names
      /\ UNCHANGED <<fileVars, fileId, litres, slsv, children, lengthFile>>
  BY TapAssumption DEF StudentWaits
<1>2. FilesInv' /\ files' = files /\ openFiles' = openFiles
  BY <1>1, FilesSame DEF TapInv, fileVars
<1>3. CASE CallWait(s, Tap) /\ tapAt' = tapAt
  <2>1. TableInv'
    BY <1>1, <1>3, CallWaitKeeps DEF TapInv
  <2>2. bm' = bm /\ semTab' = semTab
    BY <1>3 DEF CallWait
  <2>3. TapTypes'
    BY <1>1, <1>3 DEF TapInv, TapTypes
  <2>4. TapGuarded'
    BY <1>3, <2>2 DEF TapInv, TapGuarded, Before, AtTap
  <2>5. IdsHeld'
    BY <1>1, <1>2, <1>3, Zenon DEF TapInv, IdsHeld, Holding
  <2>6. Lines'
    <3>1. \A r \in Students : Begun(r)' = Begun(r)
      BY <1>1, <1>3 DEF Begun
    <3>2. tapAt[Parent] \in {"read", "exec", "join"} => files[Output] # NoFile
      BY DEF TapInv, Lines
    <3>3. QED
      BY <1>1, <1>2, <1>3, <3>1, <3>2, LinesSame
  <2>7. QED
    BY <1>2, <2>1, <2>3, <2>4, <2>5, <2>6 DEF TapInv
<1>4. CASE WaitP(s) /\ Goes(s, "open")
  <2>1. TableInv' /\ TableInv
    BY <1>1, <1>4, WaitPKeeps DEF TapInv
  <2>2. PICK i \in bm : /\ bm' = bm /\ semTab[i].value # 0 /\ semTab[i].value - 1 \in Int
                        /\ semTab' = [semTab EXCEPT ![i].value = semTab[i].value - 1]
    BY <1>1, <1>4, <2>1, WaitPStep, Zenon
  <2>3. tapAt[Parent] = "join" /\ semTab[i].value = 1 /\ \A r \in Students : ~AtTap(r)
    BY <2>2 DEF TapInv, TapGuarded, Before
  <2>4. \A j \in bm : j = i
    BY <2>2 DEF TapInv, TapGuarded, TableInv
  <2>5. \A j \in bm : /\ semTab'[j].name = semTab[j].name
                      /\ semTab'[j].value = IF j = i THEN semTab[i].value - 1 ELSE semTab[j].value
    BY <2>1, <2>2, ValueChanges, Zenon
  <2>6. \A j \in bm' : semTab'[j].name = Tap /\ semTab'[j].value = 0
    BY <2>2, <2>3, <2>4, <2>5 DEF TapInv, TapGuarded
  <2>7. /\ tapAt' \in [{Parent} \cup Students -> Labels] /\ tapAt'[s] = "open"
        /\ tapAt'[Parent] = "join" /\ \A r \in Students \ {s} : tapAt'[r] = tapAt[r]
    BY <1>4, <2>3, GoesOn, TapAssumption, Zenon DEF TapInv, Labels
  <2>8. \A r \in Students : /\ (AtTap(r)' => r = s) /\ ~Holding(r) /\ ~Holding(r)'
                            /\ Begun(r)' = Begun(r)
                            /\ tapAt[r] # "writeSpace" /\ tapAt'[r] # "writeSpace"
    <3>1. \A r \in Students :
            tapAt[r] \notin {"open", "seekEnd", "seek", "writeId", "writeSpace", "close", "signal"}
      BY <2>3 DEF AtTap
    <3>2. QED
      BY <1>1, <2>7, <3>1 DEF AtTap, Holding, Begun
  <2>9. TapTypes'
    BY <1>1, <2>7 DEF TapInv, TapTypes
  <2>10. TapGuarded'
    BY <2>6, <2>7, <2>8 DEF TapGuarded, Before
  <2>11. IdsHeld'
    BY <1>1, <1>2, <2>7, <2>8, Zenon DEF TapInv, IdsHeld
  <2>12. Lines'
    <3>1. files[Output] # NoFile
      BY <2>3 DEF TapInv, Lines
    <3>2. QED
      BY <1>2, <2>7, <2>8, <3>1, LinesSame
  <2>13. QED
    BY <1>2, <2>1, <2>9, <2>10, <2>11, <2>12 DEF TapInv
<1>5. QED
  BY <1>3, <1>4 DEF StudentWaits

\* The student at the tap makes a call on files and stays there.
LEMMA StudentStays ==
  ASSUME TapInv, tapAt[Parent] # "halt", NEW s \in Students, AtTap(s), UNCHANGED <<vars, litres>>,
         NEW to \in Labels, Goes(s, to), to \in {"seekEnd", "seek", "writeId", "writeSpace", "close", "signal"},
         fileId' \in [{Parent} \cup Students -> Int], lengthFile' \in [Students -> Int]
  PROVE  TableInv' /\ TapTypes' /\ TapGuarded'
<1>1. /\ tapAt' \in [{Parent} \cup Students -> Labels] /\ tapAt'[s] = to
      /\ tapAt[Parent] = "join" /\ tapAt'[Parent] = "join"
      /\ \A r \in Students \ {s} : ~AtTap(r)'
  BY StudentGoesOn, Zenon
<1>2. TapTypes'
  BY <1>1 DEF TapInv, TapTypes
<1>3. \A i \in bm : semTab[i].name = Tap /\ semTab[i].value = 0
  BY <1>1 DEF TapInv, TapGuarded
<1>4. TapGuarded'
  BY <1>1, <1>3 DEF TapGuarded, Before, vars
<1>5. QED
  BY <1>2, <1>4, SemsSame DEF TapInv

\* It holds one id, which others do not, and knows where the file ends.
LEMMA StudentIds ==
  ASSUME NEW s \in Students, \A r \in Students \ {s} : ~Holding(r)',
         tapAt'[Parent] = "join",
         \A id \in UserIds : openFiles'[id] # NoFile => id = fileId'[Parent] \/ (Holding(s)' /\ id = fileId'[s]),
         Holding(s)' => /\ fileId'[s] \in UserIds /\ openFiles'[fileId'[s]] # NoFile
                        /\ openFiles'[fileId'[s]].name = Output
                        /\ openFiles'[fileId'[s]].asked = 0
                        /\ tapAt'[s] = "seek" => lengthFile'[s] = Len(files'[Output])
                        /\ tapAt'[s] \in {"writeId", "writeSpace"} =>
                             openFiles'[fileId'[s]].offset = Len(files'[Output])
  PROVE  IdsHeld'
BY DEF IdsHeld

\* While no byte is written
LEMMA StudentLines ==
  ASSUME TapInv, tapAt[Parent] # "halt", NEW s \in Students, AtTap(s), files' = files, litres' = litres,
         NEW to \in Labels, Goes(s, to),
         \/ tapAt[s] \in {"open", "seekEnd", "seek"} /\ to \in {"seekEnd", "seek", "writeId"}
         \/ tapAt[s] = "close" /\ to = "signal"
  PROVE  Lines'
<1>1. /\ tapAt'[s] = to /\ tapAt[Parent] = "join" /\ tapAt'[Parent] = "join"
      /\ \A r \in Students \ {s} : /\ tapAt[r] # "writeSpace" /\ tapAt'[r] # "writeSpace"
                                   /\ Begun(r)' = Begun(r)
  BY StudentGoesOn
<1>2. Begun(s)' = Begun(s) /\ tapAt[s] # "writeSpace" /\ tapAt'[s] # "writeSpace"
  BY <1>1 DEF Begun
<1>3. files[Output] # NoFile
  BY <1>1 DEF TapInv, Lines
<1>4. QED
  BY <1>1, <1>2, <1>3, LinesSame

\* Who else is at the tap when a student makes its call
LEMMA StudentHolds ==
  ASSUME TapInv, tapAt[Parent] # "halt", NEW s \in Students, AtTap(s)
  PROVE  /\ files[Output] # NoFile /\ files[Output] \in Seq(Bytes)
         /\ \A id \in UserIds : openFiles[id] # NoFile =>
              id = fileId[Parent] \/ (Holding(s) /\ id = fileId[s])
<1>1. tapAt[Parent] = "join"
  BY DEF TapInv, TapGuarded, Before
<1>2. files[Output] # NoFile
  BY <1>1 DEF TapInv, Lines
<1>3. files[Output] \in Seq(Bytes)
  BY <1>2, TapAssumption DEF TapInv, FilesInv, FilesTypeOK
<1>4. \A r \in Students : Holding(r) => r = s
  BY DEF TapInv, TapGuarded, AtTap, Holding
<1>5. QED
  BY <1>2, <1>3, <1>4 DEF TapInv, IdsHeld

\* Open does not fail: main.c holds one slot, and there are two.
LEMMA StudentOpensKeeps ==
  ASSUME TapInv, tapAt[Parent] # "halt", NEW s \in Students, StudentOpens(s)
  PROVE  TapInv'
<1>1. /\ tapAt[s] = "open" /\ SysOpen(Output, 0) /\ Goes(s, "seekEnd")
      /\ fileId' = [fileId EXCEPT ![s] = returned']
      /\ UNCHANGED <<vars, litres, slsv, children, lengthFile>>
  BY DEF StudentOpens
<1>2. AtTap(s) /\ ~Holding(s) /\ FilesInv
  BY <1>1 DEF AtTap, Holding, TapInv
<1>3. /\ files[Output] # NoFile
      /\ \A id \in UserIds : openFiles[id] # NoFile => id = fileId[Parent]
  BY <1>2, StudentHolds
<1>4. findFreeSlot # {}
  <2>1. 2 \in UserIds /\ 3 \in UserIds /\ (2 .. 2 - 1 = {}) /\ (2 .. 3 - 1 = {2})
    BY TapAssumption, OpenFilesAssumption DEF UserIds, FileIds
  <2>2. CASE openFiles[2] = NoFile
    BY <2>1, <2>2 DEF findFreeSlot, UserIds
  <2>3. CASE openFiles[2] # NoFile
    <3>1. openFiles[3] = NoFile
      BY <1>3, <2>1, <2>3
    <3>2. QED
      BY <2>1, <2>3, <3>1 DEF findFreeSlot, UserIds
  <2>4. QED
    BY <2>2, <2>3
<1>5. PICK slot \in findFreeSlot : OpenIn(Output, 0, slot)
  BY <1>1, <1>4, TapAssumption, OpenFilesAssumption DEF SysOpen
<1>6. slot \in UserIds /\ slot \in FileIds /\ slot \in Int
  BY OpenFilesAssumption DEF findFreeSlot, UserIds, FileIds
<1>7. returned' = slot /\ openFiles' = [openFiles EXCEPT ![slot] = Opened(Output, 0)]
  BY <1>3, <1>5 DEF OpenIn
<1>8. FilesInv' /\ files' = files
  BY <1>1, <1>2, OpenKeeps, TapAssumption
<1>9. fileId' \in [{Parent} \cup Students -> Int] /\ fileId'[s] = slot /\ fileId'[Parent] = fileId[Parent]
  BY <1>1, <1>6, <1>7, TapAssumption DEF TapInv, TapTypes
<1>10. \A id \in UserIds : openFiles'[id] = IF id = slot THEN Opened(Output, 0) ELSE openFiles[id]
  BY <1>7, <1>2 DEF FilesInv, FilesTypeOK, UserIds
<1>11. Opened(Output, 0) # NoFile /\ Opened(Output, 0).name = Output /\ Opened(Output, 0).asked = 0
  <2>1. Opened(Output, 0) \in OpenFile
    BY TapAssumption DEF Opened, OpenFile
  <2>2. Opened(Output, 0) # NoFile
    BY <2>1, OpenFilesAssumption
  <2>3. QED
    BY <2>2 DEF Opened
<1>12. /\ tapAt'[s] = "seekEnd" /\ tapAt'[Parent] = "join"
       /\ \A r \in Students \ {s} : ~Holding(r)'
  BY <1>1, <1>2, StudentGoesOn, Zenon DEF Labels
<1>13. TableInv' /\ TapTypes' /\ TapGuarded'
  BY <1>1, <1>2, <1>9, StudentStays DEF Labels, TapInv, TapTypes
<1>14. IdsHeld'
  <2>1. Holding(s)'
    BY <1>12 DEF Holding
  <2>2. \A id \in UserIds : openFiles'[id] # NoFile => id = fileId'[Parent] \/ id = fileId'[s]
    BY <1>3, <1>9, <1>10
  <2>3. /\ fileId'[s] \in UserIds /\ openFiles'[fileId'[s]] # NoFile
        /\ openFiles'[fileId'[s]].name = Output /\ openFiles'[fileId'[s]].asked = 0
    BY <1>6, <1>9, <1>10, <1>11
  <2>4. QED
    BY <1>12, <2>1, <2>2, <2>3, StudentIds
<1>15. Lines'
  BY <1>1, <1>2, <1>8, StudentLines DEF Labels
<1>16. QED
  BY <1>8, <1>13, <1>14, <1>15 DEF TapInv
=============================================================================
