---------------------------- MODULE WaterTapProofs ----------------------------
(***************************************************************************)
(* Second part: the steps of sinhvien.c keep TapInv, so that nothing       *)
(* appended to output.txt is lost; and SemTable implements SemDirectory.   *)
(***************************************************************************)
EXTENDS WaterTapSteps

-----------------------------------------------------------------------------
(* The other steps of sinhvien.c, at the tap *)

\* A Seek through the id a student holds, to a place in the file
LEMMA SeekStep ==
  ASSUME FilesInv, NEW id \in UserIds, openFiles[id] # NoFile, openFiles[id].name = Output,
         NEW pos \in Int, pos \in {-1, Len(files[Output])}, files[Output] \in Seq(Bytes), SysSeek(pos, id)
  PROVE  /\ returned' = Len(files[Output]) /\ files' = files
         /\ openFiles' = [openFiles EXCEPT ![id].offset = Len(files[Output])]
<1>1. Len(files[Output]) \in Nat
  OBVIOUS
<1>2. id \in FileIds /\ id \notin {0, 1}
  BY DEF UserIds
<1>3. (IF pos = -1 THEN Len(files[Output]) ELSE pos) = Len(files[Output])
  BY <1>1
<1>4. ~(Len(files[Output]) > Len(files[Output]) \/ Len(files[Output]) < 0)
  BY <1>1
<1>5. QED
  BY <1>2, <1>3, <1>4, Zenon DEF SysSeek

\* The id that a student holds moves to the end of the file.
LEMMA OffsetAtEnd ==
  ASSUME TapInv, tapAt[Parent] # "halt", NEW s \in Students, Holding(s), NEW x \in Nat,
         openFiles' = [openFiles EXCEPT ![fileId[s]].offset = x], UNCHANGED <<fileId, litres>>,
         NEW to \in {"seek", "writeId", "writeSpace", "close"}, Goes(s, to),
         x = Len(files'[Output]), to = "seek" => lengthFile'[s] = Len(files'[Output])
  PROVE  IdsHeld'
<1>1. AtTap(s) /\ FilesInv /\ to \in Labels
  BY DEF Holding, AtTap, TapInv, Labels
<1>2. /\ tapAt'[s] = to /\ tapAt'[Parent] = "join" /\ \A r \in Students \ {s} : ~Holding(r)'
  BY <1>1, StudentGoesOn
<1>3. /\ fileId[s] \in UserIds /\ openFiles[fileId[s]] # NoFile
      /\ openFiles[fileId[s]].name = Output /\ openFiles[fileId[s]].asked = 0
  BY DEF TapInv, IdsHeld
<1>4. /\ \A j \in FileIds : j # fileId[s] => openFiles'[j] = openFiles[j]
      /\ openFiles'[fileId[s]] # NoFile /\ openFiles'[fileId[s]].name = Output
      /\ openFiles'[fileId[s]].asked = 0 /\ openFiles'[fileId[s]].offset = x
  BY <1>1, <1>3, OffsetMoves, Zenon
<1>5. \A id \in UserIds : openFiles'[id] # NoFile => id = fileId[Parent] \/ id = fileId[s]
  BY <1>1, <1>4, StudentHolds DEF UserIds
<1>6. Holding(s)'
  BY <1>2 DEF Holding
<1>7. QED
  BY <1>2, <1>3, <1>4, <1>5, <1>6, StudentIds

LEMMA StudentSeeksKeeps ==
  ASSUME TapInv, tapAt[Parent] # "halt", NEW s \in Students, StudentSeeks(s)
  PROVE  TapInv'
<1> DEFINE length == Len(files[Output])
<1>1. /\ tapAt[s] \in {"seekEnd", "seek"} /\ UNCHANGED <<vars, fileId, litres, slsv, children>>
      /\ \/ tapAt[s] = "seekEnd" /\ SysSeek(-1, fileId[s]) /\ Goes(s, "seek")
             /\ lengthFile' = [lengthFile EXCEPT ![s] = returned']
         \/ tapAt[s] = "seek" /\ SysSeek(lengthFile[s], fileId[s]) /\ Goes(s, "writeId")
             /\ lengthFile' = lengthFile
  BY DEF StudentSeeks
<1>2. PICK to \in {"seek", "writeId"} : Goes(s, to)
  BY <1>1
<1>3. PICK pos \in Int : /\ SysSeek(pos, fileId[s])
                         /\ tapAt[s] = "seekEnd" => pos = -1
                         /\ tapAt[s] = "seek" => pos = lengthFile[s]
  BY <1>1 DEF TapInv, TapTypes
<1>4. AtTap(s) /\ Holding(s) /\ FilesInv /\ to \in Labels
  BY <1>1, <1>2 DEF AtTap, Holding, TapInv, Labels
<1>5. files[Output] \in Seq(Bytes) /\ length \in Nat
  BY <1>4, StudentHolds
<1>6. /\ fileId[s] \in UserIds /\ openFiles[fileId[s]] # NoFile
      /\ openFiles[fileId[s]].name = Output
      /\ tapAt[s] = "seek" => lengthFile[s] = length
  BY <1>4 DEF TapInv, IdsHeld
<1>7. /\ returned' = length /\ files' = files
      /\ openFiles' = [openFiles EXCEPT ![fileId[s]].offset = length]
  BY <1>1, <1>3, <1>4, <1>5, <1>6, SeekStep
<1>8. FilesInv'
  <2>1. fileId[s] \in Int
    BY DEF TapInv, TapTypes
  <2>2. QED
    BY <1>3, <1>4, <2>1, SeekKeeps
<1>9. tapAt'[s] = to
  BY <1>2, <1>4, GoesOn DEF TapInv
<1>10. to = "seek" => lengthFile' = [lengthFile EXCEPT ![s] = returned']
  <2>1. tapAt[s] = "seek" => Goes(s, "writeId")
    BY <1>1
  <2>2. tapAt[s] = "seek" => tapAt'[s] = "writeId"
    BY <2>1, GoesOn DEF TapInv, Labels
  <2>3. QED
    BY <1>1, <1>9, <2>2
<1>11. lengthFile' \in [Students -> Int] /\ (to = "seek" => lengthFile'[s] = length)
  BY <1>1, <1>5, <1>7, <1>10 DEF TapInv, TapTypes
<1>12. TableInv' /\ TapTypes' /\ TapGuarded'
  BY <1>1, <1>2, <1>4, <1>11, StudentStays DEF TapInv, TapTypes
<1>13. IdsHeld'
  BY <1>1, <1>2, <1>4, <1>5, <1>7, <1>11, OffsetAtEnd, Zenon
<1>14. Lines'
  BY <1>1, <1>2, <1>4, <1>7, StudentLines
<1>15. QED
  BY <1>8, <1>12, <1>13, <1>14 DEF TapInv

LEMMA StudentClosesKeeps ==
  ASSUME TapInv, tapAt[Parent] # "halt", NEW s \in Students, StudentCloses(s)
  PROVE  TapInv'
<1>1. /\ tapAt[s] = "close" /\ SysClose(fileId[s]) /\ Goes(s, "signal")
      /\ UNCHANGED <<vars, fileId, litres, slsv, children, lengthFile>>
  BY DEF StudentCloses
<1>2. AtTap(s) /\ Holding(s) /\ FilesInv /\ fileId[s] \in Int
  BY <1>1 DEF AtTap, Holding, TapInv, TapTypes
<1>3. FilesInv' /\ files' = files
  BY <1>1, <1>2, CloseKeeps
<1>4. fileId[s] \in FileIds
  BY <1>2 DEF TapInv, IdsHeld, UserIds
<1>5. \A id \in UserIds : openFiles'[id] # NoFile => openFiles[id] # NoFile /\ id # fileId[s]
  BY <1>1, <1>2, <1>4, CloseStep, Zenon
<1>6. /\ tapAt'[s] = "signal" /\ tapAt'[Parent] = "join" /\ \A r \in Students \ {s} : ~Holding(r)'
  BY <1>1, <1>2, StudentGoesOn DEF Labels
<1>7. TableInv' /\ TapTypes' /\ TapGuarded'
  BY <1>1, <1>2, StudentStays DEF Labels, TapInv, TapTypes
<1>8. IdsHeld'
  <2>1. ~Holding(s)'
    BY <1>6 DEF Holding
  <2>2. \A id \in UserIds : openFiles'[id] # NoFile => id = fileId'[Parent]
    BY <1>1, <1>2, <1>5, StudentHolds, Zenon
  <2>3. QED
    BY <1>6, <2>1, <2>2, StudentIds, Zenon
<1>9. Lines'
  BY <1>1, <1>2, <1>3, StudentLines, Zenon DEF Labels
<1>10. QED
  BY <1>3, <1>7, <1>8, <1>9 DEF TapInv

LEMMA StudentSignalsKeeps ==
  ASSUME TapInv, tapAt[Parent] # "halt", NEW s \in Students, StudentSignals(s)
  PROVE  TapInv'
<1> DEFINE to == IF litres'[s] = Volume THEN "exited" ELSE "wait"
<1>1. /\ tapAt[s] = "signal" /\ Signal(s, Tap) /\ Goes(s, to)
      /\ litres' = [litres EXCEPT ![s] = @ + 1]
      /\ UNCHANGED <<fileVars, fileId, slsv, children, lengthFile>>
  BY DEF StudentSignals
<1>2. AtTap(s) /\ ~Holding(s) /\ to \in Labels /\ to \in {"exited", "wait"} /\ s \in Procs
  BY <1>1, TapAssumption DEF AtTap, Holding, Labels
<1> HIDE DEF to
<1>3. FilesInv' /\ files' = files /\ openFiles' = openFiles
  BY <1>1, FilesSame DEF TapInv, fileVars
<1>4. litres' \in [Students -> Nat] /\ litres'[s] = litres[s] + 1 /\ litres[s] \in Nat
      /\ \A r \in Students \ {s} : litres'[r] = litres[r]
  BY <1>1 DEF TapInv, TapTypes
<1>5. /\ tapAt' \in [{Parent} \cup Students -> Labels] /\ tapAt'[s] = to
      /\ tapAt[Parent] = "join" /\ tapAt'[Parent] = "join"
      /\ \A r \in Students \ {s} : /\ ~AtTap(r)' /\ ~Holding(r)' /\ Begun(r)' = Begun(r)
                                   /\ tapAt[r] # "writeSpace" /\ tapAt'[r] # "writeSpace"
  BY <1>1, <1>2, <1>4, StudentGoesOn
<1>6. TableInv'
  BY <1>1, <1>2, SignalKeeps, TapAssumption DEF TapInv
<1>7. TapTypes'
  BY <1>1, <1>4, <1>5 DEF TapInv, TapTypes
<1>8. /\ ~AtTap(s)' /\ ~Holding(s)' /\ Begun(s)' = Begun(s)
      /\ tapAt[s] # "writeSpace" /\ tapAt'[s] # "writeSpace"
  BY <1>1, <1>2, <1>4, <1>5 DEF AtTap, Holding, Begun
<1>9. TapGuarded'
  <2>1. \A i \in bm : semTab[i].value = 0
    BY <1>2, <1>5, Zenon DEF TapInv, TapGuarded
  <2>2. \A r \in Students : ~AtTap(r)'
    BY <1>5, <1>8
  <2>3. QED
    BY <1>1, <1>2, <1>5, <2>1, <2>2, SignalFrees, Zenon
<1>10. IdsHeld'
  <2>1. \A id \in UserIds : openFiles'[id] # NoFile => id = fileId'[Parent]
    BY <1>1, <1>2, <1>3, StudentHolds
  <2>2. QED
    BY <1>5, <1>8, <2>1, StudentIds
<1>11. Lines'
  <2>1. files[Output] # NoFile
    BY <1>2, StudentHolds
  <2>2. \A r \in Students : Begun(r)' = Begun(r) /\ tapAt[r] # "writeSpace" /\ tapAt'[r] # "writeSpace"
    BY <1>5, <1>8
  <2>3. QED
    BY <1>3, <1>5, <2>1, <2>2, LinesSame
<1>12. QED
  BY <1>3, <1>6, <1>7, <1>9, <1>10, <1>11 DEF TapInv

\* One byte more at the end of a file
LEMMA OneMore ==
  ASSUME NEW out \in Seq(Bytes), NEW byte \in Bytes, NEW new, new = Written(out, Len(out), <<byte>>)
  PROVE  /\ new \in Seq(Bytes) /\ Len(new) = Len(out) + 1 /\ new[Len(out) + 1] = byte
         /\ \A k \in 1 .. Len(out) : new[k] = out[k]
<1>1. <<byte>> \in Seq(Bytes) /\ Len(<<byte>>) = 1 /\ Len(out) \in Nat /\ <<byte>>[1] = byte
  OBVIOUS
<1> DEFINE bytes == <<byte>>
<1>2. bytes \in Seq(Bytes) /\ Len(bytes) = 1 /\ bytes[1] = byte /\ new = Written(out, Len(out), bytes)
  BY <1>1
<1> HIDE DEF bytes
<1>3. /\ new \in Seq(Bytes)
      /\ Len(new) = IF Len(out) + 1 > Len(out) THEN Len(out) + 1 ELSE Len(out)
      /\ \A k \in 1 .. Len(out) : k \notin Len(out) + 1 .. Len(out) + 1 => new[k] = out[k]
      /\ \A k \in 1 .. 1 : new[Len(out) + k] = bytes[k]
  <2> DEFINE w == Written(out, Len(out), bytes)
  <2>1. /\ w \in Seq(Bytes)
        /\ Len(w) = IF Len(out) + Len(bytes) > Len(out) THEN Len(out) + Len(bytes) ELSE Len(out)
        /\ \A k \in 1 .. Len(out) : k \notin Len(out) + 1 .. Len(out) + Len(bytes) => w[k] = out[k]
        /\ \A k \in 1 .. Len(bytes) : w[Len(out) + k] = bytes[k]
    BY <1>1, <1>2, WrittenBytes, Zenon
  <2>2. new = w
    BY <1>2
  <2> HIDE DEF w
  <2>3. QED
    BY <1>2, <2>1, <2>2, Zenon
<1>4. new[Len(out) + 1] = byte
  BY <1>2, <1>3
<1>5. Len(new) = Len(out) + 1 /\ \A k \in 1 .. Len(out) : new[k] = out[k]
  BY <1>1, <1>3
<1>6. QED
  BY <1>3, <1>4, <1>5

\* A Write of one byte by the student at the tap goes to the end of output.txt.
LEMMA WriteStep ==
  ASSUME TapInv, tapAt[Parent] # "halt", NEW s \in Students,
         tapAt[s] \in {"writeId", "writeSpace"}, NEW byte \in Bytes, SysWrite(<<byte>>, fileId[s])
  PROVE  /\ FilesInv' /\ files[Output] \in Seq(Bytes) /\ files'[Output] \in Seq(Bytes)
         /\ Len(files'[Output]) = Len(files[Output]) + 1
         /\ files'[Output][Len(files[Output]) + 1] = byte
         /\ \A k \in 1 .. Len(files[Output]) : files'[Output][k] = files[Output][k]
         /\ openFiles' = [openFiles EXCEPT ![fileId[s]].offset = Len(files[Output]) + 1]
<1>1. AtTap(s) /\ Holding(s) /\ FilesInv
  BY DEF AtTap, Holding, TapInv
<1>2. files[Output] \in Seq(Bytes)
  BY <1>1, StudentHolds
<1>3. /\ fileId[s] \in UserIds /\ openFiles[fileId[s]] # NoFile
      /\ openFiles[fileId[s]].name = Output /\ openFiles[fileId[s]].asked = 0
      /\ openFiles[fileId[s]].offset = Len(files[Output])
  BY <1>1 DEF TapInv, IdsHeld
<1>4. type[fileId[s]] = 0
  BY <1>1, <1>3, OpenId
<1>5. WriteFile(fileId[s], <<byte>>)
  BY <1>3, <1>4 DEF SysWrite, UserIds
<1> DEFINE bytes == <<byte>>
<1>6. bytes \in Seq(Bytes) /\ Len(bytes) = 1
  OBVIOUS
<1>7. /\ FilesInv'
      /\ files'[Output] = Written(files[Output], Len(files[Output]), bytes)
      /\ openFiles' = [openFiles EXCEPT ![fileId[s]].offset = Len(files[Output]) + 1]
  <2> DEFINE f == openFiles[fileId[s]]
  <2> HIDE DEF bytes
  <2>1. /\ FilesInv'
        /\ files'[f.name] = Written(files[f.name], f.offset, bytes)
        /\ openFiles' = [openFiles EXCEPT ![fileId[s]].offset = f.offset + Len(bytes)]
    BY <1>1, <1>3, <1>5, <1>6, WriteFileStep, Zenon DEF bytes
  <2>2. QED
    BY <1>3, <1>6, <2>1, Zenon
<1>8. /\ files'[Output] \in Seq(Bytes)
      /\ Len(files'[Output]) = Len(files[Output]) + 1
      /\ files'[Output][Len(files[Output]) + 1] = byte
      /\ \A k \in 1 .. Len(files[Output]) : files'[Output][k] = files[Output][k]
  <2> DEFINE out == files[Output]
             new == files'[Output]
  <2>1. out \in Seq(Bytes) /\ new = Written(out, Len(out), <<byte>>)
    BY <1>2, <1>7, Zenon
  <2> HIDE DEF out, new
  <2>2. /\ new \in Seq(Bytes) /\ Len(new) = Len(out) + 1 /\ new[Len(out) + 1] = byte
        /\ \A k \in 1 .. Len(out) : new[k] = out[k]
    BY <2>1, OneMore
  <2>3. QED
    BY <2>2, Zenon DEF out, new
<1>9. QED
  BY <1>2, <1>7, <1>8

LEMMA Parity ==
  ASSUME NEW n \in Nat
  PROVE  /\ n % 2 = 0 <=> n % 2 # 1
         /\ (n % 2 = 0 <=> (n + 1) % 2 = 1) /\ (n % 2 = 1 <=> (n + 1) % 2 = 0)
OBVIOUS

LEMMA TapInitInv ==
  ASSUME NEW inputs \in SUBSET Seq(Bytes), TapInit(inputs)
  PROVE  TapInv
<1>1. PICK input \in Seq(Bytes) :
        FilesInit([n \in FileNames |-> IF n = Input THEN input ELSE NoFile])
  BY DEF TapInit
<1> DEFINE contents == [n \in FileNames |-> IF n = Input THEN input ELSE NoFile]
<1>2. contents \in [FileNames -> Seq(Bytes) \cup {NoFile}] /\ contents[Output] = NoFile
  BY TapAssumption
<1> HIDE DEF contents
<1>3. FilesInit(contents)
  BY <1>1 DEF contents
<1>4. FilesInv /\ \A id \in UserIds : openFiles[id] = NoFile
  BY <1>2, <1>3, FilesInitInv, Zenon
<1>5. files[Output] = NoFile
  BY <1>2, <1>3 DEF FilesInit
<1>6. /\ bm = {} /\ TableInv
  BY InitTable DEF TapInit, Init
<1>7. /\ tapAt[Parent] = "create" /\ \A s \in Students : tapAt[s] = "unborn" /\ litres[s] = 0
  BY TapAssumption DEF TapInit
<1>8. TapTypes
  BY DEF TapInit, TapTypes, Labels
<1>9. TapGuarded
  BY <1>6, <1>7 DEF TapGuarded, AtTap
<1>10. IdsHeld
  BY <1>4, <1>7 DEF IdsHeld, Holding
<1>11. Lines
  BY <1>5, <1>7 DEF Lines
<1>12. QED
  BY <1>4, <1>6, <1>8, <1>9, <1>10, <1>11 DEF TapInv

-----------------------------------------------------------------------------
(* The refinement of SemDirectory: P and V *)

\* Both halves of the directory are functions.
LEMMA DirectoryFunctions ==
  /\ Units = [n \in Names |-> Units[n]] /\ Units' = [n \in Names |-> Units'[n]]
  /\ WaitsFor = [p \in Procs |-> WaitsFor[p]] /\ WaitsFor' = [p \in Procs |-> WaitsFor'[p]]
BY DEF Units, WaitsFor

\* A change of the value in a slot is a change of the units of its name.
LEMMA ValueMaps ==
  ASSUME TableInv, TableInv', NEW i \in bm, NEW x \in Int, bm' = bm,
         semTab' = [semTab EXCEPT ![i].value = x]
  PROVE  /\ Units' = [Units EXCEPT ![semTab[i].name] = x]
         /\ \A j \in bm : semTab'[j].name = semTab[j].name
<1>1. \A j \in bm : /\ semTab'[j].name = semTab[j].name
                    /\ semTab'[j].value = IF j = i THEN x ELSE semTab[j].value
  BY ValueChanges, Zenon
<1>2. \A j \in Slots : semTab'[j] # NULL <=> semTab[j] # NULL
  BY ValueChanges DEF TableInv
<1>3. \A m \in Names : Held(m)' = Held(m)
  BY <1>1, <1>2 DEF Held, TableInv
<1>4. \A m \in Names : Units'[m] = IF m = semTab[i].name THEN x ELSE Units[m]
  <2> SUFFICES ASSUME NEW m \in Names
               PROVE  Units'[m] = IF m = semTab[i].name THEN x ELSE Units[m]
    OBVIOUS
  <2>1. ASSUME NEW j \in bm, semTab[j].name = m
        PROVE  Units'[m] = IF m = semTab[i].name THEN x ELSE Units[m]
    <3>1. Held(m)' = {j} /\ Units[m] = semTab[j].value
      BY <1>3, <2>1, MarkedSlot
    <3>2. (CHOOSE k \in {j} : TRUE) = j
      OBVIOUS
    <3>3. Units'[m] = semTab'[j].value
      BY <3>1, <3>2 DEF Units
    <3>4. m = semTab[i].name <=> j = i
      BY <2>1 DEF TableInv
    <3>5. QED
      BY <1>1, <3>1, <3>3, <3>4
  <2>2. CASE \A j \in bm : semTab[j].name # m
    <3>1. Held(m)' = {} /\ Units[m] = NULL
      BY <1>3, <2>2, UnheldName
    <3>2. QED
      BY <2>2, <3>1 DEF Units
  <2>3. QED
    BY <2>1, <2>2
<1>5. semTab[i].name \in Names
  BY MarkedSlot
<1>6. QED
  BY <1>1, <1>4, <1>5, DirectoryFunctions

LEMMA WaitPImplements ==
  ASSUME TableInv, TableInv', NEW p \in Procs, WaitP(p)
  PROVE  Directory!FinishWait(p)
<1> DEFINE i == waiting[p]
           x == semTab[i].value - 1
<1>1. /\ i \in bm /\ x \in Int /\ bm' = bm /\ semTab[i].value # 0
      /\ semTab' = [semTab EXCEPT ![i].value = x]
      /\ waiting' = [waiting EXCEPT ![p] = NULL]
  BY WaitPStep
<1>2. WaitsFor[p] = semTab[i].name /\ WaitsFor[p] # NULL
  <2>1. waiting[p] # NULL
    BY DEF WaitP
  <2>2. semTab[i].name \in Names
    BY <1>1, MarkedSlot
  <2>3. QED
    BY <2>1, <2>2, SemTableAssumption DEF WaitsFor
<1>3. Units[semTab[i].name] = semTab[i].value
  BY <1>1, MarkedSlot
<1> HIDE DEF x
<1>4. /\ Units' = [Units EXCEPT ![semTab[i].name] = x]
      /\ \A j \in bm : semTab'[j].name = semTab[j].name
  BY <1>1, ValueMaps, Zenon
<1>5. WaitsFor' = [WaitsFor EXCEPT ![p] = NULL]
  <2>1. \A q \in Procs : waiting'[q] = IF q = p THEN NULL ELSE waiting[q]
    BY <1>1 DEF TableInv, TypeOK
  <2>2. \A q \in Procs : waiting[q] # NULL => semTab'[waiting[q]].name = semTab[waiting[q]].name
    BY <1>4 DEF TableInv
  <2>3. QED
    BY <2>1, <2>2, Zenon DEF WaitsFor
<1>6. Units' = [Units EXCEPT ![WaitsFor[p]] = @ - 1]
  <2>1. x = Units[WaitsFor[p]] - 1
    BY <1>2, <1>3 DEF x
  <2>2. QED
    BY <1>2, <1>4, <2>1
<1>7. Units[WaitsFor[p]] # 0
  BY <1>1, <1>2, <1>3
<1>8. QED
  BY <1>2, <1>5, <1>6, <1>7, Zenon DEF Directory!FinishWait, Units, WaitsFor

LEMMA SignalImplements ==
  ASSUME TableInv, TableInv', NEW p \in Procs, NEW n \in Names, Signal(p, n)
  PROVE  Directory!Signal(n)
<1>1. PICK i \in bm : /\ semTab[i].name = n /\ bm' = bm
                      /\ semTab[i].value + 1 \in Int
                      /\ semTab' = [semTab EXCEPT ![i].value = semTab[i].value + 1]
                      /\ waiting' = waiting
  BY SignalStep
<1>2. Units[n] = semTab[i].value /\ Units[n] # NULL
  BY <1>1, MarkedSlot, MadeNames
<1>3. /\ Units' = [Units EXCEPT ![n] = semTab[i].value + 1]
      /\ \A j \in bm : semTab'[j].name = semTab[j].name
  BY <1>1, ValueMaps, Zenon
<1>4. Units' = [Units EXCEPT ![n] = @ + 1]
  BY <1>2, <1>3
<1>5. WaitsFor' = WaitsFor
  BY <1>1, <1>3 DEF WaitsFor, TableInv
<1>6. QED
  BY <1>2, <1>4, <1>5, Zenon DEF Directory!Signal, Directory!Made, Units, WaitsFor

LEMMA CallWaitImplements ==
  ASSUME TableInv, NEW p \in Procs, NEW n \in Names, CallWait(p, n)
  PROVE  Directory!StartWait(p, n)
<1>1. PICK i \in bm : i \in Slots /\ semTab[i].name = n /\ waiting' = [waiting EXCEPT ![p] = i]
  BY Zenon DEF CallWait, IsFirst, Found
<1>2. waiting[p] = NULL /\ UNCHANGED <<bm, semTab>>
  BY DEF CallWait
<1>3. WaitsFor[p] = NULL /\ Units[n] # NULL
  BY <1>1, <1>2, MadeNames, Zenon DEF WaitsFor
<1>4. \A q \in Procs : waiting'[q] = IF q = p THEN i ELSE waiting[q]
  BY <1>1 DEF TableInv, TypeOK
<1>5. WaitsFor' = [WaitsFor EXCEPT ![p] = n]
  <2>1. \A q \in Procs : WaitsFor'[q] = IF q = p THEN n ELSE WaitsFor[q]
    BY <1>1, <1>2, <1>4, SlotsAreNumbers DEF WaitsFor
  <2>2. QED
    BY <2>1, DirectoryFunctions
<1>6. Units' = Units
  BY <1>2 DEF Units, Held
<1>7. QED
  BY <1>3, <1>5, <1>6, Zenon DEF Directory!StartWait, Directory!Made, Units, WaitsFor

-----------------------------------------------------------------------------
(* Counting, by the theorems about finite sets *)

\* The library's theorems about finite sets
Finite == INSTANCE FiniteSetTheorems

\* Cardinality and IsFiniteSet are those of the library.
LEMMA SameCount ==
  \A S : /\ Cardinality(S) = Finite!Cardinality(S)
         /\ IsFiniteSet(S) <=> Finite!IsFiniteSet(S)
<1>1. \A S : IsFiniteSet(S) <=> Finite!IsFiniteSet(S)
  BY Zenon DEF IsFiniteSet, Finite!IsFiniteSet
<1>2. \A S : Cardinality(S) = Finite!Cardinality(S)
  BY Zenon DEF Cardinality, Finite!Cardinality
<1>3. QED
  BY <1>1, <1>2, Zenon

\* The empty set
LEMMA CountNone == IsFiniteSet({}) /\ Cardinality({}) = 0
BY SameCount, Finite!FS_EmptySet, Zenon

\* One element more
LEMMA CountOneMore ==
  ASSUME NEW S, NEW x, IsFiniteSet(S), x \notin S
  PROVE  IsFiniteSet(S \cup {x}) /\ Cardinality(S \cup {x}) = Cardinality(S) + 1
BY SameCount, Finite!FS_AddElement, Zenon

\* A part of a finite set
LEMMA CountPart ==
  ASSUME NEW S, IsFiniteSet(S), NEW T \in SUBSET S
  PROVE  /\ IsFiniteSet(T) /\ Cardinality(T) \in Nat
         /\ Cardinality(T) <= Cardinality(S)
         /\ Cardinality(S) = Cardinality(T) => S = T
BY SameCount, Finite!FS_Subset, Finite!FS_CardinalityType, Zenon

\* The image of a finite set
LEMMA CountImage ==
  ASSUME NEW S, IsFiniteSet(S), NEW T, NEW f \in [S -> T], \A y \in T : \E x \in S : f[x] = y
  PROVE  IsFiniteSet(T) /\ Cardinality(T) <= Cardinality(S)
<1>1. f \in Finite!Surjection(S, T)
  BY Zenon DEF Finite!Surjection
<1>2. QED
  BY <1>1, SameCount, Finite!FS_Surjection, Zenon

\* An interval
LEMMA CountInterval ==
  ASSUME NEW a \in Int, NEW b \in Int
  PROVE  IsFiniteSet(a .. b) /\ Cardinality(a .. b) = IF a > b THEN 0 ELSE b - a + 1
BY SameCount, Finite!FS_Interval, Zenon

\* and what it adds to the visits of a student
LEMMA VisitAdds ==
  ASSUME NEW out \in Seq(Bytes), NEW new \in Seq(Bytes), NEW byte \in Bytes, NEW r,
         Len(new) = Len(out) + 1, new[Len(out) + 1] = byte,
         \A k \in 1 .. Len(out) : new[k] = out[k]
  PROVE  Cardinality(Visits(new, r)) = Cardinality(Visits(out, r)) + (IF r = byte THEN 1 ELSE 0)
<1>1. Len(out) \in Nat
  OBVIOUS
<1>2. IsFiniteSet(1 .. Len(out))
  BY <1>1, CountInterval
<1>3. IsFiniteSet(Visits(out, r))
  BY <1>2, CountPart DEF Visits
<1>4. Cardinality(Visits(out, r)) \in Nat
  BY <1>3, CountPart
<1>5. CASE r = byte
  <2>1. Visits(new, r) = Visits(out, r) \cup {Len(out) + 1}
    BY <1>1, <1>5 DEF Visits
  <2>2. Len(out) + 1 \notin Visits(out, r)
    BY <1>1 DEF Visits
  <2>3. Cardinality(Visits(new, r)) = Cardinality(Visits(out, r)) + 1
    BY <1>3, <2>1, <2>2, CountOneMore, Zenon
  <2>4. QED
    BY <1>5, <2>3
<1>6. CASE r # byte
  <2>1. Visits(new, r) = Visits(out, r)
    BY <1>1, <1>6 DEF Visits
  <2>2. QED
    BY <1>4, <1>6, <2>1
<1>7. QED
  BY <1>5, <1>6

LEMMA MainCreatesOutputKeeps == ASSUME TapInv, MainCreatesOutput PROVE TapInv'
<1> DEFINE to == IF returned' = -1 THEN "halt" ELSE "read"
<1>1. /\ tapAt[Parent] = "createOutput" /\ SysCreateFile(Output) /\ Goes(Parent, to)
      /\ UNCHANGED <<vars, fileId, litres, slsv, children, lengthFile>>
  BY DEF MainCreatesOutput
<1>2. to \in Labels \ {"join", "create", "open", "createOutput", "exec"} /\ Before
  BY <1>1 DEF Labels, Before
<1>3. returned' # -1 => /\ files' = [files EXCEPT ![Output] = <<>>]
                        /\ UNCHANGED <<openFiles, type, buffer>>
  BY <1>1 DEF SysCreateFile, ReturnOnly
<1>4. to = "read" => returned' # -1
  OBVIOUS
<1> HIDE DEF to
<1>5. /\ tapAt'[Parent] = to
      /\ \A s \in Students : /\ ~Holding(s)' /\ ~AtTap(s)' /\ Begun(s)' = Begun(s)
                             /\ tapAt[s] # "writeSpace" /\ tapAt'[s] # "writeSpace"
  BY <1>1, <1>2, MainGoesOn
<1>6. FilesInv' /\ openFiles' = openFiles
  BY <1>1, CreateFileKeeps, TapAssumption DEF TapInv, SysCreateFile, ReturnOnly
<1>7. TableInv' /\ TapTypes' /\ TapGuarded'
  BY <1>1, <1>2, <1>6, MainStays DEF TapInv, TapTypes
<1>8. IdsHeld'
  BY <1>1, <1>2, <1>5, <1>6, MainIds, MainHolds, Zenon
<1>9. CASE files' = files
  <2>1. to # "read" \/ files[Output] # NoFile
    <3>1. CASE to = "read"
      <4>1. files'[Output] = <<>>
        BY <1>3, <1>4, <3>1, TapAssumption DEF TapInv, FilesInv, FilesTypeOK
      <4>2. <<>> \in Seq(Bytes)
        OBVIOUS
      <4>3. QED
        BY <1>9, <4>1, <4>2, OpenFilesAssumption, Zenon
    <3>2. QED
      BY <3>1
  <2>2. Lines'
    BY <1>1, <1>2, <1>5, <1>9, <2>1, LinesSame
  <2>3. QED
    BY <1>6, <1>7, <1>8, <2>2 DEF TapInv
<1>10. CASE files' = [files EXCEPT ![Output] = <<>>]
  <2>1. files'[Output] = <<>>
    BY <1>10, TapAssumption DEF TapInv, FilesInv, FilesTypeOK
  <2>2. <<>> # NoFile
    <3>1. <<>> \in Seq(Bytes)
      OBVIOUS
    <3>2. QED
      BY <3>1, OpenFilesAssumption, Zenon
  <2>3. \A s \in Students : Begun(s)' = 0
    <3>1. \A s \in Students : litres'[s] = 0
      BY <1>1 DEF TapInv, Lines
    <3>2. \A s \in Students : tapAt'[s] \notin {"writeSpace", "close", "signal"}
      BY <1>5 DEF AtTap
    <3>3. QED
      BY <3>1, <3>2 DEF Begun
  <2>4. \A s \in Students : Visits(files[Output], s)' = {}
    BY <2>1 DEF Visits
  <2>5. Cardinality({}) = 0
    BY CountNone
  <2>6. OutputKept'
    <3>1. Len(files'[Output]) = 0
      BY <2>1
    <3>2. \A s \in Students : Cardinality(Visits(files[Output], s))' = Begun(s)'
      BY <2>3, <2>4, <2>5
    <3>3. QED
      BY <1>5, <3>1, <3>2 DEF OutputKept
  <2>7. Lines'
    BY <1>2, <1>5, <2>1, <2>2, <2>6 DEF Lines
  <2>8. QED
    BY <1>6, <1>7, <1>8, <2>7 DEF TapInv
<1>11. QED
  BY <1>1, <1>9, <1>10 DEF SysCreateFile, ReturnOnly
LEMMA StudentWritesKeeps ==
  ASSUME TapInv, tapAt[Parent] # "halt", NEW s \in Students, StudentWrites(s)
  PROVE  TapInv'
<1>1. /\ tapAt[s] \in {"writeId", "writeSpace"}
      /\ UNCHANGED <<vars, fileId, litres, slsv, children, lengthFile>>
      /\ \/ tapAt[s] = "writeId" /\ SysWrite(<<s>>, fileId[s]) /\ Goes(s, "writeSpace")
         \/ tapAt[s] = "writeSpace" /\ SysWrite(<<Space>>, fileId[s]) /\ Goes(s, "close")
  BY DEF StudentWrites
<1> DEFINE to == IF tapAt[s] = "writeId" THEN "writeSpace" ELSE "close"
           byte == IF tapAt[s] = "writeId" THEN s ELSE Space
           out == files[Output]
           new == files'[Output]
<1>2. Goes(s, to) /\ SysWrite(<<byte>>, fileId[s]) /\ byte \in Bytes
  BY <1>1, TapAssumption
<1>3. AtTap(s) /\ Holding(s) /\ to \in Labels /\ to \in {"writeSpace", "close"}
  BY <1>1 DEF AtTap, Holding, Labels
<1>4. (byte = s) <=> (tapAt[s] = "writeId")
  BY TapAssumption
<1>5. (byte = Space) <=> (tapAt[s] = "writeSpace")
  BY <1>1, TapAssumption
<1>6. (to = "writeSpace") <=> (tapAt[s] = "writeId")
  OBVIOUS
<1>7. byte \in {s, Space}
  OBVIOUS
<1> HIDE DEF to, byte
<1>8. /\ FilesInv' /\ out \in Seq(Bytes) /\ new \in Seq(Bytes)
      /\ Len(new) = Len(out) + 1 /\ new[Len(out) + 1] = byte
      /\ \A k \in 1 .. Len(out) : new[k] = out[k]
      /\ openFiles' = [openFiles EXCEPT ![fileId[s]].offset = Len(out) + 1]
  BY <1>1, <1>2, WriteStep
<1>9. /\ tapAt'[s] = to /\ tapAt[Parent] = "join" /\ tapAt'[Parent] = "join"
      /\ \A r \in Students \ {s} : /\ tapAt[r] # "writeSpace" /\ tapAt'[r] # "writeSpace"
                                   /\ Begun(r)' = Begun(r)
  BY <1>1, <1>2, <1>3, StudentGoesOn, Zenon
<1>10. TableInv' /\ TapTypes' /\ TapGuarded'
  BY <1>1, <1>2, <1>3, StudentStays DEF TapInv, TapTypes
<1>11. Len(out) \in Nat /\ Len(out) + 1 \in Nat
  BY <1>8
<1>12. IdsHeld'
  BY <1>1, <1>2, <1>3, <1>8, <1>11, OffsetAtEnd, Zenon
<1>13. OutputKept
  BY <1>3, StudentHolds, Zenon DEF TapInv, Lines
<1>14. (Len(out) % 2 = 1 <=> tapAt[s] = "writeSpace") /\ (Len(out) % 2 = 0 <=> tapAt[s] = "writeId")
  <2>1. Len(out) % 2 = 1 <=> tapAt[s] = "writeSpace"
    BY <1>9, <1>13, Zenon DEF OutputKept
  <2>2. Len(out) % 2 = 0 <=> Len(out) % 2 # 1
    BY <1>11, Parity, Zenon
  <2>3. tapAt[s] = "writeId" <=> tapAt[s] # "writeSpace"
    BY <1>1, Zenon
  <2>4. QED
    BY <2>1, <2>2, <2>3, Zenon
<1>15. \A k \in 1 .. Len(new) : (new[k] = Space) <=> (k % 2 = 0)
  <2>1. \A k \in 1 .. Len(out) : (new[k] = Space) <=> (k % 2 = 0)
    BY <1>8, <1>13 DEF OutputKept
  <2>2. (new[Len(out) + 1] = Space) <=> ((Len(out) + 1) % 2 = 0)
    BY <1>5, <1>8, <1>11, <1>14, Parity, Zenon
  <2>3. \A k \in 1 .. Len(new) : k \in 1 .. Len(out) \/ k = Len(out) + 1
    BY <1>8, <1>11
  <2>4. QED
    BY <2>1, <2>2, <2>3, Zenon
<1>16. \A r \in Students : Cardinality(Visits(new, r)) = Begun(r)'
  <2>1. \A r \in Students : Cardinality(Visits(new, r)) =
                            Cardinality(Visits(out, r)) + (IF r = byte THEN 1 ELSE 0)
    <3> HIDE DEF out, new
    <3> SUFFICES ASSUME NEW r \in Students
                 PROVE  Cardinality(Visits(new, r)) =
                        Cardinality(Visits(out, r)) + (IF r = byte THEN 1 ELSE 0)
      OBVIOUS
    <3>1. QED
      BY <1>2, <1>8, VisitAdds
  <2>2. \A r \in Students : Begun(r) \in Nat /\ Cardinality(Visits(out, r)) = Begun(r)
    BY <1>13 DEF OutputKept, Begun, TapInv, TapTypes
  <2>3. Begun(s)' = Begun(s) + (IF s = byte THEN 1 ELSE 0)
    BY <1>1, <1>4, <1>6, <1>9, <1>3 DEF Begun, TapInv, TapTypes
  <2>4. \A r \in Students \ {s} : r # byte
    BY <1>7, TapAssumption
  <2>5. QED
    BY <1>9, <2>1, <2>2, <2>3, <2>4
<1>17. Len(new) % 2 = 1 <=> \E r \in Students : tapAt'[r] = "writeSpace"
  <2>1. (\E r \in Students : tapAt'[r] = "writeSpace") <=> to = "writeSpace"
    BY <1>9
  <2>2. Len(new) % 2 = 1 <=> Len(out) % 2 = 0
    BY <1>8, <1>11, Parity, Zenon
  <2>3. QED
    BY <1>6, <1>14, <2>1, <2>2, Zenon
<1>18. OutputKept'
  BY <1>15, <1>16, <1>17, Zenon DEF OutputKept
<1>19. Lines'
  <2>1. new # NoFile
    BY <1>8, OpenFilesAssumption
  <2>2. QED
    BY <1>9, <1>18, <2>1, Zenon DEF Lines
<1>20. QED
  BY <1>8, <1>10, <1>12, <1>19 DEF TapInv

LEMMA TapNextKeeps == TapInv /\ [TapNext]_<<vars, fileVars, tapVars>> => TapInv'
<1> SUFFICES ASSUME TapInv, [TapNext]_<<vars, fileVars, tapVars>> PROVE TapInv'
  OBVIOUS
<1>1. CASE UNCHANGED <<vars, fileVars, tapVars>>
  <2>1. TableInv' /\ FilesInv'
    BY <1>1, SemsSame, FilesSame DEF TapInv
  <2>2. TapTypes'
    BY <1>1 DEF TapInv, TapTypes, tapVars
  <2>3. TapGuarded'
    BY <1>1 DEF TapInv, TapGuarded, Before, AtTap, vars, tapVars
  <2>4. IdsHeld'
    BY <1>1, Zenon DEF TapInv, IdsHeld, Holding, fileVars, tapVars
  <2>5. Lines'
    <3>1. /\ tapAt' = tapAt /\ litres' = litres /\ files' = files
          /\ \A s \in Students : Begun(s)' = Begun(s)
      BY <1>1 DEF Begun, tapVars, fileVars
    <3>2. tapAt[Parent] \in {"read", "exec", "join"} => files[Output] # NoFile
      BY DEF TapInv, Lines
    <3>3. QED
      BY <3>1, <3>2, LinesSame
  <2>6. QED
    BY <2>1, <2>2, <2>3, <2>4, <2>5 DEF TapInv
<1>2. ASSUME MainStep PROVE TapInv'
  BY <1>2, MainCreatesKeeps, MainOpensKeeps, MainCreatesOutputKeeps, MainReadsKeeps, MainExecsKeeps,
     MainClosesKeeps, MainSignalsKeeps, MainJoinsKeeps DEF MainStep
<1>3. ASSUME tapAt[Parent] # "halt", NEW s \in Students, StudentStep(s) PROVE TapInv'
  BY <1>3, StudentWaitsKeeps, StudentOpensKeeps, StudentSeeksKeeps, StudentWritesKeeps,
     StudentClosesKeeps, StudentSignalsKeeps DEF StudentStep
<1>4. QED
  BY <1>1, <1>2, <1>3, Zenon DEF TapNext

\* The lab's programs lose no entry, for any number of students and litres: output.txt is a
\* sequence of whole pairs, one for each litre a student has drawn, because the semaphore
\* keeps the Seek and the two Writes of one student together.
THEOREM TapCorrect ==
  ASSUME NEW inputs \in SUBSET Seq(Bytes)
  PROVE  TapSpec(inputs) => []AppendsKept
<1>1. TapInit(inputs) => TapInv
  BY TapInitInv
<1>2. ASSUME TapInv PROVE AppendsKept
  <2>1. \A s \in Students : AtTap(s) /\ tapAt[s] \notin {"open", "signal"} => Holding(s)
    BY DEF AtTap, Holding
  <2>2. \A s \in Students : AtTap(s) => \A r \in Students \ {s} : ~AtTap(r)
    BY <1>2 DEF TapInv, TapGuarded
  <2>3. \A s \in Students : Holding(s) => openFiles[fileId[s]] # NoFile /\ openFiles[fileId[s]].name = Output
    BY <1>2, Zenon DEF TapInv, IdsHeld
  <2>4. FilesTypeOK /\ (files[Output] # NoFile => OutputKept)
    BY <1>2 DEF TapInv, FilesInv, Lines
  <2>5. QED
    BY <2>1, <2>2, <2>3, <2>4, Zenon DEF AppendsKept, OutputKept, Visits, Begun
<1>3. QED
  BY <1>1, <1>2, TapNextKeeps, PTL DEF TapSpec

-----------------------------------------------------------------------------
(* The refinement: there is room for a semaphore that is created *)

\* While a slot is free, fewer names than slots are made: each name has a slot of its own.
LEMMA RoomLeft ==
  ASSUME TableInv, NEW id \in Slots \ bm
  PROVE  Cardinality({n \in Names : Units[n] # NULL}) < MAX_SEMAPHORE
<1> DEFINE made == {n \in Names : Units[n] # NULL}
           nameOf == [i \in bm |-> semTab[i].name]
<1>1. IsFiniteSet(Slots) /\ Cardinality(Slots) = MAX_SEMAPHORE
  BY CountInterval, SemTableAssumption DEF Slots
<1>2. bm \in SUBSET Slots /\ bm # Slots
  BY DEF TableInv, TypeOK
<1>3. /\ IsFiniteSet(bm) /\ Cardinality(bm) <= Cardinality(Slots)
      /\ Cardinality(bm) # Cardinality(Slots)
  BY <1>1, <1>2, CountPart
<1>4. nameOf \in [bm -> made] /\ \A n \in made : \E i \in bm : nameOf[i] = n
  <2>1. \A i \in bm : semTab[i].name \in made
    BY MarkedSlot, MadeNames
  <2>2. \A n \in made : \E i \in bm : semTab[i].name = n
    BY MadeNames
  <2>3. QED
    BY <2>1, <2>2
<1>5. IsFiniteSet(made) /\ Cardinality(made) <= Cardinality(bm)
  BY <1>3, <1>4, CountImage, Zenon
<1>6. Cardinality(made) \in Nat /\ Cardinality(bm) \in Nat
  BY <1>3, <1>5, CountPart
<1>7. QED
  BY <1>1, <1>3, <1>5, <1>6, SemTableAssumption

LEMMA CreateImplements ==
  ASSUME TableInv, TableInv', NEW p \in Procs, NEW n \in Names, NEW v \in InitialValues,
         Create(p, n, v)
  PROVE  Directory!Create(n, v)
<1>1. PICK id \in Slots \ bm :
        /\ bm' = bm \cup {id}
        /\ semTab' = [semTab EXCEPT ![id] = [name |-> n, value |-> v]]
  BY Zenon DEF Create, IsFirst
<1>2. \A i \in bm : semTab[i].name # n
  BY DEF Create, Found
<1>3. \A i \in Slots : semTab'[i] = IF i = id THEN [name |-> n, value |-> v] ELSE semTab[i]
  BY <1>1 DEF TableInv, TypeOK
<1>4. \A m \in Names : m # n => Held(m)' = Held(m)
  <2>1. ~ (\E m \in Names : m # n /\ id \in Held(m)')
    BY <1>3 DEF Held
  <2>2. \A m \in Names : id \notin Held(m)
    BY <1>1, Zenon DEF Held, TableInv
  <2>3. \A m \in Names, i \in Slots : i # id => (i \in Held(m)' <=> i \in Held(m))
    BY <1>3, Zenon DEF Held
  <2>4. \A m \in Names : Held(m) \subseteq Slots /\ Held(m)' \subseteq Slots
    BY DEF Held
  <2>5. ASSUME NEW m \in Names, m # n PROVE \A i : i \in Held(m)' <=> i \in Held(m)
    BY <2>1, <2>2, <2>3, <2>4, <2>5
  <2>6. QED
    BY <2>5, Zenon
<1>5. \A m \in Names : m # n => Units'[m] = Units[m]
  <2> SUFFICES ASSUME NEW m \in Names, m # n PROVE Units'[m] = Units[m]
    OBVIOUS
  <2>1. CASE \E i \in bm : semTab[i].name = m
    <3>1. PICK i \in bm : semTab[i].name = m
      BY <2>1
    <3>2. i \in bm' /\ semTab'[i] = semTab[i]
      BY <1>1, <1>3, Zenon DEF TableInv
    <3>3. Held(m) = {i} /\ Held(m)' = {i}
      BY <1>4, <3>1, MarkedSlot, Zenon
    <3>4. (CHOOSE j \in {i} : TRUE) = i
      OBVIOUS
    <3>5. QED
      BY <3>2, <3>3, <3>4 DEF Units
  <2>2. CASE \A i \in bm : semTab[i].name # m
    <3>1. Held(m) = {} /\ Held(m)' = {}
      BY <1>4, <2>2, UnheldName
    <3>2. QED
      BY <3>1 DEF Units
  <2>3. QED
    BY <2>1, <2>2
<1>6. Units'[n] = v
  <2>1. Held(n)' = {id}
    <3>1. \A i \in Slots : i # id => i \notin Held(n)'
      BY <1>2, <1>3, Zenon DEF Held, TableInv
    <3>2. id \in Held(n)'
      <4>1. [name |-> n, value |-> v] # NULL
        BY SemTableAssumption DEF Sems
      <4>2. QED
        BY <1>3, <4>1 DEF Held
    <3>3. Held(n)' \subseteq Slots
      BY DEF Held
    <3>4. QED
      BY <3>1, <3>2, <3>3
  <2>2. (CHOOSE j \in {id} : TRUE) = id
    OBVIOUS
  <2>3. semTab'[id].value = v
    BY <1>3
  <2>4. QED
    BY <2>1, <2>2, <2>3 DEF Units
<1>7. Units' = [Units EXCEPT ![n] = v]
  BY <1>5, <1>6, DirectoryFunctions
<1>8. Units[n] = NULL
  BY <1>2, UnheldName
<1>9. WaitsFor' = WaitsFor
  <2>1. waiting' = waiting /\ \A q \in Procs : waiting[q] # NULL => waiting[q] # id
    BY <1>1, Zenon DEF Create, TableInv
  <2>2. \A q \in Procs : waiting[q] # NULL => semTab'[waiting[q]] = semTab[waiting[q]]
    BY <1>3, <2>1, Zenon DEF TableInv
  <2>3. QED
    BY <2>1, <2>2 DEF WaitsFor
<1>10. Cardinality({m \in Names : Units[m] # NULL}) < MAX_SEMAPHORE
  BY RoomLeft
<1>11. Directory!Made = {m \in Names : Units[m] # NULL}
  BY DEF Directory!Made, Units
<1>12. Directory!Cardinality(Directory!Made) = Cardinality(Directory!Made)
  BY Zenon DEF Directory!Cardinality, Cardinality
<1>13. n \notin Directory!Made /\ Directory!Cardinality(Directory!Made) < MAX_SEMAPHORE
  BY <1>8, <1>10, <1>11, <1>12
<1>14. QED
  BY <1>7, <1>9, <1>13 DEF Directory!Create, Units, WaitsFor

\* STable implements a directory of named counting semaphores: a name stands for one
\* semaphore for ever, a Wait takes a unit of the semaphore it was called for, and a full
\* table makes no more, for any number of processes, names and slots.
THEOREM DirectoryRefinement == Spec => DirectoryPromise
<1>1. Init => Directory!Init
  <2> SUFFICES ASSUME Init PROVE Directory!Init
    OBVIOUS
  <2>1. \A n \in Names : Held(n) = {}
    BY DEF Init, Held
  <2>2. QED
    BY <2>1 DEF Init, Directory!Init
<1>2. ASSUME TableInv, TableInv', [Next]_vars PROVE Directory!Next \/ UNCHANGED <<Units, WaitsFor>>
  <2>1. ASSUME UNCHANGED <<semTab, waiting>> PROVE UNCHANGED <<Units, WaitsFor>>
    BY <2>1 DEF Units, WaitsFor, Held
  <2>2. CASE UNCHANGED vars
    BY <2>1, <2>2 DEF vars
  <2>3. ASSUME NEW p \in Procs, WaitP(p) PROVE Directory!Next
    BY <1>2, <2>3, WaitPImplements DEF Directory!Next
  <2>4. ASSUME NEW p \in Procs, NEW n \in Names, NEW v \in InitialValues, Create(p, n, v)
        PROVE  Directory!Next
    BY <1>2, <2>4, CreateImplements DEF Directory!Next
  <2>5. ASSUME NEW p \in Procs, NEW n \in Names, CallWait(p, n) PROVE Directory!Next
    BY <1>2, <2>5, CallWaitImplements DEF Directory!Next
  <2>6. ASSUME NEW p \in Procs, NEW n \in Names, Signal(p, n) PROVE Directory!Next
    BY <1>2, <2>6, SignalImplements DEF Directory!Next
  <2>7. ASSUME NEW p \in Procs, NEW n \in Names, CreateFails(p, n) \/ NotFound(p, n)
        PROVE  UNCHANGED <<Units, WaitsFor>>
    BY <1>2, <2>1, <2>7, FailingCalls
  <2>8. QED
    BY <1>2, <2>2, <2>3, <2>4, <2>5, <2>6, <2>7 DEF Next
<1>3. TableInv /\ TableInv' /\ [Next]_vars => [Directory!Next]_<<Units, WaitsFor>>
  BY <1>2
<1>4. QED
  BY <1>1, <1>3, InitTable, NextKeepsTable, PTL
     DEF Spec, DirectoryPromise, Directory!Spec, Directory!vars, Units, WaitsFor
=============================================================================
