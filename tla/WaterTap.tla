------------------------------- MODULE WaterTap -------------------------------
(***************************************************************************)
(* The lab's programs: test/main.c starts one test/sinhvien.c per student, *)
(* and the students take turns at a tap (the semaphore "voinuoc"), each    *)
(* appending its id and a space to output.txt for every litre.  The calls  *)
(* are those of SemTable and OpenFiles; between two of them any other      *)
(* process may run.                                                        *)
(***************************************************************************)
EXTENDS SemTable, OpenFiles

CONSTANTS Parent, Students,      \* the processes: main.c, and of sinhvien.c
          Volume,              \* WATER_VOLUME
          Tap,                 \* the name "voinuoc"
          Input, Output,       \* the names "input.txt" and "output.txt"
          Space                \* the byte ' '

VARIABLES tapAt,               \* the next call of each process
          fileId, lengthFile,  \* si_input and si_output; the program's lengthFile
          litres,              \* the litres each student has finished
          slsv,                \* SLSV
          children             \* the students started, in order

ASSUME TapAssumption ==
    /\ Parent \in Procs /\ Students \subseteq Procs \ {Parent}
    /\ Students \subseteq Bytes /\ Space \in Bytes \ Students
    /\ Tap \in Names /\ 0 \in InitialValues
    /\ Input \in FileNames /\ Output \in FileNames /\ Input # Output
    /\ FileSlots >= 4          \* one slot for main.c and one for the student at the tap

tapVars == <<tapAt, fileId, lengthFile, litres, slsv, children>>

TapInit(inputs) ==
    /\ Init
    /\ \E input \in inputs :
         FilesInit([n \in FileNames |-> IF n = Input THEN input ELSE NoFile])
    /\ tapAt = [p \in {Parent} \cup Students |-> IF p = Parent THEN "create" ELSE "unborn"]
    /\ fileId = [p \in {Parent} \cup Students |-> -1]
    /\ litres = [s \in Students |-> 0] /\ lengthFile = [s \in Students |-> -1]
    /\ slsv = 0 /\ children = <<>>

Goes(p, to) == tapAt' = [tapAt EXCEPT ![p] = to]

-----------------------------------------------------------------------------
(* main.c *)

\* The table is still empty, so this does not fail.
MainCreates ==
    /\ tapAt[Parent] = "create"
    /\ Create(Parent, Tap, 0) /\ Goes(Parent, "open")
    /\ UNCHANGED <<fileVars, fileId, litres, slsv, children, lengthFile>>

MainOpens ==
    /\ tapAt[Parent] = "open"
    /\ SysOpen(Input, 1)
    /\ fileId' = [fileId EXCEPT ![Parent] = returned']
    /\ Goes(Parent, IF returned' = -1 THEN "halt" ELSE "createOutput")
    /\ UNCHANGED <<vars, litres, slsv, children, lengthFile>>

MainCreatesOutput ==
    /\ tapAt[Parent] = "createOutput"
    /\ SysCreateFile(Output)
    /\ Goes(Parent, IF returned' = -1 THEN "halt" ELSE "read")
    /\ UNCHANGED <<vars, fileId, litres, slsv, children, lengthFile>>

MainReads ==
    /\ tapAt[Parent] = "read"
    /\ SysRead(1, fileId[Parent])
    /\ slsv' = IF returned' # -3 /\ buffer'[1] \in 0 .. 9 THEN slsv * 10 + buffer'[1] ELSE slsv
    /\ Goes(Parent, IF returned' = -3 THEN "exec" ELSE "read")
    /\ UNCHANGED <<vars, fileId, litres, children, lengthFile>>

\* Exec of the next student; fails when no process can be made.
MainExecs ==
    /\ tapAt[Parent] = "exec" /\ Len(children) < slsv
    /\ \/ \E s \in Students :
            /\ tapAt[s] = "unborn"
            /\ children' = Append(children, s)
            /\ tapAt' = [tapAt EXCEPT ![s] = "wait"]
       \/ Goes(Parent, "closeInput") /\ UNCHANGED children
    /\ UNCHANGED <<vars, fileVars, fileId, litres, slsv, lengthFile>>

\* After a failed Exec; si_output has no value yet, so any id may be closed.
MainCloses ==
    /\ \/ tapAt[Parent] = "closeInput" /\ SysClose(fileId[Parent]) /\ Goes(Parent, "closeOutput")
       \/ tapAt[Parent] = "closeOutput" /\ Goes(Parent, "halt")
            /\ \E id \in -1 .. FileSlots : SysClose(id)
    /\ UNCHANGED <<vars, fileId, litres, slsv, children, lengthFile>>

MainSignals ==
    /\ tapAt[Parent] = "exec" /\ Len(children) = slsv
    /\ Signal(Parent, Tap)
    /\ Goes(Parent, "join")
    /\ UNCHANGED <<fileVars, fileId, litres, slsv, children, lengthFile>>

\* The Joins return once each student has exited; main's Exit halts the machine.
MainJoins ==
    /\ tapAt[Parent] = "join"
    /\ \A k \in 1 .. Len(children) : tapAt[children[k]] = "exited"
    /\ Goes(Parent, "halt")
    /\ UNCHANGED <<vars, fileVars, fileId, litres, slsv, children, lengthFile>>

-----------------------------------------------------------------------------
(* sinhvien.c *)

StudentWaits(s) ==
    /\ tapAt[s] = "wait"
    /\ \/ CallWait(s, Tap) /\ UNCHANGED tapAt
       \/ WaitP(s) /\ Goes(s, "open")
    /\ UNCHANGED <<fileVars, fileId, litres, slsv, children, lengthFile>>

StudentOpens(s) ==
    /\ tapAt[s] = "open"
    /\ SysOpen(Output, 0)
    /\ fileId' = [fileId EXCEPT ![s] = returned']
    /\ Goes(s, "seekEnd")
    /\ UNCHANGED <<vars, litres, slsv, children, lengthFile>>

\* A bug: the student writes at the start of the file.
StudentSeeksStart(s) ==
    /\ \/ /\ tapAt[s] = "seekEnd" /\ SysSeek(0, fileId[s]) /\ Goes(s, "seek")
          /\ lengthFile' = [lengthFile EXCEPT ![s] = returned']
       \/ /\ tapAt[s] = "seek" /\ SysSeek(lengthFile[s], fileId[s]) /\ Goes(s, "writeId")
          /\ UNCHANGED lengthFile
    /\ UNCHANGED <<vars, fileId, litres, slsv, children>>

StudentSeeks(s) ==
    /\ \/ /\ tapAt[s] = "seekEnd" /\ SysSeek(-1, fileId[s]) /\ Goes(s, "seek")
          /\ lengthFile' = [lengthFile EXCEPT ![s] = returned']
       \/ /\ tapAt[s] = "seek" /\ SysSeek(lengthFile[s], fileId[s]) /\ Goes(s, "writeId")
          /\ UNCHANGED lengthFile
    /\ UNCHANGED <<vars, fileId, litres, slsv, children>>

StudentWrites(s) ==
    /\ \/ tapAt[s] = "writeId" /\ SysWrite(<<s>>, fileId[s]) /\ Goes(s, "writeSpace")
       \/ tapAt[s] = "writeSpace" /\ SysWrite(<<Space>>, fileId[s]) /\ Goes(s, "close")
    /\ UNCHANGED <<vars, fileId, litres, slsv, children, lengthFile>>

StudentCloses(s) ==
    /\ tapAt[s] = "close"
    /\ SysClose(fileId[s])
    /\ Goes(s, "signal")
    /\ UNCHANGED <<vars, fileId, litres, slsv, children, lengthFile>>

StudentSignals(s) ==
    /\ tapAt[s] = "signal"
    /\ Signal(s, Tap)
    /\ litres' = [litres EXCEPT ![s] = @ + 1]
    /\ Goes(s, IF litres'[s] = Volume THEN "exited" ELSE "wait")
    /\ UNCHANGED <<fileVars, fileId, slsv, children, lengthFile>>

-----------------------------------------------------------------------------
MainStep ==
    \/ MainCreates \/ MainOpens \/ MainCreatesOutput \/ MainReads
    \/ MainExecs \/ MainCloses \/ MainSignals \/ MainJoins

StudentStep(s) ==
    \/ StudentWaits(s) \/ StudentOpens(s) \/ StudentSeeks(s)
    \/ StudentWrites(s) \/ StudentCloses(s) \/ StudentSignals(s)

TapNext ==
    /\ tapAt[Parent] # "halt"
    /\ MainStep \/ \E s \in Students : StudentStep(s)

TapSpec(inputs) == TapInit(inputs) /\ [][TapNext]_<<vars, fileVars, tapVars>>

AtTap(s) == tapAt[s] \in {"open", "seekEnd", "seek", "writeId", "writeSpace", "close", "signal"}

\* Appending is a Seek and two Writes, calls that other processes' calls may come
\* between; the semaphore keeps them out.  So output.txt is a sequence of whole
\* "id space" pairs (but for the pair being written), each student has one pair
\* for every litre, and the id a student holds is that of its own open output.txt.
AppendsKept ==
    LET out == files[Output]
        Begun(s) == litres[s] + (IF tapAt[s] \in {"writeSpace", "close", "signal"} THEN 1 ELSE 0)
    IN  /\ FilesTypeOK
        /\ out # NoFile =>
             /\ \A k \in 1 .. Len(out) : (out[k] = Space) <=> (k % 2 = 0)
             /\ \A s \in Students : Cardinality({k \in 1 .. Len(out) : out[k] = s}) = Begun(s)
             /\ Len(out) % 2 = 1 => \E s \in Students : tapAt[s] = "writeSpace"
        /\ \A s \in Students : AtTap(s) /\ tapAt[s] \notin {"open", "signal"} =>
             /\ openFiles[fileId[s]] # NoFile
             /\ openFiles[fileId[s]].name = Output
             /\ \A r \in Students \ {s} : ~AtTap(r)

\* main.c ends and, unless a call of its own failed, only after every one of its
\* SLSV students has taken all its litres: no student waits at the tap for ever.
TapEnds ==
    <>(/\ tapAt[Parent] = "halt"
       /\ \/ fileId[Parent] = -1 \/ files[Output] = NoFile
          \/ Len(children) < slsv
          \/ Len(files[Output]) = 2 * Volume * slsv)
=============================================================================
