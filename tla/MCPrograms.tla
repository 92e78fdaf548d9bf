----------------------------- MODULE MCPrograms ------------------------------
(***************************************************************************)
(* TLC instance of what user programs rest on.  The initial state chooses  *)
(* the part that runs: programs making any semaphore calls, programs       *)
(* making any file calls, the lab's programs, or programs being loaded.    *)
(***************************************************************************)
EXTENDS WaterTap, AddrSpace

CONSTANT NewLine
VARIABLE part

MCInitialValues == {-1, 0, 1}
MCMinValue == -2
MCAnyBytes == {<<Space>>}
MCBytes == Students \cup {Space, NewLine, Hole} \cup 0 .. 9
MCInputs == {<<>>, <<2>>, <<NewLine, 1>>, <<3>>}
MCLayouts == {<<2, 0, 0, 0>>, <<3, 0, 1, 1>>, <<1, 2, 0, 3>>}

NoFiles == FilesInit([n \in FileNames |-> NoFile])
NoTap == /\ tapAt = [p \in {Parent} \cup Students |-> "off"]
         /\ fileId = <<>> /\ lengthFile = <<>> /\ litres = <<>> /\ slsv = 0 /\ children = <<>>
NoSpaces == /\ map = <<>> /\ addrLock = FALSE /\ mainMemory = <<>> /\ pc = [p \in Processes |-> "off"]
            /\ coff = <<>> /\ noff = <<>> /\ pageTable = [p \in Processes |-> <<>>] /\ status = "off"

MCInit ==
    \/ part = "semaphores" /\ Init /\ NoFiles /\ NoTap /\ NoSpaces
    \/ part = "files" /\ Init /\ NoFiles /\ NoTap /\ NoSpaces
    \/ part = "tap" /\ TapInit(MCInputs) /\ NoSpaces
    \/ part = "spaces" /\ Init /\ NoFiles /\ NoTap /\ SpaceInit

MCVars == <<part, vars, fileVars, tapVars, spaceVars>>

OnlyFiles == part = "files" /\ UNCHANGED <<part, vars, tapVars, spaceVars>>
OnlyTap == part = "tap" /\ UNCHANGED <<part, spaceVars>>
OnlySpaces == part = "spaces" /\ UNCHANGED <<part, vars, fileVars, tapVars>>

MCNext ==
    \/ part = "semaphores" /\ Next /\ UNCHANGED <<part, fileVars, tapVars, spaceVars>>
    \/ OnlyFiles /\ AnyFileCall({Input})
    \/ OnlyTap /\ TapNext
    \/ OnlySpaces /\ SpaceNext

\* A ready thread is scheduled in the end: the fairness of SpaceSpec, and of the
\* lab's programs, whose every student exits.
MCSpec ==
    /\ MCInit /\ [][MCNext]_MCVars
    /\ WF_MCVars(OnlyTap /\ tapAt[Parent] # "halt" /\ MainStep)
    /\ \A s \in Students : WF_MCVars(OnlyTap /\ tapAt[Parent] # "halt" /\ StudentStep(s))
    /\ WF_MCVars(OnlySpaces /\ Boot)
    /\ \A p \in Processes :
         WF_MCVars(OnlySpaces /\ (LockP(p) \/ Allocate(p) \/ LoadAndRun(p)))

\* A program that writes to the display by its file id.
MCDisplaySpec == MCInit /\ [][OnlyFiles /\ DisplayWrite]_MCVars

-----------------------------------------------------------------------------
\* Every program finds its COFF image in memory, whatever AddrSpace::Load or the
\* constructor is loading next to it: ImageLoaded of AddrSpace.
ImagesFound == part = "spaces" => SpaceTypeOK /\ ImageLoaded

\* main.c ends, with every student served unless a call failed (TapEnds of WaterTap):
\* the semaphore passes from student to student and every Join returns.
TapServes == part = "tap" => TapEnds
=============================================================================
