------------------------------ MODULE Processes ------------------------------
(***************************************************************************)
(* The process table (threads/ptable.cc, threads/pcb.cc) and the system    *)
(* calls Exec, Join and Exit (userprog/ksyscall.h) of concurrent programs. *)
(*                                                                         *)
(* A process is named by its slot in the table; slot 0 is the first        *)
(* program, run by the main thread.  P and V are atomic steps, as in       *)
(* Monitor, and a process can lose the processor at the end of each.       *)
(***************************************************************************)
EXTENDS Integers, FiniteSets

CONSTANTS
  NumSlots,      \* PTable::psize
  MainIDs,       \* the values that the main thread's processID can have, which
                 \* nothing initialises: 0, or one that names no slot
  MaxNumWait,    \* bound: a process with this numwait does not Join
  Disciplined,   \* TRUE: programs Join every child once, and then Exit(0)
  NULL

Slots == 0..(NumSlots - 1)

ASSUME ProcessesAssumption ==
  /\ NumSlots \in Nat \ {0}
  /\ MainIDs \subseteq Int \ (Slots \ {0})
  /\ MaxNumWait \in Nat
  /\ Disciplined \in BOOLEAN
  /\ NULL \notin Int

VARIABLES
  mainID,    \* processID of the main thread
  bm,        \* PTable::bm, as the set of marked slots
  bmsem,     \* PTable::bmsem
  pcb,       \* PTable::pcb; NULL is the null pointer.  Remove leaves the pointer in
             \* the table, and the memory of the PCB too, since Thread::Finish does
             \* not return to PCB::~PCB; but its semaphores are deleted.
  pc,        \* where the thread of a process is; "none" if there is no thread
  target,    \* the slot its Exec fills, or the id it Joins
  children,  \* the ids Exec returned to the program and it has not yet joined
  exitCode,  \* the argument of the program's first call of Exit, or NULL
  machine    \* "running", "halted" or the fault; what follows one is not modelled

vars == <<mainID, bm, bmsem, pcb, pc, target, children, exitCode, machine>>
program == <<mainID, children, exitCode>>

(***************************************************************************)
(*   start            forked, in StartProcess_2                            *)
(*   user             runs user code                                       *)
(*   exec, slot, fork, forked, execEnd                                     *)
(*                    ExecUpdate: before bmsem->P, before GetFreeSlot,     *)
(*                    before Fork, before multex->V, before bmsem->V       *)
(*   inc, counting    IncNumWait: before P, before ++numwait               *)
(*   joinCall, join   JoinUpdate: before JoinWait, in joinsem->P           *)
(*   joined           JoinUpdate: before ExitRelease                       *)
(*   dec, discounting DecNumWait: before P, before --numwait               *)
(*   release          ExitUpdate: before JoinRelease                       *)
(*   exit, remove     ExitUpdate: in exitsem->P, before Remove             *)
(***************************************************************************)
Execing == {"exec", "slot", "fork", "forked", "execEnd"}
Joining == {"inc", "counting", "joinCall", "join", "joined"}
Exiting == {"dec", "discounting", "release", "exit", "remove"}
Points == {"none", "start", "user"} \cup Execing \cup Joining \cup Exiting

PCBs ==
  [parentID : Int, joinsem : Nat, exitsem : Nat, multex : Nat, numwait : Nat,
   deleted : BOOLEAN]

\* The null pointer points to no PCB.
ASSUME NullAssumption == NULL \notin PCBs

TypeOK ==
  /\ mainID \in MainIDs
  /\ bm \in SUBSET Slots
  /\ bmsem \in Nat
  /\ pcb \in [Slots -> PCBs \cup {NULL}]
  /\ pc \in [Slots -> Points]
  /\ target \in [Slots -> Int \cup {NULL}]
  /\ children \in [Slots -> SUBSET Slots]
  /\ exitCode \in [Slots -> {0, 1, NULL}]
  /\ machine \in {"running", "halted", "null pcb", "deleted semaphore", "semaphore in use",
                  "bitmap range"}

\* Thread::processID of the thread of process p
processID(p) == IF p = 0 THEN mainID ELSE p

\* Does the table's pointer id point to a PCB?  To one whose semaphores exist?
Present(id) == id \in Slots /\ pcb[id] # NULL
Live(id) == Present(id) /\ ~pcb[id].deleted

\* Broken variant of NewPCB: joinsem starts at 1.
NewPCBJoinable(parent) ==
  [parentID |-> parent, joinsem |-> 1, exitsem |-> 0, multex |-> 1, numwait |-> 0,
   deleted |-> FALSE]

\* PCB::PCB, with the parentID given
NewPCB(parent) ==
  [parentID |-> parent, joinsem |-> 0, exitsem |-> 0, multex |-> 1, numwait |-> 0,
   deleted |-> FALSE]

\* PTable::PTable, and the first program
Init ==
  /\ mainID \in MainIDs
  /\ bm = {0}
  /\ bmsem = 1
  /\ pcb = [s \in Slots |-> IF s = 0 THEN NewPCB(-1) ELSE NULL]
  /\ pc = [s \in Slots |-> IF s = 0 THEN "user" ELSE "none"]
  /\ target = [s \in Slots |-> NULL]
  /\ children = [s \in Slots |-> {}]
  /\ exitCode = [s \in Slots |-> NULL]
  /\ machine = "running"

Goto(p, from, to) ==
  /\ pc[p] = from
  /\ pc' = [pc EXCEPT ![p] = to]

\* A process uses a null pointer, or an index, of the table, a semaphore that is
\* deleted, or deletes one that another is using; or an assertion of Bitmap fails.
Fault(what) ==
  /\ machine' = what
  /\ UNCHANGED <<bm, bmsem, pcb, pc, target, program>>

\* multex->P of a PCB, for the thread of process p
MultexP(p, id, from, to) ==
  /\ Goto(p, from, to)
  /\ pcb[id].multex # 0
  /\ pcb' = [pcb EXCEPT ![id].multex = @ - 1]
  /\ UNCHANGED <<bm, bmsem, target, program, machine>>

\* A new value of numwait, and multex->V
SetNumWait(p, id, n, from, to) ==
  /\ Goto(p, from, to)
  /\ pcb' = [pcb EXCEPT ![id].numwait = n, ![id].multex = @ + 1]
  /\ UNCHANGED <<bm, bmsem, target, program, machine>>

-----------------------------------------------------------------------------
(* Exec *)

\* SysExec, when the file exists, up to bmsem->P in PTable::ExecUpdate
CallExec(p) ==
  /\ Goto(p, "user", "exec")
  /\ UNCHANGED <<bm, bmsem, pcb, target, program, machine>>

ExecP(p) ==
  /\ Goto(p, "exec", "slot")
  /\ bmsem # 0
  /\ bmsem' = bmsem - 1
  /\ UNCHANGED <<bm, pcb, target, program, machine>>

\* Broken variant of ExecFails: an early return without bmsem->V.
ExecFailsNoV(p) ==
  /\ Goto(p, "slot", "user")
  /\ UNCHANGED <<bm, bmsem, pcb, target, program, machine>>

\* The table is full, or the name is that of the running program (getName() is
\* memory that SysExec has freed, so the comparison can come out either way).
ExecFails(p) ==
  /\ Goto(p, "slot", "user")
  /\ bmsem' = bmsem + 1
  /\ UNCHANGED <<bm, pcb, target, program, machine>>

\* GetFreeSlot, new PCB, and multex->P in PCB::Exec
ExecSlot(p) ==
  /\ Goto(p, "slot", "fork")
  /\ \E s \in Slots \ bm :
       /\ \A u \in Slots \ bm : s <= u
       /\ bm' = bm \cup {s}
       /\ pcb' = [pcb EXCEPT ![s] = [NewPCB(processID(p)) EXCEPT !.multex = 0]]
       /\ target' = [target EXCEPT ![p] = s]
  /\ UNCHANGED <<bmsem, program, machine>>

\* PCB::Exec makes the thread of the new process and forks it.
ExecFork(p) ==
  /\ pc[p] = "fork"
  /\ pc' = [pc EXCEPT ![p] = "forked", ![target[p]] = "start"]
  /\ exitCode' = [exitCode EXCEPT ![target[p]] = NULL]
  /\ UNCHANGED <<mainID, bm, bmsem, pcb, target, children, machine>>

\* multex->V in PCB::Exec
ExecMultexV(p) ==
  /\ Goto(p, "forked", "execEnd")
  /\ pcb' = [pcb EXCEPT ![target[p]].multex = @ + 1]
  /\ UNCHANGED <<bm, bmsem, target, program, machine>>

\* bmsem->V, and the id is returned to the program
ExecReturn(p) ==
  /\ Goto(p, "execEnd", "user")
  /\ bmsem' = bmsem + 1
  /\ children' = [children EXCEPT ![p] = @ \cup {target[p]}]
  /\ target' = [target EXCEPT ![p] = NULL]
  /\ UNCHANGED <<mainID, bm, pcb, exitCode, machine>>

\* StartProcess_2, up to the first instruction of the program
Start(p) ==
  /\ Goto(p, "start", "user")
  /\ UNCHANGED <<bm, bmsem, pcb, target, program, machine>>

-----------------------------------------------------------------------------
(* Join *)

\* SysJoin with a process that is not a child of the caller: -1, nothing changes
Refused(p, id) == id < 0 \/ (Present(id) /\ pcb[id].parentID # processID(p))

\* PTable::JoinUpdate, up to multex->P in IncNumWait of the caller's PCB
CallJoin(p, id) ==
  /\ pc[p] = "user"
  /\ Disciplined => id \in children[p]
  /\ ~Refused(p, id)
  /\ \/ /\ Present(id) /\ Present(processID(p))
        /\ pcb[processID(p)].numwait < MaxNumWait
        /\ Goto(p, "user", "inc")
        /\ target' = [target EXCEPT ![p] = id]
        /\ UNCHANGED <<bm, bmsem, pcb, program, machine>>
     \/ ~(Present(id) /\ Present(processID(p))) /\ Fault("null pcb")

IncNumWaitP(p) == MultexP(p, processID(p), "inc", "counting")

IncNumWait(p) ==
  SetNumWait(p, processID(p), pcb[processID(p)].numwait + 1, "counting", "joinCall")

\* The call of pcb[id]->JoinWait()
CallJoinWait(p) ==
  /\ pc[p] = "joinCall"
  /\ \/ /\ Live(target[p])
        /\ Goto(p, "joinCall", "join")
        /\ UNCHANGED <<bm, bmsem, pcb, target, program, machine>>
     \/ ~Live(target[p]) /\ Fault("deleted semaphore")

\* JoinWait: joinsem->P
JoinWait(p) ==
  /\ Goto(p, "join", "joined")
  /\ pcb[target[p]].joinsem # 0
  /\ pcb' = [pcb EXCEPT ![target[p]].joinsem = @ - 1]
  /\ UNCHANGED <<bm, bmsem, target, program, machine>>

\* ExitRelease: exitsem->V; Join returns to the program.
ExitRelease(p) ==
  /\ Goto(p, "joined", "user")
  /\ pcb' = [pcb EXCEPT ![target[p]].exitsem = @ + 1]
  /\ children' = [children EXCEPT ![p] = @ \ {target[p]}]
  /\ target' = [target EXCEPT ![p] = NULL]
  /\ UNCHANGED <<mainID, bm, bmsem, exitCode, machine>>

-----------------------------------------------------------------------------
(* Exit *)

MayExit(p) ==
  /\ pc[p] = "user"
  /\ Disciplined => children[p] = {}

\* SysExit with a status other than 0 returns to the program.
ExitNonZero(p) ==
  /\ MayExit(p) /\ ~Disciplined
  /\ exitCode[p] = NULL
  /\ exitCode' = [exitCode EXCEPT ![p] = 1]
  /\ UNCHANGED <<mainID, bm, bmsem, pcb, pc, target, children, machine>>

\* PTable::ExitUpdate of the process whose processID is 0
ExitMain(p) ==
  /\ MayExit(p)
  /\ processID(p) = 0
  /\ machine' = "halted"
  /\ UNCHANGED <<bm, bmsem, pcb, pc, target, program>>

\* PTable::ExitUpdate of another, up to multex->P in DecNumWait of the parent's PCB
CallExit(p) ==
  /\ MayExit(p)
  /\ processID(p) # 0
  /\ \/ processID(p) \notin Slots /\ Fault("bitmap range")
     \/ p \in bm /\ p # 0 /\ ~Present(pcb[p].parentID) /\ Fault("null pcb")
     \/ /\ p \in bm /\ p # 0 /\ Present(pcb[p].parentID) /\ ~Live(pcb[p].parentID)
        /\ Fault("deleted semaphore")
     \/ /\ p \in bm /\ p # 0 /\ Live(pcb[p].parentID)
        /\ Goto(p, "user", "dec")
        /\ exitCode' = [exitCode EXCEPT ![p] = 0]
        /\ UNCHANGED <<mainID, bm, bmsem, pcb, target, children, machine>>

DecNumWaitP(p) == MultexP(p, pcb[p].parentID, "dec", "discounting")

DecNumWait(p) ==
  LET parent == pcb[p].parentID
      n == pcb[parent].numwait
  IN SetNumWait(p, parent, IF n > 0 THEN n - 1 ELSE n, "discounting", "release")

\* Broken variant of JoinRelease: the V is missing.
JoinReleaseNoV(p) ==
  /\ Goto(p, "release", "exit")
  /\ UNCHANGED <<bm, bmsem, pcb, target, program, machine>>

\* JoinRelease: joinsem->V
JoinRelease(p) ==
  /\ Goto(p, "release", "exit")
  /\ pcb' = [pcb EXCEPT ![p].joinsem = @ + 1]
  /\ UNCHANGED <<bm, bmsem, target, program, machine>>

\* Broken variant of ExitWait: the child does not wait for its parent.
ExitWaitNoP(p) ==
  /\ Goto(p, "exit", "remove")
  /\ UNCHANGED <<bm, bmsem, pcb, target, program, machine>>

\* ExitWait: exitsem->P
ExitWait(p) ==
  /\ Goto(p, "exit", "remove")
  /\ pcb[p].exitsem # 0
  /\ pcb' = [pcb EXCEPT ![p].exitsem = @ - 1]
  /\ UNCHANGED <<bm, bmsem, target, program, machine>>

\* Another process is in P, or between P and V, of a semaphore of p's PCB.
SemaphoreInUse(p) ==
  \E q \in Slots \ {p} :
    \/ pc[q] \in {"join", "forked"} /\ target[q] = p
    \/ pc[q] \in {"dec", "discounting"} /\ pcb[q].parentID = p

\* PTable::Remove: the slot is cleared, PCB::~PCB deletes the semaphores and the
\* address space and finishes the thread.  Of a deleted PCB only parentID is read.
Remove(p) ==
  /\ pc[p] = "remove"
  /\ \/ SemaphoreInUse(p) /\ Fault("semaphore in use")
     \/ /\ ~SemaphoreInUse(p)
        /\ Goto(p, "remove", "none")
        /\ bm' = bm \ {p}
        /\ pcb' = [pcb EXCEPT ![p] = [NewPCB(@.parentID) EXCEPT !.deleted = TRUE]]
        /\ target' = [target EXCEPT ![p] = NULL]
        /\ children' = [children EXCEPT ![p] = {}]
        /\ UNCHANGED <<mainID, bmsem, exitCode, machine>>

-----------------------------------------------------------------------------
\* The steps of a system call that has begun
Continue(p) ==
  \/ ExecP(p) \/ ExecFails(p) \/ ExecSlot(p) \/ ExecFork(p) \/ ExecMultexV(p)
  \/ ExecReturn(p) \/ Start(p)
  \/ IncNumWaitP(p) \/ IncNumWait(p) \/ CallJoinWait(p) \/ JoinWait(p) \/ ExitRelease(p)
  \/ DecNumWaitP(p) \/ DecNumWait(p) \/ JoinRelease(p) \/ ExitWait(p) \/ Remove(p)

\* A program makes a system call.
Call(p) ==
  \/ CallExec(p)
  \/ \E id \in 0..NumSlots : CallJoin(p, id)
  \/ ExitNonZero(p) \/ ExitMain(p) \/ CallExit(p)

Next ==
  /\ machine = "running"
  /\ \E p \in Slots : Continue(p) \/ Call(p)

Spec == Init /\ [][Next]_vars

\* A process that can go on with a system call does so.
FairSpec == Spec /\ \A p \in Slots : WF_vars(machine = "running" /\ Continue(p))

-----------------------------------------------------------------------------
(* Properties *)

\* Join returns, and lets the process it waited for go, only after that process has
\* called Exit(0) and while its PCB is still there, whatever the programs do: even a
\* second Join of the same id (JoinUpdate against ExitUpdate; "Only return once the
\* user program id has finished", syscall.h).
JoinAfterExit ==
  \A p \in Slots : pc[p] = "joined" =>
    /\ Live(target[p])
    /\ exitCode[target[p]] = 0 /\ pc[target[p]] = "exit"
    /\ \A q \in Slots : pc[q] = "joined" /\ target[q] = target[p] => q = p

\* The bitmap, the PCBs and the threads agree: a slot is marked as long as its PCB
\* exists and a thread runs there, or is about to be forked by the one process that
\* is in ExecUpdate (PTable::GetFreeSlot, PTable::Remove).  Remove does not take
\* bmsem, so this also says that a slot is never handed out twice.
\* The types of the variables are part of it.
SlotsAgree ==
  /\ TypeOK
  /\ \A s \in Slots :
       /\ s \in bm <=> Live(s)
       /\ s \in bm <=> pc[s] # "none" \/ \E p \in Slots : pc[p] = "fork" /\ target[p] = s
  /\ \A p, q \in Slots :
       pc[p] \in Execing \ {"exec"} /\ pc[q] \in Execing \ {"exec"} => p = q
  /\ bmsem = IF \E p \in Slots : pc[p] \in Execing \ {"exec"} THEN 0 ELSE 1

\* Programs that Join each child once before they Exit never make the kernel use
\* a PCB or a semaphore that is not there: no PCB is deleted under a Join, or under
\* a child that still has to count itself off at its parent.  Such programs leave
\* no orphan either: as long as a process is not let go, its parent is there and is
\* going to join it.
ChildrenKept ==
  /\ machine \in {"running", "halted"}
  /\ \A c \in bm \ {0} :
       \/ pcb[c].exitsem = 1 \/ pc[c] = "remove"
       \/ LET parent == pcb[c].parentID IN
          /\ Live(parent) /\ pc[parent] # "none"
          /\ c \in children[parent] \/ target[parent] = c

\* Of such programs, a Join of a process that is exiting completes, and the child's
\* slot becomes free, once no new processes are made (those compete for the semaphores).
JoinCompletes ==
  <>[][\A p \in Slots : ~CallExec(p)]_vars =>
    \A p, c \in Slots :
      (pc[p] \in Joining /\ target[p] = c /\ pc[c] \in Exiting)
        ~> (c \notin bm \/ machine = "halted")

(* What a comment of the code says, and the code does not do *)

\* "We check that id is valid and that the caller is the parent of process id" (the
\* comment in PTable::JoinUpdate, translated): a Join waits for, and releases, a child
\* of the caller.  The check is made once, before IncNumWait; a program that joins
\* a child twice can find another parent's process in the slot in JoinWait.
JoinOnlyByParent ==
  \A p \in Slots : pc[p] = "joined" => pcb[target[p]].parentID = processID(p)
=============================================================================
