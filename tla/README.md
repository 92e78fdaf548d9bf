# A TLA+ model of NachOS 4.0 with multiprogramming

This directory specifies the operating system in `src/code`: NachOS 4.0
(a teaching kernel that runs on a simulated MIPS machine) with a lab extension for processes,
named semaphores and file system calls. TLC checks the modules on small instances; TLAPS
proves theorems about the thread system, the monitor, the shared list, the pending interrupts, the process
table, the named semaphores, the open files, the lab's programs, the drivers of disk and console, the post
office and the network test for instances of any size.

## 1. The system

NachOS is one host process that simulates one processor and its devices. Kernel threads are
switched by hand; simulated time advances when a user instruction is executed or when
interrupts are re-enabled, and only then do device handlers run. Three consequences shape
every module:

* **Where a thread can lose the processor.** `Interrupt::SetLevel(IntOn)` and
  `Machine::OneInstruction` call `Interrupt::OneTick`, which runs the handlers that are due and
  yields if the timer asked for it. So kernel code is interrupted at the end of `P`, `V`,
  `Fork`, `Begin` and `Yield`, and nowhere else. The code between two such points is one step.
* **Mesa semantics.** `V` makes a waiter ready and adds a unit; by the time the waiter runs,
  another thread may have taken the unit, so `P` loops. Conditions are made of semaphores.
* **Devices poll or call back.** Keyboard and network poll the host and call back when something
  is there; display, disk and network output call back when a request is done.

### Inventory

| Part | State | Operations | What is hard about it | Module |
|---|---|---|---|---|
| Threads, scheduler | ready list, status, `toBeDestroyed`, saved registers | Fork, Begin, Yield, Sleep, Finish, Run | switches inside nested calls, deletion of the stack one runs on | Scheduler |
| Interrupts, timer | level, status, `yieldOnReturn`, pending list | OneTick, CheckIfDue, Idle, Schedule | handlers between any two kernel calls; order and time of handlers | Scheduler (where they run), Interrupts (when) |
| Semaphore | value, queue | P, V | lost wake-ups, barging | Scheduler, Semaphore |
| Lock, Condition | holder, wait queue | Acquire, Release, Wait, Signal, Broadcast | a signal between release and sleep | Monitor |
| SynchList | list | Append, RemoveFront, Apply | a consumer left asleep beside an item | SynchList, Fifo |
| PTable, PCB | bitmap, PCBs, their three semaphores | Exec, Join, Exit | deletion against use, slot reuse | Processes |
| STable, Sem | names, semaphores | CreateSemaphore, Wait, Signal | one name, one semaphore; full table | SemTable, SemDirectory |
| Disk, SynchDisk | `active`, lock, semaphore, sectors | ReadSector, WriteSector, CallBack | interrupt before the waiter waits | SynchDisk, AtomicDisk |
| Console, SynchConsole | one-character buffer, busy flag | GetChar, PutChar, CallBack | overwritten or lost characters, end of input | SynchConsole |
| Network, PostOffice | one-packet buffer, mailboxes | Send, Receive, poll, postal worker | lost packets, order | PostOffice |
| Kernel::NetworkTest | progress of two machines | 4 calls | claims over a lossy network | NetworkTest |
| AddrSpace, bitmap, coff2noff | frame bitmap, page tables, memory | both constructors, Load, Execute, Translate | memory runs out half-way; loads of several processes interleave | AddrSpace |
| File system calls | one table of open files for all processes | CreateFile, Open, Close, Read, Write, Seek | concurrent programs on one file | OpenFiles |
| File system on disk | bitmap, directory, headers in sectors | Create, Remove, Open, ReadAt, WriteAt | stop between two sector writes; leaked sectors | FileSystem |
| Console system calls | kernel buffers, user memory | ReadNum, PrintNum, ReadChar, PrintChar, ReadString, PrintString | signs, width, bounds of buffers | ConsoleCalls |
| MIPS simulator, kernel entry | registers, delayed load, memory | OneInstruction, Translate, RaiseException, ExceptionHandler | delayed loads and traps, overflow, unaligned accesses | Mips |
| Library | list cells, hash buckets | List, SortedList, HashTable and iterator | ends of lists, rehash during growth | Containers |
| Lab programs | output.txt, semaphore | `main.c`, `sinhvien.c` | appending in several calls; everybody served | WaterTap |
| Kernel start, host interface, debugging, statistics | | | sequential, or pure input and output | not modelled (section 5) |

## 2. Modules

The modules form layers; each layer uses the one below as atomic because the layer below is
shown to be.

```
Scheduler  --implements-->  Semaphore
Monitor (over atomic semaphores)
SynchList EXTENDS Monitor  --implements-->  Fifo
Processes, SemTable, AddrSpace, SynchDisk, SynchConsole, PostOffice (over atomic semaphores and locks)
SemTable   --implements-->  SemDirectory
SynchDisk  --implements-->  AtomicDisk;  FileSystem (over atomic sectors)
NetworkTest EXTENDS PostOffice (mailboxes as in Fifo)
WaterTap EXTENDS SemTable, OpenFiles
Mips, Interrupts, Containers, ConsoleCalls: sequential parts, against reference definitions
```

**Scheduler** (`thread.cc`, `scheduler.cc`, `synch.cc`, `interrupt.cc`, `alarm.cc`, parts of
`machine.cc`, `mipssim.cc`, `progtest.cc`). The variables are the fields of the C++ objects; `pc` says
where a thread continues when it gets the processor. `Fork`, `Yield`, `Finish`, `CallP`, `CallV` and
the user-mode steps are what a running thread can do; `TickDevice`, `TickTimer` and `TickReturn` are
`OneTick`; `Dispatch` is the loop of `Thread::Sleep`; `Begin` and `Resume` are the two places where a
thread comes back from `SWITCH`. Of the registers the model keeps whose they are, not
their contents. Left out: stack contents, `Halt`.

**Monitor** (`Lock` and `Condition` of `synch.cc`). A waiter's private semaphore is `waiter[t]`. Callers
keep the rules that the code asserts: only the holder releases, waits, signals or broadcasts.

**SynchList** (`synchlist.cc`) extends Monitor with the list and the loop around `Wait`.

**Processes** (`ptable.cc`, `pcb.cc`, `SysExec`, `SysJoin`, `SysExit`, `StartProcess_2`). A process is its
slot. Each `P`, and each stretch from one point of preemption to the next, is an action.
`Remove` leaves the pointer in the table: the destructor of PCB deletes the semaphores and then calls
`Thread::Finish`, which does not return, so the memory stays, `parentID` included. Using a null
pointer, a deleted semaphore, or deleting one in use ends the behaviour in a named fault, since what
follows is undefined. With `Disciplined` the programs join each child once and then
call `Exit(0)`; without it they call anything in any order.
`ExecUpdate` compares the program name with memory that `SysExec` has freed; the comparison can come out
either way.

**SemTable** (`stable.cc`, `sem.cc`, `SysCreateSemaphore`, `SysWait`, `SysSignal`).

**OpenFiles** (the file calls of `ksyscall.h` over `filesys.h` and `openfile.h` as built with
`FILESYS_STUB`, which the Makefiles define). `openFiles` is the table that all processes share, with the mode
of each entry; `files` are the UNIX files behind it, external code modelled by how the calls use it. A
write past the end leaves holes.

**WaterTap** (`test/main.c`, `test/sinhvien.c`). One parent and its students as processes whose every
step is one system call of SemTable or OpenFiles. Exec and Join are what Processes promises of
disciplined programs.

**AddrSpace** (`coff2noff.c`, `bitmap.cc`, `addrspace.cc`, `progtest.cc`). `coff2noff` lays out the file, the main
thread loads with `AddrSpace()` and `Load`, children with `AddrSpace(char*)` under `addrLock`; a thread
can be preempted only at the two ends of the lock. The bitmap is kept word by word, as in the code, and has
more bits than the memory has frames, as in the code.

**SynchDisk** (`disk.cc`, `synchdisk.cc`). A request moves the data at once and interrupts later, as the
simulated disk does.

**FileSystem** (`filesys.cc`, `directory.cc`, `filehdr.cc`, `pbitmap.cc`, `openfile.cc`, the commands of
`main.cc`), which is the build *without* `FILESYS_STUB`. The disk is a function from sectors to what they
hold; a command's sector writes are listed in `todo` and made one by one, so every prefix of them is a
state in which the machine may have stopped. The directory takes two sectors and one of its
entries lies across both (`Straddle`).

**SynchConsole** (`console.cc`, `synchconsole.cc`). A poll that finds nothing only schedules the next
one and is no step. **Terminal** is an instance of it with threads and variables of its own, so that one module
can speak of the console and of another driver.

**ConsoleCalls** (the console calls of `ksyscall.h`, `User2System` and `System2User`). One process; characters
are kept as their codes, integers keep their width (`IntBits`).

**PostOffice** (`network.cc`, `post.cc`) for any number of machines. The host's datagram
socket, which keeps order and loses nothing, is `wire`; the simulated loss is the choice in `Send`.

**NetworkTest** (`Kernel::NetworkTest`) puts two main threads on top of two post offices.

**Mips** (`mipssim.cc`, `translate.cc`, `machine.cc`, `exception.cc`). Every instruction, with words of four
`ByteBits`-bit bytes: all masks and shifts are scaled, and the arithmetic is done on the whole range.

**Interrupts** (`interrupt.cc`, `timer.cc`, `alarm.cc`, `disk.cc`). The sorted pending list with its times,
`OneTick`, `Idle` and `CheckIfDue`, and the rotating disk's latency.

**Containers** (`list.cc`, `hash.cc`). Lists cell by cell, with `first`, `last` and `numInList`; the hash
table as buckets of lists.

Modules named `MC...` are the instances for TLC. Several parts share one instance: the variable `part`
is chosen in the initial state, and only that part moves, so each behaviour is one of the
part's own. Modules named `...Proofs` and `...Steps` hold the proofs.

Definitions called "Broken variant" or "A bug" are deliberately wrong versions of the definition
they precede. No specification uses them; each shows a mistake in the code that a property would catch.

## 3. Runs

`tlc -config X.cfg M` runs one; `PROJECT.json` lists them with their properties, and for each property a
mutant: a plausible mistake in the code for which the run fails.

| Run | Instance | Shows |
|---|---|---|
| scheduler | main and 2 more threads, 1 semaphore that a device also signals, values up to 2 | places of threads, wake-ups, carcasses, registers, machine status; P and V atomic; ready threads run |
| synchlist | monitor: 4 threads; list: 3 threads, 3 items | exclusion, no lost signal, a signalled thread goes on; FIFO refinement, no forgotten consumer, calls return |
| processes | 3 slots, arbitrary programs, main's id 0 or garbage | table consistent; Join after Exit |
| processes_join | 3 slots, disciplined programs | no fault, no orphan; Join completes |
| programs | semaphores: 3 processes, 3 names, 2 slots, values -1 to 1; files: 4 slots, 2 bytes; tap: `main.c` with up to 3 students asked for and 2 possible, 3 litres each; spaces: 3 programs of three layouts, 4 physical pages of 2 bytes, 8 bitmap bits in words of 3 | directory of semaphores, also when full; read-only files stay; the tap loses no entry and serves all; every program finds its image, and loading ends |
| disk | driver: 3 threads, 2 sectors; file system: 11 sectors of 2 bytes, 2 directory entries, 3 names, files of several lengths | device rules kept, atomic sectors, calls return; a stop harms only the file in hand; no sector leaked or used twice |
| devices | post office: 2 machines, 2 clients, 2 boxes, 2 contents, reliable or lossy; network test: the same machines; console: 2 threads, 2 characters, 3 typed, 2 shown | mail in order and once, senders exclude, arrival; an acknowledgement means receipt; no character lost, doubled or reordered, and characters move |
| sequential | processor: every instruction, two in sequence, 8-bit words of 2-bit bytes, 2 pages; clock: 12 ticks, disk of 2 tracks of 3 sectors; containers: 5 items; calls: 8-bit integers, lines of 4 | the parts against reference definitions |

Types: those of Scheduler, Monitor and SemTable are proved; the other runs check a `...TypeOK` as a
conjunct of their main invariant, which is proved for Processes, PostOffice, SynchDisk, SynchConsole, OpenFiles
and Interrupts (in Containers and ConsoleCalls the reference definition fixes the types).

What the runs of sequential parts compare: instructions with integer arithmetic on the mathematical
integers (`CpuArithmetic`); a run with a trap with the same run without it (`CpuTraps`); pairs of unaligned
accesses with one unaligned word (`CpuUnaligned`); the order in which handlers ran with the order of
their times (`ClockOrder`); the end of a disk request with the position of the rotating platter
(`ClockDisk`); list cells with a sequence, hash buckets with a set (`ContainersRight`); the number
calls with the decimal numerals, the copies with the user's memory (`CallsRight`).

**Bounds.** Three threads are one running, one woken and one that barges in between; a fourth is
needed in the monitor for two waiters, a signaller and a barger. Three table slots allow a child to
exit and its slot to be reused by another parent. Two semaphore slots against three names make the
table full. Two mails make one wait in the socket while another is buffered. Three layouts that need more
than the memory make the bitmap run out while another program loads, and words of 3 bits put the
end of the bitmap inside a word. Eleven sectors and two directory entries make both run out;
sectors of 2 bytes against transfers of 3 make every transfer begin or end inside a sector. Words of 8 bits
contain all the sign, carry and overflow cases, and two instructions are one and its delay slot.
`MaxValue`, `MinValue`, `MaxNumWait`, `MaxTyped`, `MaxShown`, `MaxBytes`, `MaxLine`, `MaxSteps` and
`MaxTicks` only cut counters and inputs off.

**Deadlock** is checked except where the system may rightly stop: all threads wait in a monitor, list,
semaphore or mailbox, the input has ended, the programs are done, or the machine has halted.

**Fairness** is weak fairness of the steps that simulated time forces: a pending interrupt occurs, a
thread that can go on inside a system call does. Scheduler's fairness is on the single processor's
steps, and strong on the timer, which the code never disables; `ReadyRuns` is what gives the threads of the
higher modules their fairness. In the run of programs the lab's programs go from call to call,
which their code does without a loop that could go on for ever; loaders go through their
three steps. Semaphores let late callers overtake, so a single call is not promised to return while
others keep calling; the liveness properties of the higher modules say "if no more calls are made". At the
tap no such condition is needed, for each student comes a bounded number of times.

### Disagreements with a comment or a header

Four runs end in a counterexample to what a text says:

| Run | The text | What the code does |
|---|---|---|
| join_only_by_parent | `ptable.cc:109`: only the parent joins, otherwise -1 | check and use are apart; after slot reuse another parent's process is joined |
| console_end | `synchconsole.cc:50`: waits for EOF or a character | only the first reader is told about EOF |
| frames_in_memory | `kernel.cc:122`: the bitmap manages the physical frames; `addrspace.cc:523` | it has 256 bits for 128 frames, so frames that do not exist are given out |
| console_write | `syscall.h:148`: Write can be used on the console's id directly | `filesys.h:62` gives that id the type that `SysWrite` refuses |

Others were met while translating the code. The model contains the behaviour, but no run is spent on it:

| The text, or what one expects | What the code does |
|---|---|
| `ptable.cc:109`: an illegal id is reported and -1 returned | `ptable.cc:117` reads through a null pointer for an unused id (fault "null pcb") |
| `pcb.h:30`: number of waiting processes | `numwait` stays at 1 when the child exits before the Join |
| `syscall.h:107`: the program is done | `ksyscall.h:471`: `Exit(n)`, n other than 0, returns |
| `synch.cc:57`: nobody waits on a deleted semaphore | `ptable.cc:194`: a process can (fault "semaphore in use") |
| `ptable.cc:142`: Exit of the main process halts | `thread.cc:37`: its processID is never initialised |
| `synch.h:56`: value always >= 0 | `stable.cc:56` accepts a negative initial value |
| `network.h:107`: packet is being sent | `sendBusy` is never set (`network.cc:165`) |
| SRL and SRLV shift in zeros | `mipssim.cc:520-530` shifts a signed `tmp`, so the sign comes in |
| a write in a load's delay slot stays | the delayed load overwrites it |
| a branch is taken though its delay slot holds a system call | `ModifyReturnPoint` (`exception.cc:53`) sets both program counters and loses the branch |
| PrintNum prints every integer | `ksyscall.h:96`: the least integer has no negation and comes out wrong |
| both bss sections are accepted when contiguous | `coff2noff.c:272` refuses exactly the contiguous ones |
| a program that does not fit is not run | it runs with 0 pages, and its first access ends the machine |
| frames are given back at Exit | the address space is never deleted |
| ids of open files are a process's own | one table for all; `CreateFile` truncates a file others have open |

## 4. Proofs

The theorems hold for every value of the constants that the named assumptions allow. They are in eight
modules; the arguments, part by part:

### The thread system

For every finite set of threads, every set of semaphores and every initial value
(`ThreadsAssumption`, `SemaphoresAssumption`, `NullAssumption`), in two modules:

* `SchedulerSteps`: the lists as sets (`EmptyQueue`, `AppendQueue`, `TailQueue` say what the list
  operations do to the members of a queue), type correctness, the inductive invariant and its pieces
  (`PlacedParts`, `PlacedNext`), what a signal and a yield do (`SignalEffect`, `YieldEffect`), and that
  the code which several actions share keeps the invariant (`MovePlaced`, `SamePlaced`,
  `SignalPlaced`, `YieldPlaced`, `DispatchPlaced`);
* `SchedulerProofs`, which extends it: the actions keep the invariant (`NextPlaced`), and from it
  placement, control points, carcasses, wake-ups, the refinement of `Semaphore`, user registers and
  machine status.

The inductive invariant is
`Placed == TypeOK /\ ThreadPlacement /\ ControlPoints /\ CarcassCollected`. `ThreadPlacement` alone is
not inductive: that a thread put on a list was on none needs its status to agree
with the point where its code continues (`ControlPoints`), and that a thread block is not reused
while it is on its way out needs `CarcassCollected`. `NoLostWakeup`, `UserRegistersKept` and
`MachineStatusRight` are inductive relative to `Placed`; the first counts the woken threads of a semaphore
(`SignalWakes`, with the library's theorems on cardinality).

### Monitor and SynchList

`ListProofs` (`MonitorAssumption`: finitely many threads) first shows that `MonitorKept` with the
types is inductive as it stands: who holds the lock, what its semaphore's value is, and where in Wait a
thread is determine each other. These lemmas speak of one step each, and those about the list use them
again. For the list the inductive invariant `ListInv` adds `CallsAgree`, which ties a thread's place in the
list's code to its place in the monitor. That no waiter is forgotten is a count: the items are covered
by threads that are on their way to take one or to signal (`Covered`). The refinement of `Fifo` maps an
operation to its moment in the critical section (`Called` says which threads are before it).

### Pending interrupts

The last part of `ListProofs` is about `Interrupts` (`ClockAssumption`: ticks, delays, rotation time and the size
of the disk are positive, and a user instruction takes no longer than a kernel one, as in `stats.h` and
`disk.h`). `ClockOrder` is not inductive: when an interrupt is put behind others of the same time, that
these were scheduled no later has to be known, so `ClockInv` adds that nothing pending was scheduled in the
future. `InsertPlace`, `PutAtHolds` and `InsertKeeps` say what the sorted insertion makes of a list in
order: the list with the new item, in order. `SeekTakes` and `LatencyTakes` show that the disk's latency is
positive whatever the position of the head; with the timer's and the console's delays this gives that a
handler never schedules an interrupt that is already due, so that the loop of `CheckIfDue` comes to
its end with everything due handled. That `Idle` never halts is the last conjunct: the timer's interrupt, once
taken, is scheduled again in the same step.

### Named semaphores, open files and the lab's programs

`WaterTapSteps` and `WaterTapProofs`, which extends it, are about three modules.

SemTable (`SemTableAssumption`: any processes and names, any table size, any initial values) needs
`TableInv`: bitmap, pointers and names agree, a name is in at most one marked slot, and a process waits in
a marked slot. The refinement maps the table to the partial function from names to values;
that Create refuses only when the directory is full (`RoomLeft`) follows since marked slots and
names correspond one to one.

OpenFiles (`OpenFilesAssumption`: any names, contents and table size; the null pointer is neither an open file
nor the contents of one). `FilesInv` says that the `type` of a slot in use is the one asked for when it was opened,
although slots and their types are used again after Close, and that a slot in use is a file that exists. From
it `FilesCorrect` says what any sequence of calls by any programs may do to a file.

WaterTap (`TapAssumption`: any students, litres and input; the table has room for `main.c` and one student).
`TapInv` adds to the two invariants: `TapGuarded`, that the semaphore has no unit before `main.c` signals, and
after that one unit or one student at the tap, but not both; `IdsHeld`, that every id in use is that of
`main.c` or of the student at the tap (so the next student finds a free slot), and that the offset of this
student's open file is the file's end when it comes to write; and `Lines`, what is in output.txt. That a
student has one entry for every litre is a count of positions in the file (`Visits`), which grows by one with the
Write of an id and is left alone by every other step. `TapCorrect` concludes `AppendsKept`.

### The process table

`ProcessesProofs` (`ProcessesAssumption`: any table size; `NullAssumption`: the null pointer points to no
PCB) has two inductive invariants.

`Inv` holds whatever the programs do, faults included. Neither `SlotsAgree` nor `JoinAfterExit` is
inductive. `Pointers` adds that the PCBs a system call is about to use exist, and `Handshake` that the
semaphores `joinsem` and `exitsem` of a process hold at most one unit between them, and only while
the process is in Exit: from this a Join that gets through `joinsem` finds a process that has exited
and is not yet removed, even if the slot has changed hands since the check of the parent.

`Family` is for programs that join each child once and exit with 0, started by a main thread whose
uninitialised `processID` happens to be 0: the hypotheses `Disciplined` and `MainIDs = {0}` of
`ChildrenCorrect` and `DisciplinedJoinCorrect`, which the run processes_join instantiates. It follows each
process from its parent's Exec (`Made`) through the time when the parent may join it (`Kids`) to the Join
(`Joins`); a process that exits has no children left (`Childless`), and every process that has not
been let go has such a parent (`Parents`). `DisciplinedJoinCorrect` marks off the run
join_only_by_parent: what the comment in `ptable.cc` says is true of these programs, and it is the second
Join of a child that breaks it.

### The drivers of disk and console

`SynchDeviceProofs`, the disk (`SynchDiskAssumption`: any threads, sectors and data).
`DiskIdleAtRequest` is inductive as it stands. The refinement of `AtomicDisk`, with the request as the
moment an operation takes effect, needs in addition that a thread between call and request has an
operation (`OperationKnown`).

The console is that of Terminal (`TerminalAssumption`: the null pointer is no thread, and EOF is no
character). The inductive
invariant `ConsoleInv` says which thread holds which lock (`Turns`), that one unit of the input's
semaphore, or the reader that has taken it, stands for the buffered character or the end of the input
(`Keys`), and the same of the display's interrupt and the thread that waits for it (`Display`).

### Post office and network test

`PostOfficeProofs` (`PostOfficeAssumption`, `NoMailAssumption`: any machines, boxes, messages and clients).
`PostInv` is `MailInOrder` and `SendExclusive` made inductive: `SendTurn` ties the lock of the
sender to its interrupt and its semaphore, `Buffered` the one-packet buffer to the unit of
`messageAvailable` and to the worker, `Letters` gives the types of what clients hold. What is on its way to a box
is a recursive function of the socket's contents (`ForBox`); that it follows a sequence which grows at one end
and shrinks at the other (`ForBoxAppend`, `ForBoxCons`) is proved by induction on the length.

For the network test (`NetworkTestAssumption`: two machines, two boxes, two messages) `TestInv` adds
`MailGenuine`: each mail anywhere is a message, or an acknowledgement whose sender has received a message of
the machine it goes to; and `Script`: how far each main thread is and what it has received. A lost packet
is one that never becomes mail, so nothing in the argument needs the network to be reliable.

### Theorems

| Theorem | Module | Says |
|---|---|---|
| TypeCorrect | SchedulerSteps | types |
| PlacementCorrect | SchedulerProofs | every thread is in exactly one place |
| ControlCorrect | SchedulerProofs | status and continuation agree |
| CarcassCorrect | SchedulerProofs | a finished thread is deleted by the next one to run |
| WakeupCorrect | SchedulerProofs | no lost wake-up (units against woken threads, by counting) |
| SemaphoreRefinement | SchedulerProofs | P and V implement `Semaphore` |
| UserRegistersCorrect | SchedulerProofs | user registers survive switches |
| MachineStatusCorrect | SchedulerProofs | the machine status is that of the running code |
| MonitorCorrect | ListProofs | the lock excludes, Wait misses no signal |
| ListMonitorCorrect | ListProofs | the same for the threads of SynchList |
| WaitersRemembered | ListProofs | no consumer sleeps beside an item nobody comes for |
| FifoRefinement | ListProofs | SynchList implements `Fifo` |
| ClockCorrect | ListProofs | interrupts are handled in the order of their times, neither early nor late |
| FilesCorrect | WaterTapSteps | a file changes only by CreateFile or through an id opened for writing |
| TapCorrect | WaterTapProofs | the lab's programs lose no entry of output.txt |
| DirectoryRefinement | WaterTapProofs | the table implements `SemDirectory` |
| DiskRules | SynchDeviceProofs | no request of an active disk; each interrupt wakes its requester |
| DiskRefinement | SynchDeviceProofs | SynchDisk implements `AtomicDisk` |
| ConsoleCorrect | SynchDeviceProofs | no character lost, doubled or reordered; no PutChar of a busy display |
| SlotsCorrect | ProcessesProofs | bitmap, PCBs and threads agree, whatever programs do |
| JoinCorrect | ProcessesProofs | Join returns only after Exit, and one Join per Exit, whatever programs do |
| ChildrenCorrect | ProcessesProofs | disciplined programs cause no fault and leave no orphan |
| DisciplinedJoinCorrect | ProcessesProofs | disciplined programs join only their children |
| SendCorrect | PostOfficeProofs | one packet at a time; each interrupt wakes its sender |
| OrderCorrect | PostOfficeProofs | mail that is not lost arrives once, in its box and in order |
| AckCorrect | PostOfficeProofs | a finished test means that the other machine has received |
| TestPostCorrect | PostOfficeProofs | the post offices keep their promises under the test |

Only model-checked:

* All liveness: fairness and `ENABLED` are out of the provers' reach.
* Mips, Containers and ConsoleCalls. What they compute (instruction sequences, numerals, lists cell by cell)
  is defined by recursion through several operators, some of them `RECURSIVE`, which rules out their proofs;
  and Mips uses bit operations for which there is no prover support.
* FileSystem and AddrSpace. A file, a free map and an image are read and written round by round, by folds over
  what the rounds before have done, and addresses are split by division by a constant of any size. Both are
  induction over data together with nonlinear arithmetic.
* `ClockDisk`, the latency of the disk, is modular arithmetic with two moduli, which the provers do not find; only that
  a latency is positive is proved (`LatencyTakes`).

Induction over data is within reach where one small recursive function is concerned: the library's
induction principles take a predicate, which no installed prover can instantiate, and `SetInduction` in
`PostOfficeProofs` replaces the predicate by a set, from the well-foundedness of the naturals. In
`ListProofs` the same well-foundedness gives the least position at which `Insert` puts an interrupt (`Least`).

## 5. Not modelled

* **Kernel start and command line** (`main.cc` options, `Kernel::Initialize`): sequential parsing and
  construction. What the constructors set up is each module's Init.
* **Host interface, debugging output, statistics, self tests** (`sysdep.cc`, `debug.cc`, `stats.cc`, the
  user-level debugger, `SelfTest`, `SanityCheck`): input and output, and counters that nothing reads. The UNIX
  file calls that OpenFiles needs are modelled as external code.
* **The TLB** (`translate.cc`): no build enables it.
* **Stack contents and `SWITCH`** (`switch.S`, stack fenceposts): the model keeps whose stack and registers
  are in use, which is what the kernel's logic depends on.
* **Listing the file system** (`List`, `Print` of directory, headers, map): output only. The constructor that
  formats the disk is commented out in `filesys.cc`; its result is FileSystem's initial state.
* **Commands after a stop in mid-operation.** `filesys.cc:38-40` says that the disk may be corrupt
  then: Create writes the header, the directory and the map in this order, so sectors of the new file may
  be marked free. FileSystem shows what is still right at that point, and goes no further.
* **`List::SortedInsert`** (`list.cc:388`), which nothing calls, and which does not count the item.
* **The other programs in `test/`**: sequential users of the calls that are modelled.
* **Byte 255 at the keyboard**, which `console.cc:107` takes for the end of the input: the characters of SynchConsole
  are those that differ from EOF.
* **Numbers and strings of two processes at one console** interleave character by character, since
  each call prints with single PutChars: the code promises nothing more.
