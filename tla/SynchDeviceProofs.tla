--------------------------- MODULE SynchDeviceProofs ---------------------------
(***************************************************************************)
(* Proofs about the two drivers that wait for a device, for any sets of    *)
(* threads and data.                                                       *)
(*                                                                         *)
(* SynchDisk keeps the rules of the disk, and it implements AtomicDisk:    *)
(* DiskIdleAtRequest is inductive as it stands, and the refinement needs   *)
(* one more fact, that a thread which has called and not yet requested has *)
(* an operation.                                                           *)
(*                                                                         *)
(* SynchConsole, as Terminal instantiates it, loses, doubles and reorders  *)
(* nothing that is typed, and puts no character while the display is busy: *)
(* ConsoleInv below is inductive.                                          *)
(***************************************************************************)
EXTENDS SynchDisk, Terminal, TLAPS

\* A thread between its call and its request knows what to do: the arguments of
\* ReadSector and WriteSector stay on its stack while it waits for the lock.
OperationKnown ==
  \A t \in Threads : pc[t] \in {"acquire", "request"} => op[t] \in Operations

LEMMA InitIdle == Init => DiskIdleAtRequest /\ OperationKnown
<1> SUFFICES ASSUME Init PROVE DiskIdleAtRequest /\ OperationKnown
  OBVIOUS
<1>1. TypeOK
  BY SynchDiskAssumption, Zenon DEF Init, TypeOK, Points
<1>2. \A t \in Threads : pc[t] = "idle" /\ lock # t
  BY SynchDiskAssumption DEF Init
<1>3. QED
  BY <1>1, <1>2, Zenon DEF Init, DiskIdleAtRequest, OperationKnown

-----------------------------------------------------------------------------
(* One lemma per action *)

LEMMA CallKeeps ==
  ASSUME DiskIdleAtRequest, OperationKnown, NEW t \in Threads, NEW o \in Operations, Call(t, o)
  PROVE  DiskIdleAtRequest' /\ OperationKnown'
<1> USE DEF Call, Goto
<1>1. TypeOK'
  BY DEF DiskIdleAtRequest, TypeOK, Points
<1>2. \A u \in Threads : pc'[u] = IF u = t THEN "acquire" ELSE pc[u]
  BY DEF DiskIdleAtRequest, TypeOK
<1>3. \A u \in Threads : op'[u] = IF u = t THEN o ELSE op[u]
  BY DEF DiskIdleAtRequest, TypeOK
<1>4. OperationKnown'
  BY <1>2, <1>3 DEF OperationKnown
<1>5. (\E u \in Threads : pc[u] = "wait") <=> (\E u \in Threads : pc'[u] = "wait")
  BY <1>2
<1>6. \A u \in Threads : pc'[u] \in {"request", "wait", "release"} <=> lock' = u
  BY <1>2 DEF DiskIdleAtRequest
<1>7. QED
  BY <1>1, <1>4, <1>5, <1>6 DEF DiskIdleAtRequest

LEMMA AcquireKeeps ==
  ASSUME DiskIdleAtRequest, OperationKnown, NEW t \in Threads, Acquire(t)
  PROVE  DiskIdleAtRequest' /\ OperationKnown'
<1> USE DEF Acquire, Goto
<1>1. TypeOK'
  BY DEF DiskIdleAtRequest, TypeOK, Points
<1>2. \A u \in Threads : pc'[u] = IF u = t THEN "request" ELSE pc[u]
  BY DEF DiskIdleAtRequest, TypeOK
<1>3. OperationKnown'
  BY <1>2 DEF OperationKnown
<1>4. (\E u \in Threads : pc[u] = "wait") <=> (\E u \in Threads : pc'[u] = "wait")
  BY <1>2
<1>5. \A u \in Threads : pc'[u] \in {"request", "wait", "release"} <=> lock' = u
  BY <1>2, SynchDiskAssumption DEF DiskIdleAtRequest
<1>6. QED
  BY <1>1, <1>3, <1>4, <1>5 DEF DiskIdleAtRequest

\* Only the holder of the lock can be at the disk, so nobody waits when a request is made.
LEMMA RequestKeeps ==
  ASSUME DiskIdleAtRequest, OperationKnown, NEW t \in Threads, Request(t)
  PROVE  DiskIdleAtRequest' /\ OperationKnown'
<1> USE DEF Request, Goto
<1>1. op[t] \in Operations
  BY DEF OperationKnown
<1>2. TypeOK'
  <2>1. op[t].sector \in Sectors /\ op[t].data \in Data
    BY <1>1 DEF Operations
  <2> DEFINE d == IF op[t].write THEN op[t].data ELSE sectors[op[t].sector]
  <2>2. d \in Data
    BY <2>1 DEF DiskIdleAtRequest, TypeOK
  <2>3. sectors' \in [Sectors -> Data] /\ buffer' \in [Threads -> Data \cup {NULL}]
    BY <2>1, <2>2 DEF DiskIdleAtRequest, TypeOK
  <2>4. QED
    BY <2>3 DEF DiskIdleAtRequest, TypeOK, Points
<1>3. \A u \in Threads : pc'[u] = IF u = t THEN "wait" ELSE pc[u]
  BY DEF DiskIdleAtRequest, TypeOK
<1>4. OperationKnown'
  BY <1>3 DEF OperationKnown
<1>5. \A u \in Threads : pc'[u] \in {"request", "wait", "release"} <=> lock' = u
  BY <1>3 DEF DiskIdleAtRequest
<1>6. ~ \E u \in Threads : pc[u] = "wait"
  BY DEF DiskIdleAtRequest
<1>7. semaphore = 0
  BY <1>6 DEF DiskIdleAtRequest
<1>8. QED
  BY <1>2, <1>3, <1>4, <1>5, <1>7 DEF DiskIdleAtRequest

\* The interrupt belongs to the thread that waits: its unit goes to nobody else.
LEMMA CallBackKeeps ==
  ASSUME DiskIdleAtRequest, OperationKnown, CallBack
  PROVE  DiskIdleAtRequest' /\ OperationKnown'
<1> USE DEF CallBack
<1>1. TypeOK'
  <2>1. semaphore' \in Nat
    BY DEF DiskIdleAtRequest, TypeOK
  <2>2. active' \in BOOLEAN /\ interrupt' \in BOOLEAN
    BY Zenon
  <2>3. QED
    BY <2>1, <2>2, Zenon DEF DiskIdleAtRequest, TypeOK
<1>2. (\E u \in Threads : pc[u] = "wait") /\ semaphore = 0
  BY DEF DiskIdleAtRequest
<1>3. semaphore' = 1 /\ active' = FALSE
  BY <1>2
<1>4. QED
  BY <1>1, <1>2, <1>3, Zenon DEF DiskIdleAtRequest, OperationKnown

LEMMA WaitPKeeps ==
  ASSUME DiskIdleAtRequest, OperationKnown, NEW t \in Threads, WaitP(t)
  PROVE  DiskIdleAtRequest' /\ OperationKnown'
<1> USE DEF WaitP, Goto
<1>1. semaphore = 1 /\ ~ active
  BY DEF DiskIdleAtRequest
<1>2. TypeOK'
  BY <1>1 DEF DiskIdleAtRequest, TypeOK, Points
<1>3. \A u \in Threads : pc'[u] = IF u = t THEN "release" ELSE pc[u]
  BY DEF DiskIdleAtRequest, TypeOK
<1>4. OperationKnown'
  BY <1>3 DEF OperationKnown
<1>5. \A u \in Threads : pc'[u] \in {"request", "wait", "release"} <=> lock' = u
  BY <1>3 DEF DiskIdleAtRequest
<1>6. ~ \E u \in Threads : pc'[u] = "wait"
  BY <1>3, <1>5 DEF DiskIdleAtRequest
<1>7. QED
  BY <1>1, <1>2, <1>4, <1>5, <1>6 DEF DiskIdleAtRequest

LEMMA ReleaseKeeps ==
  ASSUME DiskIdleAtRequest, OperationKnown, NEW t \in Threads, Release(t)
  PROVE  DiskIdleAtRequest' /\ OperationKnown'
<1> USE DEF Release, Goto
<1>1. TypeOK'
  BY DEF DiskIdleAtRequest, TypeOK, Points
<1>2. \A u \in Threads : pc'[u] = IF u = t THEN "idle" ELSE pc[u]
  BY DEF DiskIdleAtRequest, TypeOK
<1>3. \A u \in Threads : u # t => op'[u] = op[u]
  BY DEF DiskIdleAtRequest, TypeOK
<1>4. OperationKnown'
  BY <1>2, <1>3 DEF OperationKnown
<1>5. (\E u \in Threads : pc[u] = "wait") <=> (\E u \in Threads : pc'[u] = "wait")
  BY <1>2
<1>6. \A u \in Threads : pc'[u] \in {"request", "wait", "release"} <=> lock' = u
  BY <1>2, SynchDiskAssumption DEF DiskIdleAtRequest
<1>7. QED
  BY <1>1, <1>4, <1>5, <1>6 DEF DiskIdleAtRequest

LEMMA NextKeeps ==
  ASSUME DiskIdleAtRequest, OperationKnown, [Next]_vars
  PROVE  DiskIdleAtRequest' /\ OperationKnown'
<1>1. CASE CallBack
  BY <1>1, CallBackKeeps
<1>2. ASSUME NEW t \in Threads, NewCall(t) PROVE DiskIdleAtRequest' /\ OperationKnown'
  BY <1>2, CallKeeps DEF NewCall
<1>3. ASSUME NEW t \in Threads, Work(t) PROVE DiskIdleAtRequest' /\ OperationKnown'
  BY <1>3, AcquireKeeps, RequestKeeps, WaitPKeeps, ReleaseKeeps DEF Work
<1>4. CASE UNCHANGED vars
  BY <1>4 DEF vars, DiskIdleAtRequest, TypeOK, OperationKnown
<1>5. QED
  BY <1>1, <1>2, <1>3, <1>4 DEF Next

\* SynchDisk keeps the disk's rules: the ASSERT(!active) of Disk::ReadRequest and
\* WriteRequest cannot fail, and each interrupt wakes the thread whose request it ends.
THEOREM DiskRules == Spec => []DiskIdleAtRequest
<1>1. Init => DiskIdleAtRequest /\ OperationKnown
  BY InitIdle
<1>2. DiskIdleAtRequest /\ OperationKnown /\ [Next]_vars => DiskIdleAtRequest' /\ OperationKnown'
  BY NextKeeps
<1>3. QED
  BY <1>1, <1>2, PTL DEF Spec

-----------------------------------------------------------------------------
(* The refinement: an operation takes effect in Request. *)

\* The operations that AtomicDisk still has to do
Todo == [t \in Threads |-> IF pc[t] \in {"acquire", "request"} THEN op[t] ELSE NULL]

LEMMA CallImplements ==
  ASSUME TypeOK, NEW t \in Threads, NEW o \in Operations, Call(t, o)
  PROVE  Atomic!Call(t, o)
<1>1. \A u \in Threads : /\ pc'[u] = IF u = t THEN "acquire" ELSE pc[u]
                         /\ op'[u] = IF u = t THEN o ELSE op[u]
  BY DEF Call, Goto, TypeOK
<1>2. Todo[t] = NULL
  BY DEF Call, Goto, Todo
<1>3. Todo' = [Todo EXCEPT ![t] = o]
  BY <1>1, Zenon DEF Todo
<1>4. QED
  BY <1>2, <1>3 DEF Call, Atomic!Call, Todo

LEMMA RequestImplements ==
  ASSUME TypeOK, OperationKnown, NEW t \in Threads, Request(t)
  PROVE  Atomic!Do(t)
<1>1. pc[t] = "request" /\ op[t] \in Operations
  BY DEF Request, Goto, OperationKnown
<1>2. Todo[t] = op[t] /\ Todo[t] # NULL
  BY <1>1, SynchDiskAssumption DEF Todo
<1>3. \A u \in Threads : pc'[u] = IF u = t THEN "wait" ELSE pc[u]
  BY DEF Request, Goto, TypeOK
<1>4. op' = op
  BY DEF Request
<1>5. Todo' = [Todo EXCEPT ![t] = NULL]
  BY <1>3, <1>4, Zenon DEF Todo
<1>6. QED
  BY <1>2, <1>5, Zenon DEF Request, Atomic!Do, Todo

\* The other steps, of the driver and of the disk's handler, change nothing that a
\* caller of AtomicDisk sees.
LEMMA OthersStutter ==
  ASSUME TypeOK, OperationKnown,
         CallBack \/ UNCHANGED vars
           \/ \E t \in Threads : Acquire(t) \/ WaitP(t) \/ Release(t)
  PROVE  UNCHANGED Atomic!vars
<1>1. sectors' = sectors /\ buffer' = buffer
  BY DEF CallBack, vars, Acquire, WaitP, Release
<1>2. Todo' = Todo
  <2>1. CASE CallBack \/ UNCHANGED vars
    BY <2>1 DEF CallBack, vars, Todo
  <2>2. ASSUME NEW t \in Threads, Acquire(t) PROVE Todo' = Todo
    <3>1. op' = op
      BY <2>2 DEF Acquire
    <3>2. \A u \in Threads : pc'[u] \in {"acquire", "request"} <=> pc[u] \in {"acquire", "request"}
      BY <2>2 DEF Acquire, Goto, TypeOK
    <3>3. QED
      BY <3>1, <3>2 DEF Todo
  <2>3. ASSUME NEW t \in Threads, WaitP(t) PROVE Todo' = Todo
    <3>1. op' = op
      BY <2>3 DEF WaitP
    <3>2. \A u \in Threads : pc'[u] \in {"acquire", "request"} <=> pc[u] \in {"acquire", "request"}
      BY <2>3 DEF WaitP, Goto, TypeOK
    <3>3. QED
      BY <3>1, <3>2 DEF Todo
  <2>4. ASSUME NEW t \in Threads, Release(t) PROVE Todo' = Todo
    <3>1. \A u \in Threads : /\ u # t => pc'[u] = pc[u] /\ op'[u] = op[u]
                             /\ u = t => pc[u] = "release" /\ pc'[u] = "idle"
      BY <2>4 DEF Release, Goto, TypeOK
    <3>2. QED
      BY <3>1 DEF Todo
  <2>5. QED
    BY <2>1, <2>2, <2>3, <2>4
<1>3. QED
  BY <1>1, <1>2 DEF Atomic!vars, Todo

\* SynchDisk implements a disk with atomic sectors: with any number of threads in
\* ReadSector and WriteSector, each operation takes effect at one moment, in the
\* request to the disk, between its call and its return.
THEOREM DiskRefinement == Spec => AtomicPromise
<1>1. Init => Atomic!Init
  BY DEF Init, Atomic!Init
<1>2. ASSUME DiskIdleAtRequest, OperationKnown, [Next]_vars
      PROVE  [Atomic!Next]_(Atomic!vars)
  <2> USE DEF DiskIdleAtRequest
  <2>1. ASSUME NEW t \in Threads, NewCall(t) PROVE Atomic!Next
    <3>1. PICK o \in Operations : Call(t, o)
      BY <2>1 DEF NewCall
    <3>2. Atomic!Call(t, o)
      BY <1>2, <3>1, CallImplements
    <3>3. QED
      BY <3>2 DEF Atomic!Next, Operations, Atomic!Operations
  <2>2. ASSUME NEW t \in Threads, Request(t) PROVE Atomic!Next
    BY <1>2, <2>2, RequestImplements DEF Atomic!Next
  <2>3. CASE CallBack \/ UNCHANGED vars \/ \E t \in Threads : Acquire(t) \/ WaitP(t) \/ Release(t)
    BY <1>2, <2>3, OthersStutter
  <2>4. QED
    BY <1>2, <2>1, <2>2, <2>3 DEF Next, Work
<1>3. Init => DiskIdleAtRequest /\ OperationKnown
  BY InitIdle
<1>4. DiskIdleAtRequest /\ OperationKnown /\ [Next]_vars => DiskIdleAtRequest' /\ OperationKnown'
  BY NextKeeps
<1>5. QED
  BY <1>1, <1>2, <1>3, <1>4, PTL DEF Spec, AtomicPromise, Atomic!Spec

-----------------------------------------------------------------------------
(* The console *)

\* Each lock is held by the thread that is between Acquire and Release.
Turns ==
  \A t \in ConsoleUsers : /\ consolePc[t] \in Console!Reading <=> inLock = t
                          /\ consolePc[t] \in Console!Writing <=> outLock = t

\* A thread that prints has a character.
Prints == \A t \in ConsoleUsers : consolePc[t] \in {"outAcquire", "put"} => ch[t] \in Chars

AtRead == inLock # Nobody /\ consolePc[inLock] = "read"

(***************************************************************************)
(* The keyboard is polled while the buffer is empty and nobody is about to *)
(* read it; otherwise one unit of waitFor, or the reader that has taken    *)
(* it, stands for the character or for the end of the input, until EOF has *)
(* been returned.                                                          *)
(***************************************************************************)
Keys ==
  \/ readInt /\ incoming = EOF /\ inWaitFor = 0 /\ ~AtRead /\ ~ended /\ typed = read
  \/ /\ ~readInt /\ inWaitFor = IF AtRead THEN 0 ELSE 1
     /\ \/ ~ended /\ incoming \in Chars /\ typed = Append(read, incoming)
        \/ ended /\ incoming = EOF /\ typed = read
  \/ ~readInt /\ ended /\ inWaitFor = 0 /\ ~AtRead /\ incoming = EOF /\ read = Append(typed, EOF)

\* The display's interrupt, or the unit of waitFor it leaves, is for the thread that waits.
Display ==
  /\ putBusy = writeInt
  /\ IF outLock # Nobody /\ consolePc[outLock] = "outWait"
     THEN outWaitFor = IF writeInt THEN 0 ELSE 1
     ELSE outWaitFor = 0 /\ ~writeInt

ConsoleInv == Console!TypeOK /\ Turns /\ Prints /\ Keys /\ Display

\* What TerminalAssumption says
Distinct == Nobody \notin ConsoleUsers /\ EOF \notin Chars

-----------------------------------------------------------------------------
LEMMA InitConsole == ASSUME Distinct, Console!Init PROVE ConsoleInv
<1>1. Console!TypeOK
  <2>1. readInt \in BOOLEAN /\ writeInt \in BOOLEAN /\ ended \in BOOLEAN /\ putBusy \in BOOLEAN
    BY Zenon DEF Console!Init
  <2>2. /\ consolePc \in [ConsoleUsers -> Console!Points] /\ ch \in [ConsoleUsers -> Chars \cup {EOF, Nobody}]
        /\ typed \in Seq(Chars) /\ read \in Seq(Chars \cup {EOF}) /\ shown \in Seq(Chars)
        /\ inWaitFor \in Nat /\ outWaitFor \in Nat
    BY DEF Console!Init, Console!Points
  <2> QED BY <2>1, <2>2 DEF Console!Init, Console!TypeOK
<1>2. Turns /\ Prints
  BY DEF Distinct, Console!Init, Turns, Prints, Console!Reading, Console!Writing
<1>3. Keys /\ Display
  BY Zenon DEF Console!Init, Keys, AtRead, Display
<1> QED BY <1>1, <1>2, <1>3 DEF ConsoleInv

LEMMA TypedStep ==
  ASSUME ConsoleInv, NEW c \in Chars, Console!Typed(c)
  PROVE ConsoleInv'
<1>1. /\ readInt /\ readInt' = FALSE /\ incoming' = c /\ typed' = Append(typed, c)
      /\ inWaitFor' = inWaitFor + 1
      /\ UNCHANGED <<consolePc, ch, inLock, ended, read, outLock, outWaitFor, putBusy, writeInt,
                     shown>>
  BY DEF Console!Typed, Console!output
<1>2. incoming = EOF /\ inWaitFor = 0 /\ ~AtRead /\ ~ended /\ typed = read
  BY <1>1 DEF ConsoleInv, Keys
<1>3. inWaitFor' = 1 /\ typed' = Append(read', incoming') /\ typed' \in Seq(Chars)
  BY <1>1, <1>2 DEF ConsoleInv, Console!TypeOK
<1>4. Console!TypeOK'
  <2>1. readInt' \in BOOLEAN /\ writeInt' \in BOOLEAN /\ ended' \in BOOLEAN /\ putBusy' \in BOOLEAN
    BY <1>1, Zenon DEF ConsoleInv, Console!TypeOK
  <2> QED BY <1>1, <1>3, <2>1 DEF ConsoleInv, Console!TypeOK
<1>5. Keys'
  BY <1>1, <1>2, <1>3 DEF Keys, AtRead
<1>6. Turns' /\ Prints' /\ Display'
  BY <1>1 DEF ConsoleInv, Turns, Prints, Display
<1> QED BY <1>4, <1>5, <1>6 DEF ConsoleInv

LEMMA EndOfInputStep ==
  ASSUME ConsoleInv, Console!EndOfInput
  PROVE ConsoleInv'
<1>1. /\ readInt /\ readInt' = FALSE /\ ended' = TRUE /\ inWaitFor' = inWaitFor + 1
      /\ UNCHANGED <<consolePc, ch, inLock, incoming, typed, read, outLock, outWaitFor, putBusy,
                     writeInt, shown>>
  BY DEF Console!EndOfInput, Console!output
<1>2. incoming = EOF /\ inWaitFor = 0 /\ ~AtRead /\ ~ended /\ typed = read
  BY <1>1 DEF ConsoleInv, Keys
<1>3. inWaitFor' = 1
  BY <1>1, <1>2
<1>4. Console!TypeOK'
  <2>1. readInt' \in BOOLEAN /\ writeInt' \in BOOLEAN /\ ended' \in BOOLEAN /\ putBusy' \in BOOLEAN
    BY <1>1, Zenon DEF ConsoleInv, Console!TypeOK
  <2> QED BY <1>1, <1>3, <2>1 DEF ConsoleInv, Console!TypeOK
<1>5. Keys'
  BY <1>1, <1>2, <1>3 DEF Keys, AtRead
<1>6. Turns' /\ Prints' /\ Display'
  BY <1>1 DEF ConsoleInv, Turns, Prints, Display
<1> QED BY <1>4, <1>5, <1>6 DEF ConsoleInv

LEMMA WriteDoneStep ==
  ASSUME ConsoleInv, Console!WriteDone
  PROVE ConsoleInv'
<1>1. /\ writeInt /\ writeInt' = FALSE /\ putBusy' = FALSE /\ outWaitFor' = outWaitFor + 1
      /\ UNCHANGED <<consolePc, ch, inLock, inWaitFor, incoming, readInt, ended, typed, read,
                     outLock, shown>>
  BY DEF Console!WriteDone, Console!input
<1>2. outWaitFor = 0 /\ outLock # Nobody /\ consolePc[outLock] = "outWait"
  BY <1>1 DEF ConsoleInv, Display
<1>3. outWaitFor' = 1
  BY <1>1, <1>2
<1>4. Console!TypeOK'
  <2>1. readInt' \in BOOLEAN /\ writeInt' \in BOOLEAN /\ ended' \in BOOLEAN /\ putBusy' \in BOOLEAN
    BY <1>1, Zenon DEF ConsoleInv, Console!TypeOK
  <2> QED BY <1>1, <1>3, <2>1 DEF ConsoleInv, Console!TypeOK
<1>5. Display'
  BY <1>1, <1>2, <1>3, Zenon DEF Display
<1>6. Turns' /\ Prints' /\ Keys'
  BY <1>1 DEF ConsoleInv, Turns, Prints, Keys, AtRead
<1> QED BY <1>4, <1>5, <1>6 DEF ConsoleInv

\* A step that moves one thread, with the lock it takes or gives back
Moves(t, from, to) ==
  /\ consolePc[t] = from /\ consolePc' = [consolePc EXCEPT ![t] = to] /\ consolePc'[t] = to
  /\ \A u \in ConsoleUsers \ {t} : consolePc'[u] = consolePc[u]

LEMMA GotoMoves ==
  ASSUME Console!TypeOK, NEW t \in ConsoleUsers, NEW from, NEW to, Console!Goto(t, from, to)
  PROVE Moves(t, from, to)
  BY DEF Console!TypeOK, Console!Goto, Moves

\* A thread that holds no lock of the input side, before and after
LEMMA KeysSame ==
  ASSUME Distinct, ConsoleInv, NEW t \in ConsoleUsers, consolePc[t] \notin Console!Reading, 
         \A u \in ConsoleUsers \ {t} : consolePc'[u] = consolePc[u], UNCHANGED Console!input
  PROVE Keys'
<1>1. inLock # t /\ UNCHANGED <<inLock, inWaitFor, incoming, readInt, ended, typed, read>>
  BY DEF ConsoleInv, Turns, Console!input
<1>2. AtRead' <=> AtRead
  BY <1>1 DEF AtRead, ConsoleInv, Console!TypeOK
<1> QED BY <1>1, <1>2 DEF ConsoleInv, Keys

LEMMA DisplaySame ==
  ASSUME Distinct, ConsoleInv, NEW t \in ConsoleUsers, consolePc[t] \notin Console!Writing,
         \A u \in ConsoleUsers \ {t} : consolePc'[u] = consolePc[u], UNCHANGED Console!output
  PROVE Display'
<1>1. outLock # t /\ UNCHANGED <<outLock, outWaitFor, putBusy, writeInt>>
  BY DEF ConsoleInv, Turns, Console!output
<1>2. outLock # Nobody => consolePc'[outLock] = consolePc[outLock]
  BY <1>1 DEF ConsoleInv, Console!TypeOK
<1> QED BY <1>1, <1>2 DEF ConsoleInv, Display

LEMMA CallGetCharStep ==
  ASSUME Distinct, ConsoleInv, NEW t \in ConsoleUsers, Console!CallGetChar(t)
  PROVE ConsoleInv'
<1>1. Moves(t, "idle", "inAcquire")
  BY GotoMoves DEF Console!CallGetChar, ConsoleInv
<1>2. /\ ch' = [ch EXCEPT ![t] = Nobody]
      /\ UNCHANGED <<Console!input, Console!output>>
  BY DEF Console!CallGetChar
<1>3. UNCHANGED <<inLock, inWaitFor, incoming, readInt, ended, typed, read,
                  outLock, outWaitFor, putBusy, writeInt, shown>>
  BY <1>2 DEF Console!input, Console!output
<1>4. Console!TypeOK'
  <2>1. consolePc' \in [ConsoleUsers -> Console!Points] /\ ch' \in [ConsoleUsers -> Chars \cup {EOF, Nobody}]
    BY <1>1, <1>2 DEF Moves, ConsoleInv, Console!TypeOK, Console!Points
  <2> QED BY <1>3, <2>1 DEF ConsoleInv, Console!TypeOK
<1>5. Turns'
  BY <1>1, <1>3 DEF Moves, ConsoleInv, Turns, Console!Reading, Console!Writing
<1>6. Prints'
  <2>1. \A u \in ConsoleUsers \ {t} : ch'[u] = ch[u]
    BY <1>2 DEF ConsoleInv, Console!TypeOK
  <2> QED BY <1>1, <2>1 DEF Moves, ConsoleInv, Prints
<1>7. Keys' /\ Display'
  BY <1>1, <1>2, KeysSame, DisplaySame DEF Moves, Console!Reading, Console!Writing
<1> QED BY <1>4, <1>5, <1>6, <1>7 DEF ConsoleInv

LEMMA CallPutCharStep ==
  ASSUME Distinct, ConsoleInv, NEW t \in ConsoleUsers, NEW c \in Chars, Console!CallPutChar(t, c)
  PROVE ConsoleInv'
<1>1. Moves(t, "idle", "outAcquire")
  BY GotoMoves DEF Console!CallPutChar, ConsoleInv
<1>2. /\ ch' = [ch EXCEPT ![t] = c]
      /\ UNCHANGED <<Console!input, Console!output>>
  BY DEF Console!CallPutChar
<1>3. UNCHANGED <<inLock, inWaitFor, incoming, readInt, ended, typed, read,
                  outLock, outWaitFor, putBusy, writeInt, shown>>
  BY <1>2 DEF Console!input, Console!output
<1>4. Console!TypeOK'
  <2>1. consolePc' \in [ConsoleUsers -> Console!Points] /\ ch' \in [ConsoleUsers -> Chars \cup {EOF, Nobody}]
    BY <1>1, <1>2 DEF Moves, ConsoleInv, Console!TypeOK, Console!Points
  <2> QED BY <1>3, <2>1 DEF ConsoleInv, Console!TypeOK
<1>5. Turns'
  BY <1>1, <1>3 DEF Moves, ConsoleInv, Turns, Console!Reading, Console!Writing
<1>6. Prints'
  <2>1. ch'[t] = c /\ \A u \in ConsoleUsers \ {t} : ch'[u] = ch[u]
    BY <1>2 DEF ConsoleInv, Console!TypeOK
  <2> QED BY <1>1, <2>1 DEF Moves, ConsoleInv, Prints
<1>7. Keys' /\ Display'
  BY <1>1, <1>2, KeysSame, DisplaySame DEF Moves, Console!Reading, Console!Writing
<1> QED BY <1>4, <1>5, <1>6, <1>7 DEF ConsoleInv

\* A step of the input side, by a thread that is not on the output side
LEMMA InAcquireStep ==
  ASSUME Distinct, ConsoleInv, NEW t \in ConsoleUsers, Console!InAcquire(t)
  PROVE ConsoleInv'
<1>1. Moves(t, "inAcquire", "inWait")
  BY GotoMoves DEF Console!InAcquire, ConsoleInv
<1>2. /\ inLock = Nobody /\ inLock' = t
      /\ UNCHANGED <<ch, inWaitFor, incoming, readInt, ended, typed, read, Console!output>>
  BY DEF Console!InAcquire
<1>3. UNCHANGED <<outLock, outWaitFor, putBusy, writeInt, shown>>
  BY <1>2 DEF Console!output
<1>4. Console!TypeOK'
  <2>1. consolePc' \in [ConsoleUsers -> Console!Points]
    BY <1>1 DEF Moves, ConsoleInv, Console!TypeOK, Console!Points, Console!Reading
  <2> QED BY <1>2, <1>3, <2>1 DEF ConsoleInv, Console!TypeOK
<1>5. Turns'
  BY <1>1, <1>2, <1>3 DEF Distinct, Moves, ConsoleInv, Turns, Console!Reading, Console!Writing
<1>6. Prints'
  BY <1>1, <1>2 DEF Moves, ConsoleInv, Prints
<1>7. Display'
  BY <1>1, <1>2, DisplaySame DEF Moves, Console!Writing
<1>8. Keys'
  <2>1. ~AtRead /\ ~AtRead'
    BY <1>1, <1>2 DEF AtRead, Moves
  <2> QED BY <1>2, <2>1 DEF ConsoleInv, Keys
<1> QED BY <1>4, <1>5, <1>6, <1>7, <1>8 DEF ConsoleInv

LEMMA InWaitStep ==
  ASSUME Distinct, ConsoleInv, NEW t \in ConsoleUsers, Console!InWait(t)
  PROVE ConsoleInv'
<1>1. Moves(t, "inWait", "read")
  BY GotoMoves DEF Console!InWait, ConsoleInv
<1>2. /\ inWaitFor # 0 /\ inWaitFor' = inWaitFor - 1
      /\ UNCHANGED <<ch, inLock, incoming, readInt, ended, typed, read, Console!output>>
  BY DEF Console!InWait
<1>3. UNCHANGED <<outLock, outWaitFor, putBusy, writeInt, shown>>
  BY <1>2 DEF Console!output
<1>4. inLock = t
  BY <1>1 DEF Moves, ConsoleInv, Turns, Console!Reading
<1>5. ~AtRead /\ AtRead'
  BY <1>1, <1>2, <1>4 DEF Distinct, AtRead, Moves
<1>6. inWaitFor = 1 /\ inWaitFor' = 0
  BY <1>2, <1>5 DEF ConsoleInv, Keys
<1>7. Console!TypeOK'
  <2>1. consolePc' \in [ConsoleUsers -> Console!Points] /\ inWaitFor' \in Nat
    BY <1>1, <1>6 DEF Moves, ConsoleInv, Console!TypeOK, Console!Points, Console!Reading
  <2> QED BY <1>2, <1>3, <2>1 DEF ConsoleInv, Console!TypeOK
<1>8. Turns'
  BY <1>1, <1>2, <1>3, <1>4 DEF Moves, ConsoleInv, Turns, Console!Reading, Console!Writing
<1>9. Prints'
  BY <1>1, <1>2 DEF Moves, ConsoleInv, Prints
<1>10. Display'
  BY <1>1, <1>2, DisplaySame DEF Moves, Console!Writing
<1>11. Keys'
  BY <1>2, <1>5, <1>6 DEF ConsoleInv, Keys
<1> QED BY <1>7, <1>8, <1>9, <1>10, <1>11 DEF ConsoleInv

LEMMA ReadStep ==
  ASSUME Distinct, ConsoleInv, NEW t \in ConsoleUsers, Console!Read(t)
  PROVE ConsoleInv'
<1>1. Moves(t, "read", "idle")
  BY GotoMoves DEF Console!Read, ConsoleInv
<1>2. /\ ch' = [ch EXCEPT ![t] = incoming] /\ read' = Append(read, incoming)
      /\ readInt' = (readInt \/ incoming # EOF) /\ incoming' = EOF /\ inLock' = Nobody
      /\ UNCHANGED <<inWaitFor, ended, typed, Console!output>>
  BY DEF Console!Read
<1>3. UNCHANGED <<outLock, outWaitFor, putBusy, writeInt, shown>>
  BY <1>2 DEF Console!output
<1>4. inLock = t /\ AtRead /\ ~AtRead'
  BY <1>1, <1>2 DEF Distinct, Moves, ConsoleInv, Turns, Console!Reading, AtRead
<1>5. /\ ~readInt /\ inWaitFor = 0
      /\ \/ ~ended /\ incoming \in Chars /\ typed = Append(read, incoming)
         \/ ended /\ incoming = EOF /\ typed = read
  BY <1>4 DEF ConsoleInv, Keys
<1>6. Console!TypeOK'
  <2>1. consolePc' \in [ConsoleUsers -> Console!Points] /\ ch' \in [ConsoleUsers -> Chars \cup {EOF, Nobody}]
    BY <1>1, <1>2 DEF Moves, ConsoleInv, Console!TypeOK, Console!Points
  <2>2. readInt' \in BOOLEAN
    BY <1>2, Zenon
  <2>3. read' \in Seq(Chars \cup {EOF})
    BY <1>2 DEF ConsoleInv, Console!TypeOK
  <2> QED BY <1>2, <1>3, <2>1, <2>2, <2>3 DEF ConsoleInv, Console!TypeOK
<1>7. Turns'
  BY <1>1, <1>2, <1>3, <1>4 DEF Distinct, Moves, ConsoleInv, Turns, Console!Reading, Console!Writing
<1>8. Prints'
  <2>1. \A u \in ConsoleUsers \ {t} : ch'[u] = ch[u]
    BY <1>2 DEF ConsoleInv, Console!TypeOK
  <2> QED BY <1>1, <2>1 DEF Moves, ConsoleInv, Prints
<1>9. Display'
  BY <1>1, <1>2, DisplaySame DEF Moves, Console!Writing
<1>10. Keys'
  <2>1. CASE ~ended /\ incoming \in Chars /\ typed = Append(read, incoming)
    <3>1. readInt' /\ incoming' = EOF /\ inWaitFor' = 0 /\ ~ended' /\ typed' = read'
      BY <1>2, <1>5, <2>1, Zenon DEF Distinct
    <3> QED BY <1>4, <3>1 DEF Keys
  <2>2. CASE ended /\ incoming = EOF /\ typed = read
    <3>1. ~readInt' /\ ended' /\ inWaitFor' = 0 /\ incoming' = EOF /\ read' = Append(typed', EOF)
      BY <1>2, <1>5, <2>2, Zenon
    <3> QED BY <1>4, <3>1 DEF Keys
  <2> QED BY <1>5, <2>1, <2>2
<1> QED BY <1>6, <1>7, <1>8, <1>9, <1>10 DEF ConsoleInv

-----------------------------------------------------------------------------
LEMMA OutAcquireStep ==
  ASSUME Distinct, ConsoleInv, NEW t \in ConsoleUsers, Console!OutAcquire(t)
  PROVE ConsoleInv'
<1>1. Moves(t, "outAcquire", "put")
  BY GotoMoves DEF Console!OutAcquire, ConsoleInv
<1>2. /\ outLock = Nobody /\ outLock' = t
      /\ UNCHANGED <<ch, Console!input, outWaitFor, putBusy, writeInt, shown>>
  BY DEF Console!OutAcquire
<1>3. UNCHANGED <<inLock, inWaitFor, incoming, readInt, ended, typed, read>>
  BY <1>2 DEF Console!input
<1>4. Console!TypeOK'
  <2>1. consolePc' \in [ConsoleUsers -> Console!Points]
    BY <1>1 DEF Moves, ConsoleInv, Console!TypeOK, Console!Points, Console!Writing
  <2> QED BY <1>2, <1>3, <2>1 DEF ConsoleInv, Console!TypeOK
<1>5. Turns'
  BY <1>1, <1>2, <1>3 DEF Distinct, Moves, ConsoleInv, Turns, Console!Reading, Console!Writing
<1>6. Prints'
  BY <1>1, <1>2 DEF Moves, ConsoleInv, Prints
<1>7. Keys'
  BY <1>1, <1>2, KeysSame DEF Moves, Console!Reading
<1>8. Display'
  BY <1>1, <1>2 DEF Moves, ConsoleInv, Display
<1> QED BY <1>4, <1>5, <1>6, <1>7, <1>8 DEF ConsoleInv

LEMMA PutCharStep ==
  ASSUME Distinct, ConsoleInv, NEW t \in ConsoleUsers, Console!PutChar(t)
  PROVE ConsoleInv'
<1>1. Moves(t, "put", "outWait")
  BY GotoMoves DEF Console!PutChar, ConsoleInv
<1>2. /\ shown' = Append(shown, ch[t]) /\ putBusy' = TRUE /\ writeInt' = TRUE
      /\ UNCHANGED <<ch, Console!input, outLock, outWaitFor>>
  BY DEF Console!PutChar
<1>3. UNCHANGED <<inLock, inWaitFor, incoming, readInt, ended, typed, read>>
  BY <1>2 DEF Console!input
<1>4. outLock = t
  BY <1>1 DEF Moves, ConsoleInv, Turns, Console!Writing
<1>5. Console!TypeOK'
  <2>1. consolePc' \in [ConsoleUsers -> Console!Points]
    BY <1>1 DEF Moves, ConsoleInv, Console!TypeOK, Console!Points, Console!Writing
  <2>2. ch[t] \in Chars
    BY <1>1 DEF Moves, ConsoleInv, Prints
  <2>3. shown' \in Seq(Chars)
    BY <1>2, <2>2 DEF ConsoleInv, Console!TypeOK
  <2>4. putBusy' \in BOOLEAN /\ writeInt' \in BOOLEAN
    BY <1>2, Zenon
  <2> QED BY <1>2, <1>3, <2>1, <2>3, <2>4 DEF ConsoleInv, Console!TypeOK
<1>6. Turns'
  BY <1>1, <1>2, <1>3, <1>4 DEF Moves, ConsoleInv, Turns, Console!Reading, Console!Writing
<1>7. Prints'
  BY <1>1, <1>2 DEF Moves, ConsoleInv, Prints
<1>8. Keys'
  BY <1>1, <1>2, KeysSame DEF Moves, Console!Reading
<1>9. Display'
  <2>1. outWaitFor = 0
    BY <1>1, <1>4 DEF Moves, ConsoleInv, Display
  <2> QED BY <1>1, <1>2, <1>4, <2>1 DEF Distinct, Moves, Display
<1> QED BY <1>5, <1>6, <1>7, <1>8, <1>9 DEF ConsoleInv

LEMMA OutWaitStep ==
  ASSUME Distinct, ConsoleInv, NEW t \in ConsoleUsers, Console!OutWait(t)
  PROVE ConsoleInv'
<1>1. Moves(t, "outWait", "outDone")
  BY GotoMoves DEF Console!OutWait, ConsoleInv
<1>2. /\ outWaitFor # 0 /\ outWaitFor' = outWaitFor - 1
      /\ UNCHANGED <<ch, Console!input, outLock, putBusy, writeInt, shown>>
  BY DEF Console!OutWait
<1>3. UNCHANGED <<inLock, inWaitFor, incoming, readInt, ended, typed, read>>
  BY <1>2 DEF Console!input
<1>4. outLock = t
  BY <1>1 DEF Moves, ConsoleInv, Turns, Console!Writing
<1>5. ~writeInt /\ outWaitFor = 1 /\ outWaitFor' = 0
  BY <1>1, <1>2, <1>4 DEF Distinct, Moves, ConsoleInv, Display
<1>6. Console!TypeOK'
  <2>1. consolePc' \in [ConsoleUsers -> Console!Points] /\ outWaitFor' \in Nat
    BY <1>1, <1>5 DEF Moves, ConsoleInv, Console!TypeOK, Console!Points, Console!Writing
  <2> QED BY <1>2, <1>3, <2>1 DEF ConsoleInv, Console!TypeOK
<1>7. Turns'
  BY <1>1, <1>2, <1>3, <1>4 DEF Moves, ConsoleInv, Turns, Console!Reading, Console!Writing
<1>8. Prints'
  BY <1>1, <1>2 DEF Moves, ConsoleInv, Prints
<1>9. Keys'
  BY <1>1, <1>2, KeysSame DEF Moves, Console!Reading
<1>10. Display'
  BY <1>1, <1>2, <1>4, <1>5 DEF Moves, ConsoleInv, Display
<1> QED BY <1>6, <1>7, <1>8, <1>9, <1>10 DEF ConsoleInv

LEMMA OutReleaseStep ==
  ASSUME Distinct, ConsoleInv, NEW t \in ConsoleUsers, Console!OutRelease(t)
  PROVE ConsoleInv'
<1>1. Moves(t, "outDone", "idle")
  BY GotoMoves DEF Console!OutRelease, ConsoleInv
<1>2. outLock' = Nobody /\ UNCHANGED <<ch, Console!input, outWaitFor, putBusy, writeInt, shown>>
  BY DEF Console!OutRelease
<1>3. UNCHANGED <<inLock, inWaitFor, incoming, readInt, ended, typed, read>>
  BY <1>2 DEF Console!input
<1>4. outLock = t
  BY <1>1 DEF Moves, ConsoleInv, Turns, Console!Writing
<1>5. Console!TypeOK'
  <2>1. consolePc' \in [ConsoleUsers -> Console!Points]
    BY <1>1 DEF Moves, ConsoleInv, Console!TypeOK, Console!Points
  <2> QED BY <1>2, <1>3, <2>1 DEF ConsoleInv, Console!TypeOK
<1>6. Turns'
  BY <1>1, <1>2, <1>3, <1>4 DEF Distinct, Moves, ConsoleInv, Turns, Console!Reading, Console!Writing
<1>7. Prints'
  BY <1>1, <1>2 DEF Moves, ConsoleInv, Prints
<1>8. Keys'
  BY <1>1, <1>2, KeysSame DEF Moves, Console!Reading
<1>9. Display'
  BY <1>1, <1>2, <1>4 DEF Moves, ConsoleInv, Display
<1> QED BY <1>5, <1>6, <1>7, <1>8, <1>9 DEF ConsoleInv

-----------------------------------------------------------------------------
LEMMA ConsoleStep == ASSUME Distinct, ConsoleInv, [Console!Next]_(Console!vars) PROVE ConsoleInv'
<1>1. ASSUME NEW t \in ConsoleUsers, Console!Work(t) PROVE ConsoleInv'
  BY <1>1, InAcquireStep, InWaitStep, ReadStep, OutAcquireStep, PutCharStep, OutWaitStep,
     OutReleaseStep DEF Console!Work
<1>2. CASE UNCHANGED Console!vars
  <2>1. UNCHANGED <<consolePc, ch, inLock, inWaitFor, incoming, readInt, ended, typed, read,
                    outLock, outWaitFor, putBusy, writeInt, shown>>
    BY <1>2 DEF Console!vars, Console!input, Console!output
  <2>2. Console!TypeOK'
    BY <2>1 DEF ConsoleInv, Console!TypeOK
  <2> QED BY <2>1, <2>2 DEF ConsoleInv, Turns, Prints, Keys, AtRead, Display
<1> QED BY <1>1, <1>2, TypedStep, EndOfInputStep, WriteDoneStep, CallGetCharStep, CallPutCharStep
        DEF Console!Next, Console!Keyboard

LEMMA InvKeepsChars == ASSUME Distinct, ConsoleInv PROVE Console!NoCharLost
<1>0. read \in Seq(Chars \cup {EOF})
  BY DEF ConsoleInv, Console!TypeOK
<1>1. typed = read => typed = read \o <<>>
  BY <1>0
<1>2. \A c \in Chars : Append(read, c) = read \o <<c>>
  BY <1>0
<1>3. \/ incoming = EOF /\ typed = read
      \/ incoming \in Chars /\ typed = Append(read, incoming)
      \/ ended /\ incoming = EOF /\ read = Append(typed, EOF)
  BY DEF ConsoleInv, Keys
<1>4. readInt => incoming = EOF /\ inWaitFor = 0
  BY DEF ConsoleInv, Keys
<1>5. Console!TypeOK
  BY DEF ConsoleInv
<1> QED BY <1>1, <1>2, <1>3, <1>4, <1>5, Zenon DEF Console!NoCharLost, Distinct

\* The library's theorems about finite sets
Finite == INSTANCE FiniteSetTheorems

LEMMA InvFreesDisplay == ASSUME Distinct, ConsoleInv PROVE Console!DisplayFree
<1>1. \A t \in ConsoleUsers : consolePc[t] \in Console!Writing => outLock = t
  BY DEF ConsoleInv, Turns
<1>2. ASSUME NEW t \in ConsoleUsers, consolePc[t] = "put" PROVE ~putBusy /\ outWaitFor = 0
  <2>1. outLock = t
    BY <1>1, <1>2 DEF Console!Writing
  <2> QED BY <1>2, <2>1 DEF ConsoleInv, Display
<1>3. outWaitFor + (IF writeInt THEN 1 ELSE 0)
        = Console!Cardinality({t \in ConsoleUsers : consolePc[t] = "outWait"})
  <2>0. \A S : Console!Cardinality(S) = Finite!Cardinality(S)
    BY Zenon DEF Console!Cardinality, Finite!Cardinality
  <2>1. CASE outLock # Nobody /\ consolePc[outLock] = "outWait"
    <3>1. {t \in ConsoleUsers : consolePc[t] = "outWait"} = {outLock}
      BY <2>1, <1>1 DEF Console!Writing, ConsoleInv, Console!TypeOK
    <3>2. outWaitFor + (IF writeInt THEN 1 ELSE 0) = 1
      BY <2>1 DEF ConsoleInv, Display
    <3> QED BY <2>0, <3>1, <3>2, Finite!FS_Singleton, Zenon
  <2>2. CASE ~(outLock # Nobody /\ consolePc[outLock] = "outWait")
    <3>1. {t \in ConsoleUsers : consolePc[t] = "outWait"} = {}
      BY <2>2, <1>1 DEF Distinct, Console!Writing
    <3>2. outWaitFor + (IF writeInt THEN 1 ELSE 0) = 0
      BY <2>2 DEF ConsoleInv, Display
    <3> QED BY <2>0, <3>1, <3>2, Finite!FS_EmptySet
  <2> QED BY <2>1, <2>2
<1> QED BY <1>2, <1>3 DEF Console!DisplayFree

\* Whatever the number of threads that read and print, nothing that is typed is lost,
\* doubled or reordered on its way through the one-place buffer to GetChar, and PutChar
\* of the console never finds the display busy: the assertions of console.cc hold.
THEOREM ConsoleCorrect ==
  Console!Spec => []ConsoleKept
<1>0. Distinct
  BY TerminalAssumption DEF Distinct
<1>1. Console!Init => ConsoleInv
  BY <1>0, InitConsole
<1>2. ConsoleInv /\ [Console!Next]_(Console!vars) => ConsoleInv'
  BY <1>0, ConsoleStep
<1>3. ConsoleInv => ConsoleKept
  BY <1>0, InvKeepsChars, InvFreesDisplay DEF ConsoleKept, Console!ConsoleKept
<1> QED BY <1>1, <1>2, <1>3, PTL DEF Console!Spec
=============================================================================
