----------------------------- MODULE SynchConsole -----------------------------
(***************************************************************************)
(* The console and its driver: ConsoleInput and ConsoleOutput              *)
(* (machine/console.cc) simulate a keyboard that is polled and a display   *)
(* that interrupts; SynchConsoleInput and SynchConsoleOutput               *)
(* (userprog/synchconsole.cc) are what threads call.                       *)
(*                                                                         *)
(* Locks and semaphores are atomic here, as Monitor and Scheduler show     *)
(* them to be; a thread can lose the processor after each of them.         *)
(***************************************************************************)
EXTENDS Integers, Sequences, FiniteSets

CONSTANTS
  Threads,
  Chars,     \* the characters that are typed and printed
  EOF,       \* the value of ConsoleInput::incoming that means "no character"; not in Chars
  MaxTyped,  \* bound: the number of characters typed
  MaxShown,  \* bound: the number of characters printed
  NULL

VARIABLES
  pc,
  ch,         \* the character a thread prints, or has read last
  inLock,     \* the thread that holds the lock of the input side, or NULL
  inWaitFor,  \* the value of SynchConsoleInput::waitFor
  incoming,   \* ConsoleInput::incoming
  readInt,    \* whether the interrupt that polls the keyboard is pending
  ended,      \* whether the poll has found the end of the input
  typed,      \* the characters the keyboard has delivered
  got,        \* the characters GetChar has returned to all threads, in order
  outLock,    \* the same for the output side
  outWaitFor,
  putBusy,    \* ConsoleOutput::putBusy
  writeInt,   \* whether the display's interrupt is pending
  shown       \* the characters on the display

input == <<inLock, inWaitFor, incoming, readInt, ended, typed, got>>
output == <<outLock, outWaitFor, putBusy, writeInt, shown>>
vars == <<pc, ch, input, output>>

(***************************************************************************)
(*   idle                               not using the console              *)
(*   inAcquire, inWait, read            GetChar: in Acquire, in P, after P *)
(*   outAcquire, put, outWait, outDone  PutChar: in Acquire, after it, in  *)
(*                                      P, after P                         *)
(***************************************************************************)
Reading == {"inWait", "read"}
Writing == {"put", "outWait", "outDone"}
Points == {"idle", "inAcquire", "outAcquire"} \cup Reading \cup Writing

TypeOK ==
  /\ pc \in [Threads -> Points]
  /\ ch \in [Threads -> Chars \cup {EOF, NULL}]
  /\ inLock \in Threads \cup {NULL} /\ outLock \in Threads \cup {NULL}
  /\ inWaitFor \in Nat /\ outWaitFor \in Nat
  /\ incoming \in Chars \cup {EOF}
  /\ readInt \in BOOLEAN /\ writeInt \in BOOLEAN
  /\ ended \in BOOLEAN /\ putBusy \in BOOLEAN
  /\ typed \in Seq(Chars) /\ got \in Seq(Chars \cup {EOF}) /\ shown \in Seq(Chars)

\* The constructors of the four classes; the keyboard is polled from the start.
Init ==
  /\ pc = [t \in Threads |-> "idle"]
  /\ ch = [t \in Threads |-> NULL]
  /\ inLock = NULL /\ outLock = NULL
  /\ inWaitFor = 0 /\ outWaitFor = 0
  /\ incoming = EOF
  /\ readInt = TRUE /\ writeInt = FALSE
  /\ ended = FALSE /\ putBusy = FALSE
  /\ typed = <<>> /\ got = <<>> /\ shown = <<>>

Goto(t, from, to) ==
  /\ pc[t] = from
  /\ pc' = [pc EXCEPT ![t] = to]

-----------------------------------------------------------------------------
(* The keyboard: ConsoleInput::CallBack.  A poll that finds nothing typed     *)
(* schedules the next poll and changes nothing.                               *)

\* Broken variant of Typed: the next poll is scheduled at once.
TypedPolls(c) ==
  /\ readInt
  /\ Len(typed) < MaxTyped
  /\ incoming' = c
  /\ typed' = Append(typed, c)
  /\ inWaitFor' = inWaitFor + 1
  /\ UNCHANGED <<pc, ch, inLock, readInt, ended, got, output>>

\* A character was typed: keep it and call SynchConsoleInput::CallBack.
Typed(c) ==
  /\ readInt
  /\ Len(typed) < MaxTyped
  /\ readInt' = FALSE
  /\ incoming' = c
  /\ typed' = Append(typed, c)
  /\ inWaitFor' = inWaitFor + 1
  /\ UNCHANGED <<pc, ch, inLock, ended, got, output>>

\* The input has ended: call back as well, and poll no more.
EndOfInput ==
  /\ readInt
  /\ readInt' = FALSE
  /\ ended' = TRUE
  /\ inWaitFor' = inWaitFor + 1
  /\ UNCHANGED <<pc, ch, inLock, incoming, typed, got, output>>

-----------------------------------------------------------------------------
(* SynchConsoleInput::GetChar *)

CallGetChar(t) ==
  /\ Goto(t, "idle", "inAcquire")
  /\ ch' = [ch EXCEPT ![t] = NULL]
  /\ UNCHANGED <<input, output>>

\* lock->Acquire()
InAcquire(t) ==
  /\ Goto(t, "inAcquire", "inWait")
  /\ inLock = NULL
  /\ inLock' = t
  /\ UNCHANGED <<ch, inWaitFor, incoming, readInt, ended, typed, got, output>>

\* waitFor->P()
InWait(t) ==
  /\ Goto(t, "inWait", "read")
  /\ inWaitFor # 0
  /\ inWaitFor' = inWaitFor - 1
  /\ UNCHANGED <<ch, inLock, incoming, readInt, ended, typed, got, output>>

\* ConsoleInput::GetChar and lock->Release()
Read(t) ==
  /\ Goto(t, "read", "idle")
  /\ ch' = [ch EXCEPT ![t] = incoming]
  /\ got' = Append(got, incoming)
  /\ readInt' = (readInt \/ incoming # EOF)
  /\ incoming' = EOF
  /\ inLock' = NULL
  /\ UNCHANGED <<inWaitFor, ended, typed, output>>

-----------------------------------------------------------------------------
(* SynchConsoleOutput::PutChar and the display *)

CallPutChar(t, c) ==
  /\ Goto(t, "idle", "outAcquire")
  /\ Len(shown) + Cardinality({u \in Threads : pc[u] \in {"outAcquire", "put"}}) < MaxShown
  /\ ch' = [ch EXCEPT ![t] = c]
  /\ UNCHANGED <<input, output>>

\* lock->Acquire()
OutAcquire(t) ==
  /\ Goto(t, "outAcquire", "put")
  /\ outLock = NULL
  /\ outLock' = t
  /\ UNCHANGED <<ch, input, outWaitFor, putBusy, writeInt, shown>>

\* ConsoleOutput::PutChar
PutChar(t) ==
  /\ Goto(t, "put", "outWait")
  /\ shown' = Append(shown, ch[t])
  /\ putBusy' = TRUE
  /\ writeInt' = TRUE
  /\ UNCHANGED <<ch, input, outLock, outWaitFor>>

\* Broken variant of WriteDone: the handler schedules itself again and wakes no one.
WriteDonePolls ==
  /\ writeInt
  /\ UNCHANGED vars

\* ConsoleOutput::CallBack and SynchConsoleOutput::CallBack
WriteDone ==
  /\ writeInt
  /\ writeInt' = FALSE
  /\ putBusy' = FALSE
  /\ outWaitFor' = outWaitFor + 1
  /\ UNCHANGED <<pc, ch, input, outLock, shown>>

\* waitFor->P()
OutWait(t) ==
  /\ Goto(t, "outWait", "outDone")
  /\ outWaitFor # 0
  /\ outWaitFor' = outWaitFor - 1
  /\ UNCHANGED <<ch, input, outLock, putBusy, writeInt, shown>>

\* lock->Release()
OutRelease(t) ==
  /\ Goto(t, "outDone", "idle")
  /\ outLock' = NULL
  /\ UNCHANGED <<ch, input, outWaitFor, putBusy, writeInt, shown>>

-----------------------------------------------------------------------------
Keyboard == EndOfInput \/ \E c \in Chars : Typed(c)

Work(t) ==
  \/ InAcquire(t) \/ InWait(t) \/ Read(t)
  \/ OutAcquire(t) \/ PutChar(t) \/ OutWait(t) \/ OutRelease(t)

Next ==
  \/ Keyboard \/ WriteDone
  \/ \E t \in Threads : Work(t) \/ CallGetChar(t) \/ \E c \in Chars : CallPutChar(t, c)

Spec == Init /\ [][Next]_vars

\* The display interrupts after each character, and a thread that can go on does
\* so.  Nobody has to type.
FairSpec == Spec /\ WF_vars(WriteDone) /\ \A t \in Threads : WF_vars(Work(t))

-----------------------------------------------------------------------------
(* Properties *)

\* Nothing that is typed is lost, doubled or reordered between the keyboard and the
\* readers, however many threads call GetChar: what was delivered is what was
\* returned, and the character in the one-place buffer; EOF is returned once, after the
\* end of the input and all that was typed before it.  The next poll is scheduled
\* only by the reader that empties the buffer, so ASSERT(incoming == EOF) in
\* ConsoleInput::CallBack holds.
\* The types of the variables are part of it.
NoCharLost ==
  /\ TypeOK
  /\ \/ typed = got \o (IF incoming = EOF THEN <<>> ELSE <<incoming>>)
     \/ ended /\ incoming = EOF /\ got = Append(typed, EOF)
  /\ readInt => incoming = EOF /\ inWaitFor = 0

\* The display is not busy when a thread puts a character (ASSERT(putBusy == FALSE) in
\* ConsoleOutput::PutChar), and its interrupt is for the thread that waits.
DisplayFree ==
  /\ \A t \in Threads : pc[t] = "put" => ~putBusy /\ outWaitFor = 0
  /\ outWaitFor + (IF writeInt THEN 1 ELSE 0) =
       Cardinality({t \in Threads : pc[t] = "outWait"})

\* Both sides of the console keep what they promise.
ConsoleKept == NoCharLost /\ DisplayFree

\* PutChar returns, and a character that has been typed reaches the thread that waits
\* for it.
CharsMove ==
  /\ \A t \in Threads : pc[t] = "put" ~> pc[t] = "idle"
  /\ (incoming # EOF /\ \E t \in Threads : pc[t] \in Reading) ~> incoming = EOF

\* "wait for EOF or a char to be available" (SynchConsoleInput::GetChar): once the
\* input has ended, every GetChar returns.
ReadsEnd ==
  \A t \in Threads : (ended /\ pc[t] \in {"inAcquire", "inWait"}) ~> pc[t] = "idle"
=============================================================================
