------------------------------ MODULE Terminal ------------------------------
(***************************************************************************)
(* The console of SynchConsole with threads and variables of its own, to   *)
(* stand beside another driver.                                            *)
(***************************************************************************)
EXTENDS Integers, Sequences, FiniteSets

CONSTANTS ConsoleUsers, Chars, EOF, MaxTyped, MaxShown, Nobody

\* The null pointer is no thread, and EOF is no character that can be typed.
ASSUME TerminalAssumption == Nobody \notin ConsoleUsers /\ EOF \notin Chars

VARIABLES
  consolePc, ch, inLock, inWaitFor, incoming, readInt, ended, typed, read,
  outLock, outWaitFor, putBusy, writeInt, shown

consoleVars == <<consolePc, ch, inLock, inWaitFor, incoming, readInt, ended, typed, read,
                 outLock, outWaitFor, putBusy, writeInt, shown>>

Console == INSTANCE SynchConsole WITH
  Threads <- ConsoleUsers, NULL <- Nobody, pc <- consolePc, got <- read

-----------------------------------------------------------------------------
\* ConsoleKept of SynchConsole: nothing typed is lost, doubled or reordered, and no
\* character is put while the display is busy.
ConsoleKept == Console!ConsoleKept

\* CharsMove of SynchConsole: PutChar returns, and a typed character is read.
ConsoleMoves == Console!CharsMove
=============================================================================
