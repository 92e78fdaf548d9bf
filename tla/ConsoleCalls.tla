---------------------------- MODULE ConsoleCalls ----------------------------
(***************************************************************************)
(* The console system calls of one process (userprog/ksyscall.h): ReadNum, *)
(* PrintNum, ReadChar, PrintChar, ReadString, PrintString, and the copies  *)
(* between user and system memory they make.  GetChar and PutChar are the  *)
(* synchronous calls SynchConsole is about; here GetChar returns any       *)
(* character and PutChar adds one to what is shown.                        *)
(***************************************************************************)
EXTENDS Integers, Sequences, SequencesExt

CONSTANTS IntBits,        \* width of an int
          MaxLine,        \* characters typed before Enter
          UserBytes,      \* bytes of user memory
          MAX_LENGTH      \* longest string PrintString copies

VARIABLES call,           \* the system call made, and how far it is
          typed,          \* what it has read
          shown,          \* what it has printed
          userMemory,
          before          \* user memory when the call was made

consoleVars == <<call, typed, shown, userMemory, before>>

\* Characters: the digits stand for themselves.
Minus == 10
Letter == 11
NewLine == 12
NUL == 13
Typable == {0, 2, 9, Minus, Letter, NewLine}
IsDigit(c) == c \in 0 .. 9
Wrap(n) == ((n + 2 ^ (IntBits - 1)) % 2 ^ IntBits) - 2 ^ (IntBits - 1)
Ints == -(2 ^ (IntBits - 1)) .. 2 ^ (IntBits - 1) - 1

Ready == call.op = "none"
Starts(c) == /\ Ready /\ call' = c /\ typed' = <<>> /\ shown' = <<>>
             /\ before' = userMemory /\ UNCHANGED userMemory

ConsoleInit == /\ call = [op |-> "none", at |-> "done"] /\ typed = <<>> /\ shown = <<>>
               /\ userMemory = [a \in 0 .. UserBytes - 1 |->
                                   IF a = UserBytes - 1 THEN NUL ELSE Letter]
               /\ before = userMemory

-----------------------------------------------------------------------------
ReadNum == Starts([op |-> "ReadNum", at |-> "first", result |-> 0, valid |-> TRUE,
                   negative |-> FALSE])

ReadNumFirst(c) ==
    /\ call.op = "ReadNum" /\ call.at = "first"
    /\ IF c = NewLine THEN UNCHANGED <<call, typed>>
       ELSE /\ typed' = <<c>>
            /\ call' = [call EXCEPT !.at = "rest", !.negative = c = Minus,
                                    !.result = IF IsDigit(c) THEN c ELSE 0,
                                    !.valid = IsDigit(c) \/ c = Minus]
    /\ UNCHANGED <<shown, userMemory, before>>

ReadNumRest(c) ==
    /\ call.op = "ReadNum" /\ call.at = "rest"
    /\ IF IsDigit(c) /\ call.valid
       THEN call' = [call EXCEPT !.result = Wrap(@ * 10 + c)] /\ typed' = Append(typed, c)
       ELSE IF c # NewLine
       THEN call' = [call EXCEPT !.valid = FALSE, !.result = 0] /\ typed' = Append(typed, c)
       ELSE /\ call' = [call EXCEPT !.at = "done",
                                    !.result = IF call.negative THEN Wrap(-@) ELSE @]
            /\ UNCHANGED typed
    /\ UNCHANGED <<shown, userMemory, before>>

\* The characters number % 10 + '0' from the last digit to the first.  Division
\* truncates, so a negative number gives characters before '0', here -9 .. -1.
Separated[n \in Int] ==
    LET quotient == IF n < 0 THEN -((-n) \div 10) ELSE n \div 10
        digit == n - 10 * quotient
    IN  IF quotient = 0 THEN <<digit>> ELSE <<digit>> \o Separated[quotient]

PrintNum(n) ==
    LET magnitude == IF n < 0 THEN Wrap(-n) ELSE n
        arr == Separated[magnitude] \o (IF n < 0 THEN <<Minus>> ELSE <<>>)
    IN  /\ Ready
        /\ call' = [op |-> "PrintNum", at |-> "done", number |-> n]
        /\ shown' = Reverse(arr) /\ typed' = <<>>
        /\ before' = userMemory /\ UNCHANGED userMemory

-----------------------------------------------------------------------------
ReadChar == Starts([op |-> "ReadChar", at |-> "first", result |-> NUL])

ReadCharNext(c) ==
    /\ call.op = "ReadChar" /\ call.at # "done"
    /\ call' = IF c = NewLine
               THEN IF call.at = "first" THEN call ELSE [call EXCEPT !.at = "done"]
               ELSE IF call.at = "first" THEN [call EXCEPT !.at = "rest", !.result = c]
               ELSE call
    /\ typed' = IF c = NewLine THEN typed ELSE Append(typed, c)
    /\ UNCHANGED <<shown, userMemory, before>>

PrintChar(c) == /\ Ready
                /\ call' = [op |-> "PrintChar", at |-> "done"]
                /\ shown' = <<c>> /\ typed' = <<>>
                /\ before' = userMemory /\ UNCHANGED userMemory

-----------------------------------------------------------------------------
\* The string in user memory at virtAddr: up to limit characters, the last one
\* read being the first NUL if there is one.
User2System(virtAddr, limit) ==
    LET ends == {n \in 1 .. limit : userMemory[virtAddr + n - 1] = NUL}
        length == IF ends = {} THEN limit ELSE CHOOSE n \in ends : \A m \in ends : n <= m
    IN  [n \in 1 .. length |-> userMemory[virtAddr + n - 1]]

\* A bug: the terminating NUL is copied past a full buffer.
System2UserWhole(virtAddr, len, buffer) ==
    [a \in DOMAIN userMemory |->
        IF a \in virtAddr .. virtAddr + Len(buffer) - 1 THEN buffer[a - virtAddr + 1]
        ELSE userMemory[a]]

System2User(virtAddr, len, buffer) ==
    LET ends == {n \in 1 .. len : n <= Len(buffer) /\ buffer[n] = NUL}
        copied == IF ends = {} THEN len ELSE CHOOSE n \in ends : \A m \in ends : n <= m
    IN  [a \in DOMAIN userMemory |->
            IF a \in virtAddr .. virtAddr + copied - 1 THEN buffer[a - virtAddr + 1]
            ELSE userMemory[a]]

ReadString(addr, length) ==
    Starts([op |-> "ReadString", at |-> "rest", addr |-> addr, length |-> length])

ReadStringNext(c) ==
    /\ call.op = "ReadString" /\ call.at = "rest" /\ Len(typed) < call.length
    /\ typed' = IF c = NewLine THEN typed ELSE Append(typed, c)
    /\ call' = IF c = NewLine THEN [call EXCEPT !.at = "copy"] ELSE call
    /\ UNCHANGED <<shown, userMemory, before>>

ReadStringCopy ==
    /\ call.op = "ReadString"
    /\ call.at = "copy" \/ (call.at = "rest" /\ Len(typed) = call.length)
    /\ userMemory' = System2User(call.addr, call.length, Append(typed, NUL))
    /\ call' = [call EXCEPT !.at = "done"]
    /\ UNCHANGED <<typed, shown, before>>

\* The loop prints the copy up to its NUL; the buffer is the one just read.
PrintString ==
    /\ call.op = "ReadString" /\ call.at = "done"
    /\ shown' = SelectSeq(User2System(call.addr, MAX_LENGTH), LAMBDA c : c # NUL)
    /\ call' = [call EXCEPT !.op = "PrintString"]
    /\ UNCHANGED <<typed, userMemory, before>>

GetChar(c) == /\ Len(typed) < MaxLine \/ c = NewLine
              /\ \/ ReadNumFirst(c) \/ ReadNumRest(c)
                 \/ ReadCharNext(c) \/ ReadStringNext(c)

ConsoleNext ==
    \/ ReadNum \/ ReadChar \/ ReadStringCopy \/ PrintString
    \/ \E c \in Typable : GetChar(c) \/ PrintChar(c)
    \/ \E n \in Ints : PrintNum(n)
    \/ \E addr \in 0 .. 1, length \in 0 .. 3 : ReadString(addr, length)

ConsoleSpec == ConsoleInit /\ [][ConsoleNext]_consoleVars

-----------------------------------------------------------------------------
\* The value of a numeral: an optional minus sign and digits; anything else
\* has value 0.
Value(line) ==
    LET negative == line # <<>> /\ line[1] = Minus
        digits == IF negative THEN Tail(line) ELSE line
        sum == FoldLeft(LAMBDA v, d : v * 10 + d, 0, digits)
    IN  IF \A n \in DOMAIN digits : IsDigit(digits[n])
        THEN Wrap(IF negative THEN -sum ELSE sum) ELSE 0

\* ReadNum returns the value of the line typed, 0 when it is no numeral, and
\* PrintNum shows the numeral without leading zeros that ReadNum reads back as
\* the same number; but for the least int, whose negation is itself.
NumbersRight ==
    /\ call.op = "ReadNum" /\ call.at = "done" => call.result = Value(typed)
    /\ call.op = "PrintNum" /\ call.number # -(2 ^ (IntBits - 1)) =>
         /\ Value(shown) = call.number
         /\ \A n \in DOMAIN shown : IsDigit(shown[n]) \/ (n = 1 /\ call.number < 0)
         /\ Len(shown) > 1 => shown[1] # 0
    /\ call.op = "ReadChar" /\ call.at = "done" => call.result = typed[1]

\* ReadString writes no byte outside the buffer it was given, and a line that
\* fits with its NUL is what PrintString shows when given the same buffer.
StringsRight ==
    call.op \in {"ReadString", "PrintString"} =>
      /\ \A a \in DOMAIN userMemory :
            a \notin call.addr .. call.addr + call.length - 1 => userMemory[a] = before[a]
      /\ call.op = "PrintString" /\ Len(typed) < call.length => shown = typed
=============================================================================
