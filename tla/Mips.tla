-------------------------------- MODULE Mips --------------------------------
(***************************************************************************)
(* The simulated processor: Machine::Run and OneInstruction (mipssim.cc),  *)
(* address translation (translate.cc), RaiseException (machine.cc) and     *)
(* the kernel's entry point ExceptionHandler (exception.cc).               *)
(*                                                                         *)
(* A byte has ByteBits bits and a word four bytes, so that TLC can walk    *)
(* through all bit patterns of interest; every mask and shift of the code  *)
(* is scaled accordingly (0xff is Mask(1), << 8 is * Bytes(1), ...).       *)
(* Words are kept unsigned; S reads one as a two's complement integer.     *)
(***************************************************************************)
EXTENDS Integers, Sequences, Bitwise, TLC

CONSTANTS ByteBits,      \* bits per byte: 8 in the code
          PageSize,      \* bytes per page
          NumPhysPages,  \* frames of main memory
          PageTable,     \* the page table of the running program
          Contents,      \* what its frames hold
          Operands,      \* values register 1 and 2 may start with
          Program,       \* the instruction words the program may hold
          Results,       \* what a system call may leave in register 2
          MaxSteps       \* instructions a run executes

VARIABLES cpu,           \* [r |-> registers, m |-> mainMemory, pt |-> pageTable]
          trap,          \* the exception being handled, or NoException
          status,        \* "running", "halted" or "aborted"
          steps          \* instructions executed so far

mipsVars == <<cpu, trap, status, steps>>

W == 4 * ByteBits
Bytes(n) == 2 ^ (n * ByteBits)
Mask(n) == Bytes(n) - 1
U(x) == x % 2 ^ W
SignBit(x) == x >= 2 ^ (W - 1)
S(x) == IF SignBit(x) THEN x - 2 ^ W ELSE x
Low(x, n) == x % Bytes(n)
High(x, n) == x - Low(x, n)
Extend(x, n) == IF x >= Bytes(n) \div 2 THEN U(x - Bytes(n)) ELSE x

HiReg == 32
LoReg == 33
PCReg == 34
NextPCReg == 35
PrevPCReg == 36
LoadReg == 37
LoadValueReg == 38
BadVAddrReg == 39
R31 == 31
GPRegs == {0, 1, 2, R31}
Registers == GPRegs \cup HiReg .. BadVAddrReg
Words == 0 .. 2 ^ W - 1
MemorySize == NumPhysPages * PageSize

(***************************************************************************)
(* Decoding.  A word is a record of its fields; imm and target are the     *)
(* other readings of its low bits.                                         *)
(***************************************************************************)
OpTable ==
    LET named == <<"BCOND", "J", "JAL", "BEQ", "BNE", "BLEZ", "BGTZ", "ADDI",
                   "ADDIU", "SLTI", "SLTIU", "ANDI", "ORI", "XORI", "LUI">>
        memory == 32 :> "LB" @@ 33 :> "LH" @@ 34 :> "LWL" @@ 35 :> "LW"
               @@ 36 :> "LBU" @@ 37 :> "LHU" @@ 38 :> "LWR" @@ 40 :> "SB"
               @@ 41 :> "SH" @@ 42 :> "SWL" @@ 43 :> "SW" @@ 46 :> "SWR"
    IN  [i \in 0 .. 63 |->
            IF i = 0 THEN "SPECIAL"
            ELSE IF i \in DOMAIN named THEN named[i]
            ELSE IF i \in DOMAIN memory THEN memory[i]
            ELSE IF i \in (16 .. 19) \cup (48 .. 51) \cup (56 .. 59)
                 THEN "UNIMP" ELSE "RES"]

SpecialTable ==
    LET named == 0 :> "SLL" @@ 2 :> "SRL" @@ 3 :> "SRA" @@ 4 :> "SLLV"
              @@ 6 :> "SRLV" @@ 7 :> "SRAV" @@ 8 :> "JR" @@ 9 :> "JALR"
              @@ 12 :> "SYSCALL" @@ 13 :> "UNIMP" @@ 16 :> "MFHI"
              @@ 17 :> "MTHI" @@ 18 :> "MFLO" @@ 19 :> "MTLO" @@ 24 :> "MULT"
              @@ 25 :> "MULTU" @@ 26 :> "DIV" @@ 27 :> "DIVU" @@ 32 :> "ADD"
              @@ 33 :> "ADDU" @@ 34 :> "SUB" @@ 35 :> "SUBU" @@ 36 :> "AND"
              @@ 37 :> "OR" @@ 38 :> "XOR" @@ 39 :> "NOR" @@ 42 :> "SLT"
              @@ 43 :> "SLTU"
    IN  [i \in 0 .. 63 |-> IF i \in DOMAIN named THEN named[i] ELSE "RES"]

Decode(v) ==
    LET code == OpTable[v.op]
        extra == IF code = "SPECIAL" THEN v.shamt
                 ELSE IF code \in {"J", "JAL"} THEN v.target
                 ELSE Extend(v.imm, 2)
        op == CASE code = "SPECIAL" -> SpecialTable[v.funct]
                [] code = "BCOND" ->
                     (CASE v.rt = 0 -> "BLTZ" [] v.rt = 1 -> "BGEZ"
                        [] v.rt = 16 -> "BLTZAL" [] v.rt = 17 -> "BGEZAL"
                        [] OTHER -> "UNIMP")
                [] OTHER -> code
    IN  [op |-> op, rs |-> v.rs, rt |-> v.rt, rd |-> v.rd, extra |-> extra]

-----------------------------------------------------------------------------
(***************************************************************************)
(* The effect of an instruction under way: the machine state, the program  *)
(* counter after next, the load to delay, the exception raised if any.     *)
(***************************************************************************)
Begin(s) == [r |-> s.r, m |-> s.m, pt |-> s.pt, val |-> 0, load |-> 0,
             pcAfter |-> U(s.r[NextPCReg] + 4), exc |-> "NoException", bad |-> 0]
Fails(x, exc, addr) == [x EXCEPT !.exc = exc, !.bad = addr]
Sets(x, reg, value) == [x EXCEPT !.r[reg] = U(value)]

TranslateError(pt, virtAddr, size, writing, vpn) ==
    IF virtAddr % size # 0 THEN "AddressErrorException"
    ELSE IF vpn \notin DOMAIN pt THEN "AddressErrorException"
    ELSE IF ~pt[vpn].valid THEN "PageFaultException"
    ELSE IF pt[vpn].readOnly /\ writing THEN "ReadOnlyException"
    ELSE IF pt[vpn].physicalPage >= NumPhysPages THEN "BusErrorException"
    ELSE "NoException"

Mapped(pt, virtAddr, writing, vpn, error) ==
    IF error # "NoException" THEN [exc |-> error, phys |-> 0, pt |-> pt]
    ELSE [exc |-> error,
          phys |-> pt[vpn].physicalPage * PageSize + (virtAddr % PageSize),
          pt |-> [pt EXCEPT ![vpn].use = TRUE, ![vpn].dirty = @ \/ writing]]

Translate(pt, virtAddr, size, writing) ==
    Mapped(pt, virtAddr, writing, virtAddr \div PageSize,
           TranslateError(pt, virtAddr, size, writing, virtAddr \div PageSize))

ByteSum(m, a, n) == m[a] + (IF n >= 2 THEN Bytes(1) * m[a + 1] ELSE 0)
                  + (IF n = 4 THEN Bytes(2) * m[a + 2] + Bytes(3) * m[a + 3]
                     ELSE 0)

Fetched(x, addr, size, t, data) ==
    IF t.exc # "NoException" THEN Fails(x, t.exc, addr)
    ELSE [x EXCEPT !.pt = t.pt,
                   !.val = IF size = 1 THEN Extend(data, 1) ELSE data]
ReadMem(x, addr, size) ==
    LET t == Translate(x.pt, addr, size, FALSE)
    IN  Fetched(x, addr, size, t, ByteSum(x.m, t.phys, size))

Stored(x, addr, size, value, t) ==
    IF t.exc # "NoException" THEN Fails(x, t.exc, addr)
    ELSE [x EXCEPT !.pt = t.pt,
                   !.m = [a \in DOMAIN @ |->
                            IF a \in t.phys .. t.phys + size - 1
                            THEN (value \div Bytes(a - t.phys)) % Bytes(1)
                            ELSE @[a]]]
WriteMem(x, addr, size, value) ==
    Stored(x, addr, size, value, Translate(x.pt, addr, size, TRUE))

DelayedLoad(r, nextReg, nextValue) ==
    [r EXCEPT ![r[LoadReg]] = r[LoadValueReg], ![LoadReg] = nextReg,
              ![LoadValueReg] = nextValue, ![0] = 0]

-----------------------------------------------------------------------------
(***************************************************************************)
(* The cases of OneInstruction's switch, in the order of the source.       *)
(* A and B are the values of registers rs and rt.                          *)
(***************************************************************************)
A(x, i) == x.r[i.rs]
B(x, i) == x.r[i.rt]
Address(x, i) == U(A(x, i) + i.extra)

Adds(x, i) ==
    LET sum == U(A(x, i) + IF i.op = "ADD" THEN B(x, i) ELSE i.extra)
        overflow == IF i.op = "ADD"
                    THEN SignBit(A(x, i)) = SignBit(B(x, i))
                         /\ SignBit(A(x, i)) # SignBit(sum)
                    ELSE SignBit(A(x, i)) = SignBit(i.extra)
                         /\ SignBit(i.extra) # SignBit(sum)
    IN  CASE i.op \in {"ADD", "ADDI"} /\ overflow ->
               Fails(x, "OverflowException", 0)
          [] i.op = "ADD" -> Sets(x, i.rd, sum)
          [] i.op \in {"ADDI", "ADDIU"} -> Sets(x, i.rt, sum)
          [] i.op = "ADDU" -> Sets(x, i.rd, A(x, i) + B(x, i))
          [] i.op = "AND" -> Sets(x, i.rd, A(x, i) & B(x, i))
          [] i.op = "ANDI" -> Sets(x, i.rt, A(x, i) & Low(i.extra, 2))

Branches(x, i) ==
    LET linked == IF i.op \in {"BGEZAL", "BLTZAL"}
                  THEN Sets(x, R31, x.r[NextPCReg] + 4) ELSE x
        a == linked.r[i.rs]
        taken == CASE i.op = "BEQ" -> a = B(x, i)
                   [] i.op = "BNE" -> a # B(x, i)
                   [] i.op \in {"BGEZ", "BGEZAL"} -> ~SignBit(a)
                   [] i.op \in {"BLTZ", "BLTZAL"} -> SignBit(a)
                   [] i.op = "BGTZ" -> S(a) > 0
                   [] i.op = "BLEZ" -> S(a) <= 0
    IN  IF taken THEN [linked EXCEPT !.pcAfter = U(x.r[NextPCReg] + 4 * i.extra)]
        ELSE linked

\* C's division truncates towards zero; INT_MIN / -1 is undefined and traps
\* on the hosts the simulator is built for.
Divisions(x, i) ==
    LET Abs(n) == IF n < 0 THEN -n ELSE n
        a == IF i.op = "DIV" THEN S(A(x, i)) ELSE A(x, i)
        b == IF i.op = "DIV" THEN S(B(x, i)) ELSE B(x, i)
        q == (Abs(a) \div Abs(b)) * (IF (a < 0) # (b < 0) THEN -1 ELSE 1)
    IN  IF b = 0 THEN Sets(Sets(x, LoReg, 0), HiReg, 0)
        ELSE IF i.op = "DIV" /\ a = -(2 ^ (W - 1)) /\ b = -1
        THEN Fails(x, "HostTrap", 0)
        ELSE Sets(Sets(x, LoReg, q), HiReg, a - q * b)

Jumps(x, i) ==
    LET region == 2 ^ (W - W \div 8)
        link == U(x.r[NextPCReg] + 4)
        linked == CASE i.op = "JAL" -> Sets(x, R31, link)
                    [] i.op = "JALR" -> Sets(x, i.rd, link)
                    [] OTHER -> x
    IN  [linked EXCEPT !.pcAfter = IF i.op \in {"J", "JAL"}
                                   THEN (@ \div region) * region + 4 * i.extra
                                   ELSE linked.r[i.rs]]

Loads(x, i) ==
    LET size == CASE i.op \in {"LB", "LBU"} -> 1
                  [] i.op \in {"LH", "LHU"} -> 2 [] OTHER -> 4
        y == ReadMem(x, Address(x, i), size)
        value == IF i.op \in {"LB", "LH"} THEN Extend(Low(y.val, size), size)
                 ELSE Low(y.val, size)
    IN  IF i.op = "LUI" THEN Sets(x, i.rt, i.extra * Bytes(2))
        ELSE IF y.exc # "NoException" THEN y
        ELSE [y EXCEPT !.load = i.rt, !.val = value]

\* The value LWL and LWR merge into: the register, or what is on its way to it.
Merged(x, i) == IF x.r[LoadReg] = i.rt THEN x.r[LoadValueReg] ELSE B(x, i)

LoadLeft(x, i) ==
    LET n == 3 - (Address(x, i) % 4)
        y == ReadMem(x, Address(x, i) - (Address(x, i) % 4), 4)
    IN  IF y.exc # "NoException" THEN y
        ELSE [y EXCEPT !.load = i.rt,
                       !.val = Low(Merged(x, i), n) + U(@ * Bytes(n))]

LoadRight(x, i) ==
    LET n == Address(x, i) % 4
        y == ReadMem(x, Address(x, i) - n, 4)
    IN  IF y.exc # "NoException" THEN y
        ELSE [y EXCEPT !.load = i.rt,
                       !.val = High(Merged(x, i), 4 - n) + @ \div Bytes(n)]

\* Shift and add, a bit of a at a time, on unsigned double words.
Mult(a, b, signed) ==
    LET negative == signed /\ SignBit(a) # SignBit(b)
        Magnitude(n) == IF signed /\ SignBit(n) THEN U(-S(n)) ELSE n
        Step(p) ==
            LET lo == U(p.lo + p.bLo)
                hi == U(p.hi + (IF lo < p.bLo THEN 1 ELSE 0) + p.bHi)
                q == IF p.a % 2 = 1 THEN [p EXCEPT !.lo = lo, !.hi = hi] ELSE p
            IN  IF p.done THEN p
                ELSE IF p.a = 1 THEN [q EXCEPT !.done = TRUE]
                ELSE [q EXCEPT !.bHi = U(2 * @ + p.bLo \div 2 ^ (W - 1)),
                               !.bLo = U(2 * @), !.a = U(S(@) \div 2)]
        loop[n \in 0 .. W] ==
            IF n = 0 THEN [a |-> Magnitude(a), bLo |-> Magnitude(b), bHi |-> 0,
                           lo |-> 0, hi |-> 0, done |-> FALSE]
            ELSE Step(loop[n - 1])
        end == loop[W]
        lo == U(-end.lo)
    IN  IF a = 0 \/ b = 0 THEN [hi |-> 0, lo |-> 0]
        ELSE IF ~negative THEN [hi |-> end.hi, lo |-> end.lo]
        ELSE [hi |-> U(2 ^ W - 1 - end.hi + (IF lo = 0 THEN 1 ELSE 0)), lo |-> lo]

Moves(x, i) ==
    LET product == Mult(A(x, i), B(x, i), i.op = "MULT")
    IN  CASE i.op = "MFHI" -> Sets(x, i.rd, x.r[HiReg])
          [] i.op = "MFLO" -> Sets(x, i.rd, x.r[LoReg])
          [] i.op = "MTHI" -> Sets(x, HiReg, A(x, i))
          [] i.op = "MTLO" -> Sets(x, LoReg, A(x, i))
          [] i.op \in {"MULT", "MULTU"} ->
               Sets(Sets(x, HiReg, product.hi), LoReg, product.lo)
          [] i.op = "NOR" -> Sets(x, i.rd, 2 ^ W - 1 - (A(x, i) | B(x, i)))
          [] i.op = "OR" -> Sets(x, i.rd, A(x, i) | B(x, i))
          [] i.op = "ORI" -> Sets(x, i.rt, A(x, i) | Low(i.extra, 2))

Stores(x, i) ==
    LET size == CASE i.op = "SB" -> 1 [] i.op = "SH" -> 2 [] i.op = "SW" -> 4
    IN  WriteMem(x, Address(x, i), size, B(x, i))

\* SRL and SRLV shift a signed int, as SRA and SRAV do.
Shifts(x, i) ==
    LET by == IF i.op \in {"SLLV", "SRAV", "SRLV"} THEN A(x, i) % W ELSE i.extra
        Flag(test) == IF test THEN 1 ELSE 0
    IN  CASE i.op \in {"SLL", "SLLV"} -> Sets(x, i.rd, B(x, i) * 2 ^ by)
          [] i.op \in {"SRA", "SRAV", "SRL", "SRLV"} ->
               Sets(x, i.rd, S(B(x, i)) \div 2 ^ by)
          [] i.op = "SLT" -> Sets(x, i.rd, Flag(S(A(x, i)) < S(B(x, i))))
          [] i.op = "SLTI" -> Sets(x, i.rt, Flag(S(A(x, i)) < S(i.extra)))
          [] i.op = "SLTIU" -> Sets(x, i.rt, Flag(A(x, i) < i.extra))
          [] i.op = "SLTU" -> Sets(x, i.rd, Flag(A(x, i) < B(x, i)))

\* A bug: the overflow test of ADD.
SubtractsAsAdds(x, i) ==
    LET diff == U(A(x, i) - B(x, i))
    IN  IF i.op = "SUB" /\ SignBit(A(x, i)) = SignBit(B(x, i))
                        /\ SignBit(A(x, i)) # SignBit(diff)
        THEN Fails(x, "OverflowException", 0)
        ELSE Sets(x, i.rd, diff)

Subtracts(x, i) ==
    LET diff == U(A(x, i) - B(x, i))
    IN  IF i.op = "SUB" /\ SignBit(A(x, i)) # SignBit(B(x, i))
                        /\ SignBit(A(x, i)) # SignBit(diff)
        THEN Fails(x, "OverflowException", 0)
        ELSE Sets(x, i.rd, diff)

StoreLeft(x, i) ==
    LET n == (Address(x, i) % 4) + 1
        base == Address(x, i) + 1 - n
        y == ReadMem(x, base, 4)
    IN  IF y.exc # "NoException" THEN y
        ELSE WriteMem(y, base, 4, High(y.val, n) + B(x, i) \div Bytes(4 - n))

\* A bug: the bytes below the address are cleared.
StoreRightClears(x, i) ==
    LET n == Address(x, i) % 4
    IN  WriteMem(x, Address(x, i) - n, 4, U(B(x, i) * Bytes(n)))

StoreRight(x, i) ==
    LET n == Address(x, i) % 4
        y == ReadMem(x, Address(x, i) - n, 4)
    IN  IF y.exc # "NoException" THEN y
        ELSE WriteMem(y, Address(x, i) - n, 4,
                      Low(y.val, n) + U(B(x, i) * Bytes(n)))

Others(x, i) ==
    CASE i.op = "SYSCALL" -> Fails(x, "SyscallException", 0)
      [] i.op = "XOR" -> Sets(x, i.rd, A(x, i) ^^ B(x, i))
      [] i.op = "XORI" -> Sets(x, i.rt, A(x, i) ^^ Low(i.extra, 2))
      [] i.op \in {"RES", "UNIMP"} -> Fails(x, "IllegalInstrException", 0)

Dispatch(x, i) ==
    CASE i.op \in {"ADD", "ADDI", "ADDIU", "ADDU", "AND", "ANDI"} -> Adds(x, i)
      [] i.op \in {"BEQ", "BNE", "BGEZ", "BGEZAL", "BLTZ", "BLTZAL", "BGTZ",
                   "BLEZ"} -> Branches(x, i)
      [] i.op \in {"DIV", "DIVU"} -> Divisions(x, i)
      [] i.op \in {"J", "JAL", "JR", "JALR"} -> Jumps(x, i)
      [] i.op \in {"LB", "LBU", "LH", "LHU", "LUI", "LW"} -> Loads(x, i)
      [] i.op = "LWL" -> LoadLeft(x, i)
      [] i.op = "LWR" -> LoadRight(x, i)
      [] i.op \in {"MFHI", "MFLO", "MTHI", "MTLO", "MULT", "MULTU", "NOR", "OR",
                   "ORI"} -> Moves(x, i)
      [] i.op \in {"SB", "SH", "SW"} -> Stores(x, i)
      [] i.op \in {"SLL", "SLLV", "SLT", "SLTI", "SLTIU", "SLTU", "SRA", "SRAV",
                   "SRL", "SRLV"} -> Shifts(x, i)
      [] i.op \in {"SUB", "SUBU"} -> Subtracts(x, i)
      [] i.op = "SWL" -> StoreLeft(x, i)
      [] i.op = "SWR" -> StoreRight(x, i)
      [] OTHER -> Others(x, i)

-----------------------------------------------------------------------------
\* The machine state after an instruction: RaiseException drains the delayed
\* load and leaves the program counters alone.
Advanced(r, pcAfter) == [r EXCEPT ![PrevPCReg] = r[PCReg], ![PCReg] = r[NextPCReg],
                                  ![NextPCReg] = pcAfter]
Trapped(r, bad) == DelayedLoad([r EXCEPT ![BadVAddrReg] = bad], 0, 0)
Ended(x, r) == [cpu |-> [r |-> r, m |-> x.m, pt |-> x.pt], exc |-> x.exc]

\* A bug: the program counters have moved on when an instruction traps.
FinishMoved(x) ==
    Ended(x, Advanced(IF x.exc # "NoException" THEN Trapped(x.r, x.bad)
                      ELSE DelayedLoad(x.r, x.load, x.val), x.pcAfter))

Finish(x) ==
    Ended(x, IF x.exc # "NoException" THEN Trapped(x.r, x.bad)
             ELSE Advanced(DelayedLoad(x.r, x.load, x.val), x.pcAfter))

Execute(x, v) == IF x.exc # "NoException" THEN x
                 ELSE Dispatch([x EXCEPT !.val = 0], Decode(v))
OneInstruction(s, v) == Finish(Execute(ReadMem(Begin(s), s.r[PCReg], 4), v))

MipsInit == /\ \E a, b \in Operands :
              cpu = [r |-> [n \in Registers |-> CASE n = 1 -> a [] n = 2 -> b
                                                  [] n = NextPCReg -> 4
                                                  [] OTHER -> 0],
                     m |-> Contents, pt |-> PageTable]
        /\ trap = "NoException" /\ status = "running" /\ steps = 0

Completes(after) ==
    IF after.exc = "HostTrap" THEN status' = "aborted" /\ UNCHANGED <<cpu, trap>>
    ELSE cpu' = after.cpu /\ trap' = after.exc /\ UNCHANGED status
Run == /\ status = "running" /\ trap = "NoException" /\ steps < MaxSteps
       /\ \E v \in Program : Completes(OneInstruction(cpu, v))
       /\ steps' = steps + 1

\* CheckIfDue, before it calls any interrupt handler.
Drained(s) == [s EXCEPT !.r = DelayedLoad(s.r, 0, 0)]
CheckIfDue == /\ status = "running" /\ trap = "NoException"
              /\ cpu' = Drained(cpu)
              /\ UNCHANGED <<trap, status, steps>>

ModifyReturnPoint(r) == [r EXCEPT ![PrevPCReg] = r[PCReg],
                                  ![PCReg] = U(r[PCReg] + 4),
                                  ![NextPCReg] = U(r[PCReg] + 8)]

\* The call codes of syscall.h that ExceptionHandler has a case for.
Halt == 0
Quiet == {44, 46, 48, 49, 1}      \* the Print calls, ReadString and Exit
Valued == {2, 3, 9, 42, 43, 45, 47} \cup 50 .. 58

\* Every other exception prints what it is and halts the machine.
Unhandled == status' = "halted" /\ UNCHANGED cpu

SystemCall(type) ==
    \/ type = Halt /\ Unhandled
    \/ /\ type \in Valued
       /\ \E result \in Results :
            cpu' = [cpu EXCEPT !.r = ModifyReturnPoint([@ EXCEPT ![2] = result])]
       /\ UNCHANGED status
    \/ /\ type \in Quiet
       /\ cpu' = [cpu EXCEPT !.r = ModifyReturnPoint(@)]
       /\ UNCHANGED status
    \/ /\ type \notin {Halt} \cup Valued \cup Quiet
       /\ status' = "aborted" /\ UNCHANGED cpu

ExceptionHandler ==
    /\ status = "running" /\ trap # "NoException"
    /\ trap' = "NoException" /\ UNCHANGED steps
    /\ IF trap = "SyscallException" THEN SystemCall(cpu.r[2]) ELSE Unhandled

MipsNext == Run \/ CheckIfDue \/ ExceptionHandler

MipsSpec == MipsInit /\ [][MipsNext]_mipsVars

-----------------------------------------------------------------------------
(***************************************************************************)
(* Properties.  Each one executes instructions in every state a run        *)
(* reaches, where a and b are the values of registers 1 and 2.             *)
(***************************************************************************)
Word(op, rs, rt, imm) == [op |-> op, rs |-> rs, rt |-> rt, rd |-> R31, shamt |-> 0,
                          funct |-> 0, imm |-> imm, target |-> 0]
Special(funct, rs, rt, rd, shamt) ==
    [op |-> 0, rs |-> rs, rt |-> rt, rd |-> rd, shamt |-> shamt, funct |-> funct,
     imm |-> 0, target |-> 0]
OpOf(name) == CHOOSE i \in 0 .. 63 : OpTable[i] = name
FunctOf(name) == CHOOSE i \in 0 .. 63 : SpecialTable[i] = name

MipsTypeOK ==
    /\ cpu.r \in [Registers -> Words] /\ cpu.r[0] = 0
    /\ cpu.m \in [0 .. MemorySize - 1 -> 0 .. Mask(1)]
    /\ status \in {"running", "halted", "aborted"}
    /\ steps \in 0 .. MaxSteps

\* In every state the arithmetic instructions compute what the integers do,
\* whatever bit tricks OneInstruction and Mult use: ADD, ADDI and SUB trap
\* exactly when the sum or difference has no two's complement word, MULT and
\* MULTU give the signed and the unsigned double-word product, DIV and DIVU
\* quotient and remainder, SLT and SLTU compare signed and unsigned.
ArithmeticRight ==
    LET a == cpu.r[1]
        b == cpu.r[2]
        Does(name) == OneInstruction(cpu, Special(FunctOf(name), 1, 2, R31, 0))
        Reg(name, n) == Does(name).cpu.r[n]
        Fits(n) == -(2 ^ (W - 1)) <= n /\ n < 2 ^ (W - 1)
        Checked(after, n, reg) ==
            IF Fits(n) THEN after.exc = "NoException" /\ S(after.cpu.r[reg]) = n
            ELSE after.exc = "OverflowException" /\ after.cpu.r[reg] = Drained(cpu).r[reg]
        Double(name) == Reg(name, HiReg) * 2 ^ W + Reg(name, LoReg)
    IN  Does("ADDU").exc = "NoException" /\ cpu.r[LoadReg] # R31 =>
        /\ Checked(Does("ADD"), S(a) + S(b), R31)
        /\ Checked(Does("SUB"), S(a) - S(b), R31)
        /\ \A imm \in {0, 1, Bytes(2) - 1, Bytes(2) \div 2} :
              Checked(OneInstruction(cpu, Word(OpOf("ADDI"), 1, R31, imm)),
                      S(a) + S(Extend(imm, 2)), R31)
        /\ Double("MULTU") = a * b
        /\ Double("MULT") = (S(a) * S(b)) % 2 ^ (2 * W)
        /\ b # 0 => a = Reg("DIVU", LoReg) * b + Reg("DIVU", HiReg)
                    /\ Reg("DIVU", HiReg) < b
        /\ b # 0 /\ Does("DIV").exc # "HostTrap" =>
              LET q == S(Reg("DIV", LoReg))
                  m == S(Reg("DIV", HiReg))
              IN  S(a) = q * S(b) + m /\ m * m < S(b) * S(b) /\ m * S(a) >= 0
        /\ Reg("SLT", R31) = 1 <=> S(a) < S(b)
        /\ Reg("SLTU", R31) = 1 <=> a < b

\* The unaligned pairs work: LWL at address v + 3 followed by LWR at v brings
\* the word whose first byte is at v into the register, and SWL with SWR
\* writes the register there, byte by byte, and no other byte.
UnalignedPairs ==
    \A v \in 0 .. PageSize - 4 :
      LET base == [cpu EXCEPT !.r[0] = 0, !.r[PCReg] = 0, !.r[NextPCReg] = 4]
          Both(first, second) ==
              OneInstruction(OneInstruction(base, Word(OpOf(first), 0, 1, v + 3)).cpu,
                             Word(OpOf(second), 0, 1, v)).cpu
          frame == PageSize * cpu.pt[0].physicalPage
          stored == Both("SWL", "SWR")
      IN  /\ Drained(Both("LWL", "LWR")).r[1] = ByteSum(cpu.m, frame + v, 4)
          /\ cpu.r[LoadReg] = 0 =>
               /\ ByteSum(stored.m, frame + v, 4) = cpu.r[1]
               /\ \A n \in DOMAIN cpu.m \ (frame + v .. frame + v + 3) :
                     stored.m[n] = cpu.m[n]

\* A trap between a load and the instruction in its delay slot is invisible:
\* draining the load first (RaiseException, CheckIfDue) and then executing the
\* instruction ends in the same state as executing it at once, for every
\* instruction that leaves the register being loaded alone, and for the LWL
\* and LWR that merge into it.  And an instruction that traps has had no effect
\* but that: it can be executed again once its cause is repaired.
TrapTransparent ==
    \A v \in Program :
      LET i == Decode(v)
          pending == cpu.r[LoadReg]
          after == OneInstruction(cpu, v)
          again == OneInstruction(Drained(cpu), v)
          Registered(s) == [n \in Registers \ {LoadReg, LoadValueReg} |-> s.r[n]]
      IN  /\ \/ pending # 0 /\ pending \in {i.rs, i.rd}
             \/ pending # 0 /\ pending = i.rt /\ i.op \notin {"LWL", "LWR"}
             \/ pending = R31 /\ i.op \in {"JAL", "BGEZAL", "BLTZAL"}
             \/ after.exc = again.exc /\ Drained(after.cpu) = Drained(again.cpu)
          /\ after.exc \notin {"NoException", "HostTrap"} =>
               /\ after.cpu.m = cpu.m
               /\ [after.cpu.r EXCEPT ![BadVAddrReg] = 0]
                    = [Drained(cpu).r EXCEPT ![BadVAddrReg] = 0]
=============================================================================
