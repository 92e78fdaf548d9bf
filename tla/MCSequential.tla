---------------------------- MODULE MCSequential ----------------------------
(***************************************************************************)
(* TLC instances of the sequential parts.  They share no state, so every   *)
(* behaviour is one of one part, chosen in the initial state, while the    *)
(* others' variables stay off.                                             *)
(***************************************************************************)
EXTENDS Mips, Interrupts, Containers, ConsoleCalls

VARIABLE part

MCPageTable ==
    [p \in 0 .. 3 |->
        [valid |-> p # 2, readOnly |-> p = 1, use |-> FALSE, dirty |-> FALSE,
         physicalPage |-> CASE p = 0 -> 1 [] p = 1 -> 0 [] OTHER -> 2]]
MCContents == [a \in 0 .. 2 * PageSize - 1 |-> (a + a \div 4 + 1) % 4]
MCOperands == {2, 128, 255}
\* Every instruction, one reserved and one unimplemented word.
Ops == {op \in 1 .. 63 : OpTable[op] \notin {"RES", "UNIMP"}} \cup {16, 63}
Functs == {f \in 0 .. 63 : SpecialTable[f] # "RES"} \cup {63}
MCProgram ==
    {Word(op, 1, 2, imm) : op \in Ops, imm \in {1, 15}}
      \cup {Special(f, 1, 2, rd, 1) : f \in Functs, rd \in {2, 31}}
      \cup {Word(1, 1, rt, 2) : rt \in {0, 1, 16, 17}}

MipsOff == cpu = "off" /\ trap = "off" /\ status = "off" /\ steps = 0
\* The clock as it starts, with a timer that is not random.
ClockOff ==
    /\ totalTicks = 0 /\ inHandler = FALSE /\ yieldOnReturn = FALSE
    /\ pending = <<[when |-> TimerTicks, device |-> "timer", since |-> 0]>>
    /\ machineStatus = "SystemMode" /\ randomize = FALSE
    /\ active = FALSE /\ lastSector = 0 /\ bufferInit = 0
    /\ request = [sector |-> -1, since |-> 0]
ContainersOff ==
    /\ sorted = FALSE /\ cells = <<>> /\ first = NULL /\ last = NULL
    /\ numInList = 0 /\ kept = <<>> /\ buckets = <<>> /\ numItems = 0
    /\ stored = {}
CallsOff == /\ call = "off" /\ typed = <<>> /\ shown = <<>>
            /\ userMemory = <<>> /\ before = <<>>

MCInit ==
    \/ part = "cpu" /\ MipsInit /\ ClockOff /\ ContainersOff /\ CallsOff
    \/ part = "clock" /\ ClockInit /\ MipsOff /\ ContainersOff /\ CallsOff
    \/ part \in {"list", "table"} /\ ContainerInit /\ MipsOff /\ ClockOff /\ CallsOff
    \/ part = "calls" /\ ConsoleInit /\ MipsOff /\ ClockOff /\ ContainersOff

MCNext ==
    /\ UNCHANGED part
    /\ \/ /\ part = "cpu" /\ MipsNext
          /\ UNCHANGED <<clockVars, containerVars, consoleVars>>
       \/ /\ part = "clock" /\ ClockNext
          /\ UNCHANGED <<mipsVars, containerVars, consoleVars>>
       \/ /\ part = "list" /\ ListNext
          /\ UNCHANGED <<mipsVars, clockVars, consoleVars>>
       \/ /\ part = "table" /\ TableNext
          /\ UNCHANGED <<mipsVars, clockVars, consoleVars>>
       \/ /\ part = "calls" /\ ConsoleNext
          /\ UNCHANGED <<mipsVars, clockVars, containerVars>>

MCSpec == MCInit /\ [][MCNext]_<<part, mipsVars, clockVars, containerVars, consoleVars>>

\* Machine::OneInstruction computes what the integers do, and traps exactly on
\* overflow: ArithmeticRight of Mips.
CpuArithmetic == part = "cpu" => MipsTypeOK /\ ArithmeticRight
\* A trap (Machine::RaiseException) between a load and its delay slot is invisible,
\* and the instruction that trapped has had no effect: TrapTransparent of Mips.
CpuTraps == part = "cpu" => TrapTransparent
\* LWL with LWR, and SWL with SWR, move one unaligned word and nothing else:
\* UnalignedPairs of Mips.
CpuUnaligned == part = "cpu" => UnalignedPairs
\* Disk::ComputeLatency gives the time at which the sector has passed under the head:
\* DiskTiming of Interrupts.
ClockDisk == part = "clock" => DiskTiming
\* Whatever calls are made, a List holds its sequence, with first, last and count
\* right, and a HashTable its set, ReHash included: ListHoldsSequence and
\* TableHoldsSet of Containers.
ContainersRight ==
  /\ part = "list" => ListHoldsSequence
  /\ part = "table" => TableHoldsSet
\* Numbers are read and printed right, and strings stay in their buffers:
\* NumbersRight and StringsRight of ConsoleCalls.
CallsRight == part = "calls" => NumbersRight /\ StringsRight
=============================================================================
