----------------------------- MODULE SetMachine -----------------------------
(***************************************************************************)
(* The C-at virtual machine: src/vm/set.h and src/vm/set.c.                *)
(*                                                                         *)
(* A step of this specification is one round of execute_program: fetch the *)
(* instruction at the program counter, advance the counter, run the case   *)
(* of execute_op for its opcode.  The memory is the memory of the code: an *)
(* array of bytes that push and pop address in words of four bytes through *)
(* stack_top and that the load and save instructions address at will, and  *)
(* an array of call frames of which the first "frames" are in use.         *)
(*                                                                         *)
(* A word is the bit pattern of a 32-bit register.  Floats are held as     *)
(* their patterns too, as the union UniformStrg and the memcpy's of the    *)
(* code do; what the floating-point unit computes is a parameter.          *)
(***************************************************************************)
EXTENDS Integers, Sequences, FiniteSets

CONSTANTS
  Programs,             \* instruction sequences that may be loaded
  Radix,                \* number of values of a byte: 256 in the code
  INT_REG_COUNT,        \* word registers
  FLT_REG_COUNT,        \* float registers
  FRAME_COUNT,          \* slots of frame_memory
  STACK_SIZE,           \* bytes of STACK
  Logging,              \* does the machine have a core_logger?
  FloatArith(_, _, _),  \* pattern of the result of a float instruction
  FloatCompare(_, _, _),\* outcome of a float comparison
  ToFloat(_),           \* pattern of an integer converted to float
  FromFloat(_, _)       \* possible results of converting a float to a word

-----------------------------------------------------------------------------
(***************************************************************************)
(* Machine arithmetic.                                                     *)
(***************************************************************************)
WORD_BYTES == 4

\* Number of values of a uint, and of a size_t.
UINT_MOD == Radix * Radix * Radix * Radix
SIZE_MOD == UINT_MOD * UINT_MOD

Byte    == 0 .. Radix - 1
Word    == 0 .. UINT_MOD - 1
Size    == 0 .. SIZE_MOD - 1
IntReg  == 0 .. INT_REG_COUNT - 1
FltReg  == 0 .. FLT_REG_COUNT - 1
Address == 0 .. STACK_SIZE - 1

\* The int that an int-typed reading of a word yields, and the size_t an int
\* becomes when it is passed where the code wants a size_t.
AsInt(w)  == IF w < UINT_MOD \div 2 THEN w ELSE w - UINT_MOD
IntToSize(n) == n % SIZE_MOD

AsFlag(b) == IF b THEN 1 ELSE 0

-----------------------------------------------------------------------------
(***************************************************************************)
(* Instructions.  An opcode the switch does not know is "UNSUPPORTED".     *)
(***************************************************************************)
IntArithOps     == {"I_ADD", "I_SUB", "I_DIV", "I_MUL"}
IntStepOps      == {"I_INC", "I_DEC"}
LogicOps        == {"I_AND", "I_OR"}
FloatArithOps   == {"I_FADD", "I_FSUB", "I_FDIV", "I_FMUL"}
IntCompareOps   == {"I_CMPE", "I_CMPEG", "I_CMPEL", "I_CMPG", "I_CMPL"}
FloatCompareOps == {"I_FCMPE", "I_FCMPEG", "I_FCMPEL", "I_FCMPG", "I_FCMPL"}
IntCastOps      == {"I_CU2I", "I_CI2U"}
ToFloatOps      == {"I_CI2F", "I_CU2F"}
FromFloatOps    == {"I_CF2I", "I_CF2U"}
DirectJumpOps   == {"I_JMP", "I_EJMP", "I_NEJMP"}
RegJumpOps      == {"I_RJMP", "I_ERJMP", "I_NERJMP"}
IdleOps         == {"I_NOP", "I_REG_DUMP", "UNSUPPORTED"}

Opcode ==
  {"I_HALT", "I_ENTRY", "I_DLOAD", "I_FLOAD", "I_DSAVE", "I_FSAVE", "I_SET",
   "I_FSET", "I_PUSH", "I_POP", "I_REC", "I_CALL", "I_GETAC", "I_PRINT",
   "I_RET"}
  \cup IntArithOps \cup IntStepOps \cup LogicOps \cup FloatArithOps
  \cup IntCompareOps \cup FloatCompareOps \cup IntCastOps \cup ToFloatOps
  \cup FromFloatOps \cup DirectJumpOps \cup RegJumpOps \cup IdleOps

\* argument_reg are signed bytes that nothing checks; storage is the union, of
\* which the machine only ever reads a 32-bit view.
Instruction == [op : Opcode, r0 : Int, r1 : Int, r2 : Int, imm : Word]

\* Mistakes to catch in IntResult: sums wider than the register, differences
\* that stop at zero, quotients rounded up.
IntResultTooWide(op, a, b) ==
  IF op = "I_ADD" THEN a + b ELSE (a - b) % UINT_MOD
IntResultSaturated(op, a, b) ==
  IF op = "I_SUB" THEN (IF a >= b THEN a - b ELSE 0) ELSE (a + b) % UINT_MOD
IntResultRoundedUp(op, a, b) ==
  CASE op = "I_SUB" -> (a - b) % UINT_MOD
    [] op = "I_MUL" -> (a * b) % UINT_MOD
    [] op = "I_DIV" -> (a + b - 1) \div b
    [] op = "I_ADD" -> (a + b) % UINT_MOD

\* The results of the integer instructions, on uint operands.
IntResult(op, a, b) ==
  CASE op = "I_ADD" -> (a + b) % UINT_MOD
    [] op = "I_SUB" -> (a - b) % UINT_MOD
    [] op = "I_MUL" -> (a * b) % UINT_MOD
    [] op = "I_DIV" -> a \div b

\* Mistakes: the two connectives exchanged, "or equal" forgotten.
LogicSwapped(op, a, b) ==
  IF op = "I_OR" THEN a # 0 /\ b # 0 ELSE a # 0 \/ b # 0
StrictCompare(op, a, b) ==
  IF op \in {"I_CMPEG", "I_CMPG"} THEN a > b ELSE IF op = "I_CMPE" THEN a = b ELSE a < b

LogicResult(op, a, b) ==
  IF op = "I_AND" THEN a # 0 /\ b # 0 ELSE a # 0 \/ b # 0

IntCompare(op, a, b) ==
  CASE op = "I_CMPE"  -> a = b
    [] op = "I_CMPEG" -> a >= b
    [] op = "I_CMPEL" -> a <= b
    [] op = "I_CMPG"  -> a > b
    [] op = "I_CMPL"  -> a < b

-----------------------------------------------------------------------------
(***************************************************************************)
(* Assumptions on the constants.                                           *)
(***************************************************************************)
ASSUME MachineAssumption ==
  /\ Radix \in Nat /\ Radix > 1
  /\ Radix % 2 = 0
  /\ INT_REG_COUNT \in Nat /\ INT_REG_COUNT >= 3  \* I_PRINT names r0, r1, r2
  /\ FLT_REG_COUNT \in Nat \ {0}
  /\ FRAME_COUNT \in Nat \ {0}
  /\ STACK_SIZE \in Nat /\ STACK_SIZE >= WORD_BYTES
  /\ STACK_SIZE + WORD_BYTES <= UINT_MOD
  /\ Logging \in BOOLEAN

\* A program that fits in memory with room for the counter to pass its end.
Loadable(p) == p \in Seq(Instruction) /\ Len(p) + 2 < SIZE_MOD

ASSUME ProgramsAssumption == \A p \in Programs : Loadable(p)

ASSUME FloatAssumption ==
  /\ \A a, b \in Word :
       /\ \A op \in FloatArithOps : FloatArith(op, a, b) \in Word
       /\ \A op \in FloatCompareOps : FloatCompare(op, a, b) \in BOOLEAN
  /\ \A a \in Word :
       /\ ToFloat(a) \in Word
       /\ \A op \in FromFloatOps : FromFloat(op, a) \subseteq Word
                                   /\ FromFloat(op, a) # {}

-----------------------------------------------------------------------------
VARIABLES
  program,       \* the loaded instructions; program[k+1] is the one at k
  pc,            \* program counter
  status,        \* "running", "halted" (is_running cleared), "aborted" (the
                 \* process was killed by an assertion or a trap) or
                 \* "undefined" (C promises nothing from here on)
  iregisters,
  fregisters,
  accum_register,
  frames,        \* number of frames in use
  frame_memory,
  stack_top,
  STACK,
  wrote          \* what the last write(2) returned and the bytes it took

regs  == <<iregisters, fregisters, accum_register>>
calls == <<frames, frame_memory>>
stack == <<stack_top, STACK>>
vars  == <<program, pc, status, regs, calls, stack, wrote>>

CallFrame   == [rip : Size, bfp : Word, lvp : Word]
NoFrame     == [rip |-> 0, bfp |-> 0, lvp |-> 0]
NoWrite     == [ret |-> 0, bytes |-> <<>>]
Slot        == 0 .. FRAME_COUNT - 1
Status      == {"running", "halted", "aborted", "undefined"}

-----------------------------------------------------------------------------
(***************************************************************************)
(* Memory: a word is four bytes, least significant first.                  *)
(***************************************************************************)
InStack(a) == a \in 0 .. STACK_SIZE - WORD_BYTES

LoadWord(mem, a) ==
  mem[a] + Radix * (mem[a + 1] + Radix * (mem[a + 2] + Radix * mem[a + 3]))

\* Mistake: the bytes of a word the other way round.
ByteFromTop(w, i) ==
  CASE i = 3 -> w % Radix
    [] i = 2 -> (w \div Radix) % Radix
    [] i = 1 -> ((w \div Radix) \div Radix) % Radix
    [] i = 0 -> (((w \div Radix) \div Radix) \div Radix) % Radix

\* The i-th byte of a word.
ByteOf(w, i) ==
  CASE i = 0 -> w % Radix
    [] i = 1 -> (w \div Radix) % Radix
    [] i = 2 -> ((w \div Radix) \div Radix) % Radix
    [] i = 3 -> (((w \div Radix) \div Radix) \div Radix) % Radix

\* Mistake: one byte of the word is not copied.
SaveThreeBytes(mem, a, w) ==
  [b \in Address |-> IF b \in a .. a + WORD_BYTES - 2 THEN ByteOf(w, b - a)
                                                      ELSE mem[b]]

SaveWord(mem, a, w) ==
  [b \in Address |-> IF b \in a .. a + WORD_BYTES - 1 THEN ByteOf(w, b - a)
                                                      ELSE mem[b]]

-----------------------------------------------------------------------------
(***************************************************************************)
(* The instruction about to be executed, and what it touches.              *)
(***************************************************************************)
Executing == status = "running" /\ pc < Len(program)

Inst == program[pc + 1]

\* Mistake: I_NEJMP jumps unconditionally.
TakenAlways(i) == i.op # "I_EJMP" \/ iregisters[i.r1] = iregisters[i.r2]

\* Does a conditional jump take its branch?
Taken(i) ==
  CASE i.op \in {"I_JMP", "I_RJMP"}     -> TRUE
    [] i.op \in {"I_EJMP", "I_ERJMP"}   -> iregisters[i.r1] = iregisters[i.r2]
    [] i.op \in {"I_NEJMP", "I_NERJMP"} -> iregisters[i.r1] # iregisters[i.r2]

\* The instructions that always read or write the word register r0, r1, r2 ...
WordR0 == {"I_PUSH", "I_POP", "I_GETAC", "I_SET", "I_RJMP", "I_RET", "I_DLOAD",
           "I_DSAVE"}
          \cup IntStepOps \cup IntArithOps \cup LogicOps \cup IntCompareOps
          \cup FloatCompareOps \cup IntCastOps \cup FromFloatOps
WordR1 == {"I_DLOAD", "I_DSAVE", "I_FSAVE", "I_EJMP", "I_NEJMP", "I_ERJMP",
           "I_NERJMP"}
          \cup IntArithOps \cup LogicOps \cup IntCompareOps \cup IntCastOps
          \cup ToFloatOps
WordR2 == {"I_EJMP", "I_NEJMP", "I_ERJMP", "I_NERJMP"}
          \cup IntArithOps \cup IntCompareOps

\* ... or the float register of that number.
FloatR0 == {"I_FLOAD", "I_FSAVE", "I_FSET"} \cup ToFloatOps \cup FloatArithOps
FloatR1 == FromFloatOps \cup FloatCompareOps \cup FloatArithOps
FloatR2 == FloatCompareOps \cup FloatArithOps

\* Every register that i touches exists.  Some are touched only as the first
\* operands turn out: && and || leave their right operand alone when the left
\* one decides, a conditional register jump reads its target when taken, the
\* dump is for the log.
RegistersExist(i) ==
  /\ i.op \in WordR0  => i.r0 \in IntReg
  /\ i.op \in WordR1  => i.r1 \in IntReg
  /\ i.op \in WordR2  => i.r2 \in IntReg
  /\ i.op \in FloatR0 => i.r0 \in FltReg
  /\ i.op \in FloatR1 => i.r1 \in FltReg
  /\ i.op \in FloatR2 => i.r2 \in FltReg
  /\ i.op = "I_AND" /\ iregisters[i.r1] # 0           => i.r2 \in IntReg
  /\ i.op = "I_OR" /\ iregisters[i.r1] = 0            => i.r2 \in IntReg
  /\ i.op \in {"I_ERJMP", "I_NERJMP"} /\ Taken(i)     => i.r0 \in IntReg
  /\ i.op = "I_REG_DUMP" /\ Logging                   => i.r0 \in IntReg

\* The address of the word a memory instruction loads or stores.  I_FLOAD uses
\* the register number itself as the address, the others the register's value.
MemoryOps == {"I_PUSH", "I_POP", "I_DLOAD", "I_FLOAD", "I_DSAVE", "I_FSAVE"}

\* Mistake: a pop reads below the top, as if the top were the first free byte.
AddressBelowTop(i) ==
  CASE i.op = "I_PUSH"  -> (stack_top + WORD_BYTES) % SIZE_MOD
    [] i.op = "I_POP"   -> stack_top - WORD_BYTES
    [] i.op = "I_FLOAD" -> i.r1
    [] i.op \in {"I_DLOAD", "I_DSAVE", "I_FSAVE"} -> iregisters[i.r1]

WordAddress(i) ==
  CASE i.op = "I_PUSH"  -> (stack_top + WORD_BYTES) % SIZE_MOD
    [] i.op = "I_POP"   -> stack_top
    [] i.op = "I_FLOAD" -> i.r1
    [] i.op \in {"I_DLOAD", "I_DSAVE", "I_FSAVE"} -> iregisters[i.r1]

\* Execution of i stays within what C defines: every register, stack byte and
\* frame slot it touches exists.  Nothing in the code checks for this.
Defined(i) ==
  /\ RegistersExist(i)
  /\ i.op \in MemoryOps => InStack(WordAddress(i))
  /\ i.op \in {"I_REC", "I_CALL"} => frames < FRAME_COUNT
  /\ i.op = "I_PRINT" => iregisters[1] + iregisters[2] <= STACK_SIZE

\* The common guard of the actions: one of ops is next, and it is defined.
Fetch(ops) == Executing /\ Inst.op \in ops /\ Defined(Inst)

\* The common effects: inst_next has advanced the counter; the result of an
\* instruction goes to register r0 of one of the two files.
Advance      == pc' = pc + 1
PutWord(w)   == iregisters' = [iregisters EXCEPT ![Inst.r0] = w]
PutFloat(w)  == fregisters' = [fregisters EXCEPT ![Inst.r0] = w]
Word1        == iregisters[Inst.r1]
Word2        == iregisters[Inst.r2]

-----------------------------------------------------------------------------
(***************************************************************************)
(* Initial states: init_machine on a loaded program, in a fresh process,   *)
(* where the register files and the stack are zeroed globals.              *)
(***************************************************************************)
InitMachine(p) ==
  /\ program = p
  /\ pc = 0
  /\ status = "running"
  /\ accum_register = 0
  /\ frames = 0
  /\ frame_memory = [s \in Slot |-> NoFrame]
  /\ stack_top = 0

InitGlobals ==
  /\ iregisters = [r \in IntReg |-> 0]
  /\ fregisters = [r \in FltReg |-> 0]
  /\ STACK = [a \in Address |-> 0]

Init ==
  /\ \E p \in Programs : InitMachine(p)
  /\ InitGlobals
  /\ wrote = NoWrite

-----------------------------------------------------------------------------
(***************************************************************************)
(* Stack and memory instructions.                                          *)
(***************************************************************************)

\* I_PUSH: push_decimal moves the top before it stores, so the bytes below the
\* first word stay unused.
Push ==
  /\ Fetch({"I_PUSH"})
  /\ stack_top' = WordAddress(Inst)
  /\ STACK' = SaveWord(STACK, WordAddress(Inst), iregisters[Inst.r0])
  /\ Advance
  /\ UNCHANGED <<program, status, regs, calls, wrote>>

\* Mistake: the top moves down by a byte.
TopDownByte == (stack_top - 1) % SIZE_MOD

TopAfterPop == (stack_top - WORD_BYTES) % SIZE_MOD

\* I_POP: pop_decimal loads and then moves the top down, past zero if need be.
Pop ==
  /\ Fetch({"I_POP"})
  /\ PutWord(LoadWord(STACK, WordAddress(Inst)))
  /\ stack_top' = TopAfterPop
  /\ Advance
  /\ UNCHANGED <<program, status, fregisters, accum_register, calls, STACK,
                 wrote>>

Load ==
  /\ Fetch({"I_DLOAD"})
  /\ PutWord(LoadWord(STACK, WordAddress(Inst)))
  /\ Advance
  /\ UNCHANGED <<program, status, fregisters, accum_register, calls, stack,
                 wrote>>

LoadFloat ==
  /\ Fetch({"I_FLOAD"})
  /\ PutFloat(LoadWord(STACK, WordAddress(Inst)))
  /\ Advance
  /\ UNCHANGED <<program, status, iregisters, accum_register, calls, stack,
                 wrote>>

Save ==
  /\ Fetch({"I_DSAVE", "I_FSAVE"})
  /\ STACK' = SaveWord(STACK, WordAddress(Inst),
                       IF Inst.op = "I_DSAVE" THEN iregisters[Inst.r0]
                                              ELSE fregisters[Inst.r0])
  /\ Advance
  /\ UNCHANGED <<program, status, regs, calls, stack_top, wrote>>

\* I_PRINT: write(2) on the stream in r0, of the r2 bytes at the address in r1.
\* It fails (-1) or takes some of the bytes; the assertion on its result kills
\* the process when the result is zero.
WriteResults(len) == {-1} \cup (IF len = 0 THEN {0} ELSE 1 .. len)

Write ==
  /\ Fetch({"I_PRINT"})
  /\ \E r \in WriteResults(iregisters[2]) :
       /\ wrote' = [ret   |-> r,
                    bytes |-> [k \in 1 .. r |-> STACK[iregisters[1] + k - 1]]]
       /\ status' = IF r = 0 THEN "aborted" ELSE status
  /\ Advance
  /\ UNCHANGED <<program, regs, calls, stack>>

-----------------------------------------------------------------------------
(***************************************************************************)
(* Register instructions.                                                  *)
(***************************************************************************)

\* The value an instruction computes from word or float registers alone.
WordResult ==
  LET op == Inst.op
      f1 == fregisters[Inst.r1]
      f2 == fregisters[Inst.r2]
  IN  CASE op = "I_SET"           -> Inst.imm
        [] op = "I_GETAC"         -> accum_register
        [] op = "I_INC"           -> (iregisters[Inst.r0] + 1) % UINT_MOD
        [] op = "I_DEC"           -> (iregisters[Inst.r0] - 1) % UINT_MOD
        [] op \in IntCastOps      -> Word1
        [] op \in IntArithOps     -> IntResult(op, Word1, Word2)
        [] op \in LogicOps        -> AsFlag(LogicResult(op, Word1, Word2))
        [] op \in IntCompareOps   -> AsFlag(IntCompare(op, Word1, Word2))
        [] op \in FloatCompareOps -> AsFlag(FloatCompare(op, f1, f2))

WordOps ==
  {"I_SET", "I_GETAC"} \cup IntStepOps \cup IntCastOps \cup IntArithOps
  \cup LogicOps \cup IntCompareOps \cup FloatCompareOps

\* The integer division of the build's processor traps on a zero divisor.
DividesByZero == Inst.op = "I_DIV" /\ Word2 = 0

ComputeWord ==
  /\ Fetch(WordOps)
  /\ ~DividesByZero
  /\ PutWord(WordResult)
  /\ Advance
  /\ UNCHANGED <<program, status, fregisters, accum_register, calls, stack,
                 wrote>>

\* I_CI2F and I_CU2F convert the same uint; the register file has no sign.
FloatResult ==
  LET op == Inst.op
      f1 == fregisters[Inst.r1]
      f2 == fregisters[Inst.r2]
  IN  CASE op = "I_FSET"         -> Inst.imm
        [] op \in ToFloatOps     -> ToFloat(Word1)
        [] op \in FloatArithOps  -> FloatArith(op, f1, f2)

ComputeFloat ==
  /\ Fetch({"I_FSET"} \cup ToFloatOps \cup FloatArithOps)
  /\ PutFloat(FloatResult)
  /\ Advance
  /\ UNCHANGED <<program, status, iregisters, accum_register, calls, stack,
                 wrote>>

\* I_CF2I and I_CF2U: a float out of the range of the target may become
\* anything.
CastFloat ==
  /\ Fetch(FromFloatOps)
  /\ \E w \in FromFloat(Inst.op, fregisters[Inst.r1]) : PutWord(w)
  /\ Advance
  /\ UNCHANGED <<program, status, fregisters, accum_register, calls, stack,
                 wrote>>

\* I_NOP, I_REG_DUMP (which only logs), and the default case of the switch,
\* which complains and goes on.
Idle ==
  /\ Fetch(IdleOps)
  /\ Advance
  /\ UNCHANGED <<program, status, regs, calls, stack, wrote>>

-----------------------------------------------------------------------------
(***************************************************************************)
(* Control instructions.                                                   *)
(***************************************************************************)

\* Mistake: the record goes to the frame in use.
SlotInUse == IF frames > 0 THEN frames - 1 ELSE 0

RecordSlot == frames

\* I_REC: the record goes to the first free frame, with the other fields zero.
Record ==
  /\ Fetch({"I_REC"})
  /\ frame_memory' = [frame_memory EXCEPT
                        ![RecordSlot] = [NoFrame EXCEPT !.bfp = stack_top % UINT_MOD]]
  /\ Advance
  /\ UNCHANGED <<program, status, regs, frames, stack, wrote>>

\* Mistake: only one side of the shift by one is mended.
ResumeUnshifted == pc + 1

ResumePoint == pc + 2

\* I_CALL: the counter, already past the call, is moved once more and saved.
Call ==
  /\ Fetch({"I_CALL"})
  /\ frame_memory' = [frame_memory EXCEPT
                        ![frames] = [rip |-> ResumePoint,
                                     bfp |-> 0,
                                     lvp |-> stack_top % UINT_MOD]]
  /\ frames' = frames + 1
  /\ pc' = IntToSize(AsInt(Inst.imm))
  /\ UNCHANGED <<program, status, regs, stack, wrote>>

\* Mistake: the frame is left as it is.
FramesKept == frame_memory

FramesAfterReturn == [frame_memory EXCEPT ![frames - 1] = NoFrame]

\* Mistake: the return is that of the first of the open calls.
ReturnToFirst ==
  /\ Fetch({"I_RET"})
  /\ frames > 0
  /\ accum_register' = iregisters[Inst.r0]
  /\ pc' = frame_memory[0].rip - 1
  /\ frame_memory' = FramesAfterReturn
  /\ frames' = frames - 1
  /\ UNCHANGED <<program, status, iregisters, fregisters, stack, wrote>>

\* I_RET with a frame in use: back to one before the saved counter.
Return ==
  /\ Fetch({"I_RET"})
  /\ frames > 0
  /\ accum_register' = iregisters[Inst.r0]
  /\ pc' = frame_memory[frames - 1].rip - 1
  /\ frame_memory' = FramesAfterReturn
  /\ frames' = frames - 1
  /\ UNCHANGED <<program, status, iregisters, fregisters, stack, wrote>>

\* I_RET with none: the end of the program.
RootReturn ==
  /\ Fetch({"I_RET"})
  /\ frames = 0
  /\ accum_register' = iregisters[Inst.r0]
  /\ status' = "halted"
  /\ Advance
  /\ UNCHANGED <<program, iregisters, fregisters, calls, stack, wrote>>

Halt ==
  /\ Fetch({"I_HALT"})
  /\ status' = "halted"
  /\ Advance
  /\ UNCHANGED <<program, regs, calls, stack, wrote>>

Jump ==
  /\ Fetch(DirectJumpOps \cup RegJumpOps)
  /\ pc' = IF ~Taken(Inst) THEN pc + 1
           ELSE IF Inst.op \in DirectJumpOps THEN Inst.imm
           ELSE iregisters[Inst.r0]
  /\ UNCHANGED <<program, status, regs, calls, stack, wrote>>

\* The two ways execute_op kills the process by itself: the assertion of
\* I_ENTRY, and the division trap.
Abort ==
  /\ Fetch({"I_ENTRY", "I_DIV"})
  /\ Inst.op = "I_ENTRY" \/ DividesByZero
  /\ status' = "aborted"
  /\ Advance
  /\ UNCHANGED <<program, regs, calls, stack, wrote>>

\* An instruction that touches what does not exist.
Fault ==
  /\ Executing
  /\ ~Defined(Inst)
  /\ status' = "undefined"
  /\ UNCHANGED <<program, pc, regs, calls, stack, wrote>>

Step ==
  \/ Push \/ Pop \/ Load \/ LoadFloat \/ Save \/ Write
  \/ ComputeWord \/ ComputeFloat \/ CastFloat \/ Idle
  \/ Record \/ Call \/ Return \/ RootReturn \/ Halt \/ Jump
  \/ Abort \/ Fault

\* execute_program has left its loop, or the process is gone.
Finished == ~Executing /\ UNCHANGED vars

Next == Step \/ Finished

\* The loop of execute_program does nothing but execute the next instruction.
Spec == Init /\ [][Next]_vars /\ WF_vars(Step)

-----------------------------------------------------------------------------
(***************************************************************************)
(* Correctness.                                                            *)
(***************************************************************************)

\* Every variable of execute_op stays within its C type, and the number of
\* frames within the array of set.h.
TypeOK ==
  /\ Loadable(program)
  /\ pc \in Size
  /\ status \in Status
  /\ iregisters \in [IntReg -> Word]
  /\ fregisters \in [FltReg -> Word]
  /\ accum_register \in Word
  /\ frames \in 0 .. FRAME_COUNT
  /\ frame_memory \in [Slot -> CallFrame]
  /\ stack_top \in Size
  /\ STACK \in [Address -> Byte]
  /\ wrote.ret \in Int
  /\ wrote.bytes \in Seq(Byte)

\* Every frame in use holds the resume point of a call instruction of the
\* program: call and I_RET shift the counter by the same amount, and no record
\* overwrites a frame in use.
LiveFramesReturnToCalls ==
  \A s \in 0 .. frames - 1 :
    LET back == frame_memory[s].rip
    IN  /\ back - 1 \in 1 .. Len(program)
        /\ program[back - 1].op = "I_CALL"

\* No free slot of the frame memory, recorded into or not, can be returned
\* through: I_RET clears the frame it leaves.
FreeFramesHoldNoReturn ==
  \A s \in frames .. FRAME_COUNT - 1 : frame_memory[s].rip = 0

\* All jumps and calls of the program lead further down.
GoesForward(p) ==
  \A k \in DOMAIN p :
    /\ p[k].op \in DirectJumpOps => p[k].imm >= k
    /\ p[k].op = "I_CALL" => IntToSize(AsInt(p[k].imm)) >= k
    /\ p[k].op \notin RegJumpOps

\* In such a program a call or a record beyond the array of frames - nothing checks for
\* it - has as many calls above it as there are frames: whatever was returned from
\* before, each of the open calls is another instruction of those above.
ForwardCallsFit ==
  status = "undefined" /\ GoesForward(program) /\ Inst.op \in {"I_CALL", "I_REC"} =>
    Cardinality({k \in DOMAIN program : k <= pc /\ program[k].op = "I_CALL"}) >= FRAME_COUNT

\* push and pop only ever see whole words: the top stays aligned, also after a
\* pop below the bottom of the stack has wrapped it around.
TopAligned == stack_top % WORD_BYTES = 0

=============================================================================
