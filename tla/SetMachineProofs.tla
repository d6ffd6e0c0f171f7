--------------------------- MODULE SetMachineProofs ---------------------------
(***************************************************************************)
(* Proofs about the machine: whatever program is loaded, no variable       *)
(* leaves its type, and the frames in use are those of calls.              *)
(***************************************************************************)
EXTENDS SetMachineRefinement, FiniteSetTheorems, TLAPS

-----------------------------------------------------------------------------
(***************************************************************************)
(* Machine arithmetic.                                                     *)
(***************************************************************************)

\* A remainder is below its divisor: how the results of the machine's
\* arithmetic, all of them remainders, stay within a register.
LEMMA RemainderRange ==
  ASSUME NEW n \in Int, NEW m \in Nat, m > 0
  PROVE  n % m \in 0 .. m - 1
  OBVIOUS

\* A product of positive numbers is at least each of them.
LEMMA ProductBound ==
  ASSUME NEW m \in Nat, NEW n \in Nat, m > 0, n > 0
  PROVE  m * n \in Nat /\ m * n >= m /\ m * n >= n
  OBVIOUS

\* The moduli are numbers, each at least the one before it: a word fits in a
\* size_t, a byte in a word.
LEMMA Moduli ==
  /\ UINT_MOD \in Nat /\ UINT_MOD >= Radix /\ UINT_MOD > 1
  /\ SIZE_MOD \in Nat /\ SIZE_MOD >= UINT_MOD
  /\ Radix \in Nat /\ Radix > 1
<1> DEFINE R2 == Radix * Radix
           R3 == R2 * Radix
<1>1. Radix \in Nat /\ Radix > 1
  BY MachineAssumption
<1>2. R2 \in Nat /\ R2 >= Radix
  BY <1>1, ProductBound
<1>3. R3 \in Nat /\ R3 >= Radix
  <2> HIDE DEF R2
  <2> QED BY <1>1, <1>2, ProductBound
<1>4. R3 * Radix \in Nat /\ R3 * Radix >= Radix
  <2> HIDE DEF R3
  <2> QED BY <1>1, <1>3, ProductBound
<1>5. UINT_MOD = R3 * Radix
  BY DEF UINT_MOD
<1>6. UINT_MOD \in Nat /\ UINT_MOD >= Radix /\ UINT_MOD > 1
  <2> HIDE DEF R3
  <2> QED BY <1>1, <1>4, <1>5
<1>7. SIZE_MOD \in Nat /\ SIZE_MOD >= UINT_MOD
  BY <1>6, ProductBound DEF SIZE_MOD
<1> QED BY <1>1, <1>6, <1>7

\* A digit put in front of a number below m gives one below Radix * m.
LEMMA DigitInFront ==
  ASSUME NEW m \in Nat, NEW n \in 0 .. m - 1, NEW d \in Byte
  PROVE  d + Radix * n \in 0 .. Radix * m - 1
<1>1. Radix \in Nat /\ d \in Nat /\ d <= Radix - 1
  BY Moduli DEF Byte
<1>2. Radix * n \in Nat /\ Radix * n <= Radix * (m - 1)
  BY <1>1
<1>3. Radix * (m - 1) = Radix * m - Radix /\ Radix * m \in Nat
  BY <1>1
<1> QED BY <1>1, <1>2, <1>3

-----------------------------------------------------------------------------
(***************************************************************************)
(* Memory and results.                                                     *)
(***************************************************************************)

\* Four bytes of the stack make a word.
LEMMA LoadWordType ==
  ASSUME NEW mem \in [Address -> Byte], NEW a \in 0 .. STACK_SIZE - WORD_BYTES
  PROVE  LoadWord(mem, a) \in Word
<1> DEFINE h3 == mem[a + 3]
           h2 == mem[a + 2] + Radix * h3
           h1 == mem[a + 1] + Radix * h2
           h0 == mem[a] + Radix * h1
<1>1. /\ mem[a] \in Byte /\ mem[a + 1] \in Byte
      /\ mem[a + 2] \in Byte /\ mem[a + 3] \in Byte
  BY MachineAssumption DEF Address, WORD_BYTES
<1>2. Radix \in Nat /\ Radix * Radix \in Nat /\ Radix * (Radix * Radix) \in Nat
  BY Moduli
<1>3. h3 \in 0 .. Radix - 1
  BY <1>1 DEF Byte
<1>4. h2 \in 0 .. Radix * Radix - 1
  BY <1>1, <1>2, <1>3, DigitInFront
<1>5. h1 \in 0 .. Radix * (Radix * Radix) - 1
  <2> HIDE DEF h2
  <2> QED BY <1>1, <1>2, <1>4, DigitInFront
<1>6. h0 \in 0 .. Radix * (Radix * (Radix * Radix)) - 1
  <2> HIDE DEF h1
  <2> QED BY <1>1, <1>2, <1>5, DigitInFront
<1>7. UINT_MOD = Radix * (Radix * (Radix * Radix))
  BY <1>2 DEF UINT_MOD
<1>8. LoadWord(mem, a) = h0
  BY DEF LoadWord
<1> HIDE DEF h0
<1> QED BY <1>6, <1>7, <1>8 DEF Word

\* A byte of a word is a byte.
LEMMA ByteOfType ==
  ASSUME NEW w \in Word, NEW k \in 0 .. WORD_BYTES - 1
  PROVE  ByteOf(w, k) \in Byte
  BY Moduli DEF ByteOf, Byte, Word, WORD_BYTES

\* Storing a word leaves the stack an array of bytes.
LEMMA SaveWordType ==
  ASSUME NEW mem \in [Address -> Byte], NEW a \in Int, NEW w \in Word
  PROVE  SaveWord(mem, a, w) \in [Address -> Byte]
<1> SUFFICES ASSUME NEW b \in Address
             PROVE  (IF b \in a .. a + WORD_BYTES - 1 THEN ByteOf(w, b - a)
                                                      ELSE mem[b]) \in Byte
  BY DEF SaveWord
<1>1. CASE b \in a .. a + WORD_BYTES - 1
  <2>1. b - a \in 0 .. WORD_BYTES - 1
    BY <1>1, MachineAssumption DEF Address, WORD_BYTES
  <2> QED BY <1>1, <2>1, ByteOfType
<1>2. CASE b \notin a .. a + WORD_BYTES - 1
  BY <1>2
<1> QED BY <1>1, <1>2

\* A quotient is at most its dividend.
LEMMA QuotientRange ==
  ASSUME NEW a \in Nat, NEW b \in Nat, b > 0
  PROVE  a \div b \in 0 .. a
  OBVIOUS

\* The integer instructions keep to the word, a division when it is defined.
LEMMA IntResultType ==
  ASSUME NEW op \in IntArithOps, NEW a \in Word, NEW b \in Word,
         op = "I_DIV" => b # 0
  PROVE  IntResult(op, a, b) \in Word
<1>1. a \in Nat /\ b \in Nat /\ UINT_MOD \in Nat /\ UINT_MOD > 0
  BY Moduli DEF Word
<1>2. CASE op = "I_ADD"
  <2>1. (a + b) % UINT_MOD \in Word
    BY <1>1, RemainderRange DEF Word
  <2> QED BY <1>2, <2>1 DEF IntResult
<1>3. CASE op = "I_SUB"
  <2>1. (a - b) % UINT_MOD \in Word
    BY <1>1, RemainderRange DEF Word
  <2> QED BY <1>3, <2>1 DEF IntResult
<1>4. CASE op = "I_MUL"
  <2>1. a * b \in Int
    BY <1>1
  <2>2. (a * b) % UINT_MOD \in Word
    BY <1>1, <2>1, RemainderRange DEF Word
  <2> QED BY <1>4, <2>2 DEF IntResult
<1>5. CASE op = "I_DIV"
  <2>1. a \div b \in 0 .. a
    BY <1>1, <1>5, QuotientRange
  <2>2. a \div b \in Word
    BY <1>1, <2>1 DEF Word
  <2> QED BY <1>5, <2>2 DEF IntResult
<1> QED BY <1>2, <1>3, <1>4, <1>5 DEF IntArithOps

\* Truth values fit in a register.
LEMMA FlagType == \A b : AsFlag(b) \in Word
  BY Moduli DEF AsFlag, Word

-----------------------------------------------------------------------------
(***************************************************************************)
(* The inductive invariant.  Type correctness alone is not inductive: that *)
(* I_RET leaves a program counter and not the predecessor of zero needs    *)
(* the frames in use to be those of calls, which in turn needs I_REC to    *)
(* stay off them.                                                          *)
(***************************************************************************)
IInv ==
  /\ TypeOK
  /\ LiveFramesReturnToCalls
  /\ FreeFramesHoldNoReturn

\* What is known of the instruction the machine is about to execute.
LEMMA FetchFacts ==
  ASSUME TypeOK, Executing
  PROVE  /\ Len(program) \in Nat
         /\ pc \in 0 .. Len(program) - 1
         /\ pc + 1 \in 1 .. Len(program)
         /\ pc + 1 \in Size
         /\ pc + 2 \in Size
         /\ Inst \in Instruction
<1>1. Len(program) \in Nat /\ Len(program) + 2 < SIZE_MOD /\ SIZE_MOD \in Nat
  BY Moduli DEF TypeOK, Loadable
<1>2. pc \in Nat /\ pc < Len(program)
  BY <1>1 DEF TypeOK, Size, Executing
<1>3. program[pc + 1] \in Instruction
  BY <1>1, <1>2 DEF TypeOK, Loadable
<1> QED BY <1>1, <1>2, <1>3 DEF Inst, Size

\* Storing a word in a register that exists keeps the register file.
LEMMA PutType ==
  ASSUME NEW S, NEW f \in [S -> Word], NEW r, NEW w \in Word
  PROVE  [f EXCEPT ![r] = w] \in [S -> Word]
  OBVIOUS

\* The initial states satisfy the invariant.
THEOREM InitIInv == Init => IInv
<1> SUFFICES ASSUME Init PROVE IInv
  OBVIOUS
<1> USE DEF Init, InitGlobals
<1>1. PICK p \in Programs : InitMachine(p)
  OBVIOUS
<1>2. Loadable(program)
  BY <1>1, ProgramsAssumption DEF InitMachine
<1>3. 0 \in Word /\ 0 \in Size /\ 0 \in Byte
  BY Moduli DEF Word, Size, Byte
<1>4. frame_memory \in [Slot -> CallFrame]
  BY <1>1, <1>3 DEF InitMachine, NoFrame, CallFrame
<1>5. frames = 0 /\ frames \in 0 .. FRAME_COUNT
  BY <1>1, MachineAssumption DEF InitMachine
<1>6. wrote.ret \in Int /\ wrote.bytes \in Seq(Byte)
  BY DEF NoWrite
<1>7. TypeOK
  BY <1>1, <1>2, <1>3, <1>4, <1>5, <1>6 DEF TypeOK, InitMachine, Status
<1>8. LiveFramesReturnToCalls
  BY <1>5 DEF LiveFramesReturnToCalls
<1>9. FreeFramesHoldNoReturn
  BY <1>1, MachineAssumption
     DEF FreeFramesHoldNoReturn, InitMachine, Slot, NoFrame
<1> QED BY <1>7, <1>8, <1>9 DEF IInv

-----------------------------------------------------------------------------
(***************************************************************************)
(* Type correctness, action by action.                                     *)
(***************************************************************************)

\* The stack instructions.
LEMMA PushType == TypeOK /\ Push => TypeOK'
<1> SUFFICES ASSUME TypeOK, Push PROVE TypeOK'
  OBVIOUS
<1>1. /\ Executing /\ Inst.op = "I_PUSH" /\ Defined(Inst)
  BY DEF Push, Fetch
<1>2. pc + 1 \in Size
  BY <1>1, FetchFacts
<1>3. stack_top + WORD_BYTES \in Int /\ SIZE_MOD \in Nat /\ SIZE_MOD > 0
  BY Moduli DEF TypeOK, Size, WORD_BYTES
<1>4. WordAddress(Inst) = (stack_top + WORD_BYTES) % SIZE_MOD
  BY <1>1 DEF WordAddress
<1>5. WordAddress(Inst) \in Size
  BY <1>3, <1>4, RemainderRange DEF Size
<1>6. iregisters[Inst.r0] \in Word
  BY <1>1 DEF TypeOK, Defined, RegistersExist, WordR0
<1>7. STACK' \in [Address -> Byte]
  BY <1>5, <1>6, SaveWordType, Moduli DEF Push, TypeOK, Size
<1> QED BY <1>2, <1>5, <1>7 DEF TypeOK, Push, Advance, regs, calls

LEMMA PopType == TypeOK /\ Pop => TypeOK'
<1> SUFFICES ASSUME TypeOK, Pop PROVE TypeOK'
  OBVIOUS
<1>1. /\ Executing /\ Inst.op = "I_POP" /\ Defined(Inst)
  BY DEF Pop, Fetch
<1>2. pc + 1 \in Size
  BY <1>1, FetchFacts
<1>3. /\ WordAddress(Inst) = stack_top
      /\ WordAddress(Inst) \in 0 .. STACK_SIZE - WORD_BYTES
  BY <1>1 DEF Defined, MemoryOps, InStack, WordAddress
<1>4. LoadWord(STACK, WordAddress(Inst)) \in Word
  BY <1>3, LoadWordType DEF TypeOK
<1>5. iregisters' \in [IntReg -> Word]
  BY <1>4, PutType DEF Pop, PutWord, TypeOK
<1>6. (stack_top - WORD_BYTES) % SIZE_MOD \in Size
  BY <1>3, Moduli, MachineAssumption, RemainderRange DEF Size, WORD_BYTES
<1> QED BY <1>2, <1>5, <1>6 DEF TypeOK, Pop, TopAfterPop, Advance, calls

LEMMA LoadType == TypeOK /\ (Load \/ LoadFloat) => TypeOK'
<1> SUFFICES ASSUME TypeOK, Load \/ LoadFloat PROVE TypeOK'
  OBVIOUS
<1>1. /\ Executing /\ Inst.op \in {"I_DLOAD", "I_FLOAD"} /\ Defined(Inst)
  BY DEF Load, LoadFloat, Fetch
<1>2. pc + 1 \in Size
  BY <1>1, FetchFacts
<1>3. WordAddress(Inst) \in 0 .. STACK_SIZE - WORD_BYTES
  BY <1>1 DEF Defined, MemoryOps, InStack
<1>4. LoadWord(STACK, WordAddress(Inst)) \in Word
  BY <1>3, LoadWordType DEF TypeOK
<1>5. CASE Load
  <2>1. iregisters' \in [IntReg -> Word]
    BY <1>4, <1>5, PutType DEF Load, PutWord, TypeOK
  <2> QED BY <1>2, <1>5, <2>1 DEF TypeOK, Load, Advance, calls, stack
<1>6. CASE LoadFloat
  <2>1. fregisters' \in [FltReg -> Word]
    BY <1>4, <1>6, PutType DEF LoadFloat, PutFloat, TypeOK
  <2> QED BY <1>2, <1>6, <2>1 DEF TypeOK, LoadFloat, Advance, calls, stack
<1> QED BY <1>5, <1>6

LEMMA SaveType == TypeOK /\ Save => TypeOK'
<1> SUFFICES ASSUME TypeOK, Save PROVE TypeOK'
  OBVIOUS
<1>1. /\ Executing /\ Inst.op \in {"I_DSAVE", "I_FSAVE"} /\ Defined(Inst)
  BY DEF Save, Fetch
<1>2. pc + 1 \in Size
  BY <1>1, FetchFacts
<1>3. WordAddress(Inst) \in Int
  BY <1>1, MachineAssumption DEF Defined, MemoryOps, InStack, WORD_BYTES
<1> DEFINE w == IF Inst.op = "I_DSAVE" THEN iregisters[Inst.r0]
                                       ELSE fregisters[Inst.r0]
<1>4. w \in Word
  <2>1. CASE Inst.op = "I_DSAVE"
    BY <1>1, <2>1 DEF TypeOK, Defined, RegistersExist, WordR0
  <2>2. CASE Inst.op = "I_FSAVE"
    BY <1>1, <2>2 DEF TypeOK, Defined, RegistersExist, FloatR0
  <2> QED BY <1>1, <2>1, <2>2
<1>5. STACK' \in [Address -> Byte]
  <2>1. STACK' = SaveWord(STACK, WordAddress(Inst), w)
    BY DEF Save
  <2> HIDE DEF w
  <2> QED BY <1>3, <1>4, <2>1, SaveWordType DEF TypeOK
<1> QED BY <1>2, <1>5 DEF TypeOK, Save, Advance, regs, calls

LEMMA WriteType == TypeOK /\ Write => TypeOK'
<1> SUFFICES ASSUME TypeOK, Write PROVE TypeOK'
  OBVIOUS
<1>1. /\ Executing /\ Inst.op = "I_PRINT" /\ Defined(Inst)
  BY DEF Write, Fetch
<1>2. pc + 1 \in Size
  BY <1>1, FetchFacts
<1>3. iregisters[1] \in Nat /\ iregisters[2] \in Nat
  BY MachineAssumption, Moduli DEF TypeOK, IntReg, Word
<1>4. iregisters[1] + iregisters[2] <= STACK_SIZE
  BY <1>1 DEF Defined
<1>5. PICK r \in WriteResults(iregisters[2]) :
        /\ wrote' = [ret   |-> r,
                     bytes |-> [k \in 1 .. r |-> STACK[iregisters[1] + k - 1]]]
        /\ status' = IF r = 0 THEN "aborted" ELSE status
  BY DEF Write
<1>6. r \in Int /\ r <= iregisters[2]
  BY <1>3, <1>5 DEF WriteResults
<1>7. ASSUME NEW k \in 1 .. r
      PROVE  STACK[iregisters[1] + k - 1] \in Byte
  <2>1. iregisters[1] + k - 1 \in Address
    BY <1>3, <1>4, <1>6, MachineAssumption DEF Address
  <2> QED BY <2>1 DEF TypeOK
<1>8. wrote'.ret \in Int /\ wrote'.bytes \in Seq(Byte)
  <2>1. CASE r >= 0
    <3>1. [k \in 1 .. r |-> STACK[iregisters[1] + k - 1]] \in Seq(Byte)
      BY <1>6, <1>7, <2>1
    <3> QED BY <1>5, <1>6, <3>1
  <2>2. CASE r < 0
    <3>1. [k \in 1 .. r |-> STACK[iregisters[1] + k - 1]] = <<>>
      BY <1>6, <2>2
    <3>2. <<>> \in Seq(Byte)
      OBVIOUS
    <3> QED BY <1>5, <1>6, <3>1, <3>2
  <2> QED BY <1>6, <2>1, <2>2
<1>9. status' \in Status
  BY <1>5 DEF TypeOK, Status
<1> QED BY <1>2, <1>8, <1>9 DEF TypeOK, Write, Advance, regs, calls, stack

\* The register instructions.
LEMMA WordResultType ==
  ASSUME TypeOK, Executing, Inst.op \in WordOps, Defined(Inst), ~DividesByZero
  PROVE  WordResult \in Word
<1> DEFINE op == Inst.op
<1>1. Inst \in Instruction
  BY FetchFacts
<1>2. UINT_MOD \in Nat /\ UINT_MOD > 0
  BY Moduli
<1>3. op \in WordR1 => Word1 \in Word
  BY DEF TypeOK, Defined, RegistersExist, Word1
<1>4. op \in WordR2 => Word2 \in Word
  BY DEF TypeOK, Defined, RegistersExist, Word2
<1>5. CASE op = "I_SET"
  <2>1. WordResult = Inst.imm
    BY <1>5 DEF WordResult, IntCastOps, IntArithOps, LogicOps, IntCompareOps,
                FloatCompareOps
  <2> QED BY <1>1, <2>1 DEF Instruction
<1>6. CASE op = "I_GETAC"
  <2>1. WordResult = accum_register
    BY <1>6 DEF WordResult, IntCastOps, IntArithOps, LogicOps, IntCompareOps,
                FloatCompareOps
  <2> QED BY <2>1 DEF TypeOK
<1>7. CASE op \in IntStepOps
  <2>1. iregisters[Inst.r0] \in Int
    BY <1>7, Moduli DEF TypeOK, Defined, RegistersExist, WordR0, IntStepOps, Word
  <2>2. /\ (iregisters[Inst.r0] + 1) % UINT_MOD \in Word
        /\ (iregisters[Inst.r0] - 1) % UINT_MOD \in Word
    BY <1>2, <2>1, RemainderRange DEF Word
  <2>3. WordResult = IF op = "I_INC" THEN (iregisters[Inst.r0] + 1) % UINT_MOD
                                     ELSE (iregisters[Inst.r0] - 1) % UINT_MOD
    BY <1>7 DEF WordResult, IntStepOps, IntCastOps, IntArithOps, LogicOps,
                IntCompareOps, FloatCompareOps
  <2> QED BY <2>2, <2>3
<1>8. CASE op \in IntCastOps
  <2>1. WordResult = Word1
    BY <1>8 DEF WordResult, IntCastOps, IntArithOps, LogicOps, IntCompareOps,
                FloatCompareOps
  <2> QED BY <1>3, <1>8, <2>1 DEF WordR1
<1>9. CASE op \in IntArithOps
  <2>1. WordResult = IntResult(op, Word1, Word2)
    BY <1>9 DEF WordResult, IntCastOps, IntArithOps, LogicOps, IntCompareOps,
                FloatCompareOps
  <2>2. op = "I_DIV" => Word2 # 0
    BY DEF DividesByZero
  <2> QED BY <1>3, <1>4, <1>9, <2>1, <2>2, IntResultType DEF WordR1, WordR2
<1>10. CASE op \in LogicOps
  <2>1. WordResult = AsFlag(LogicResult(op, Word1, Word2))
    BY <1>10 DEF WordResult, IntCastOps, IntArithOps, LogicOps, IntCompareOps,
                 FloatCompareOps
  <2> QED BY <2>1, FlagType
<1>11. CASE op \in IntCompareOps
  <2>1. WordResult = AsFlag(IntCompare(op, Word1, Word2))
    BY <1>11 DEF WordResult, IntCastOps, IntArithOps, LogicOps, IntCompareOps,
                 FloatCompareOps
  <2> QED BY <2>1, FlagType
<1>12. CASE op \in FloatCompareOps
  <2>1. WordResult = AsFlag(FloatCompare(op, fregisters[Inst.r1],
                                             fregisters[Inst.r2]))
    BY <1>12 DEF WordResult, IntCastOps, IntArithOps, LogicOps, IntCompareOps,
                 FloatCompareOps
  <2> QED BY <2>1, FlagType
<1> QED BY <1>5, <1>6, <1>7, <1>8, <1>9, <1>10, <1>11, <1>12 DEF WordOps

LEMMA ComputeWordType == TypeOK /\ ComputeWord => TypeOK'
<1> SUFFICES ASSUME TypeOK, ComputeWord PROVE TypeOK'
  OBVIOUS
<1>1. /\ Executing /\ Inst.op \in WordOps /\ Defined(Inst) /\ ~DividesByZero
  BY DEF ComputeWord, Fetch
<1>2. pc + 1 \in Size
  BY <1>1, FetchFacts
<1>3. WordResult \in Word
  BY <1>1, WordResultType
<1>4. iregisters' \in [IntReg -> Word]
  BY <1>3, PutType DEF ComputeWord, PutWord, TypeOK
<1> QED BY <1>2, <1>4 DEF TypeOK, ComputeWord, Advance, calls, stack

LEMMA ComputeFloatType == TypeOK /\ ComputeFloat => TypeOK'
<1> SUFFICES ASSUME TypeOK, ComputeFloat PROVE TypeOK'
  OBVIOUS
<1>1. /\ Executing /\ Defined(Inst)
      /\ Inst.op \in {"I_FSET"} \cup ToFloatOps \cup FloatArithOps
  BY DEF ComputeFloat, Fetch
<1>2. pc + 1 \in Size /\ Inst \in Instruction
  BY <1>1, FetchFacts
<1>3. FloatResult \in Word
  <2>1. CASE Inst.op = "I_FSET"
    <3>1. FloatResult = Inst.imm
      BY <2>1 DEF FloatResult, ToFloatOps, FloatArithOps
    <3> QED BY <1>2, <3>1 DEF Instruction
  <2>2. CASE Inst.op \in ToFloatOps
    <3>1. FloatResult = ToFloat(Word1)
      BY <2>2 DEF FloatResult, ToFloatOps, FloatArithOps
    <3>2. Word1 \in Word
      BY <1>1, <2>2 DEF TypeOK, Defined, RegistersExist, WordR1, Word1
    <3> QED BY <3>1, <3>2, FloatAssumption
  <2>3. CASE Inst.op \in FloatArithOps
    <3>1. FloatResult = FloatArith(Inst.op, fregisters[Inst.r1],
                                            fregisters[Inst.r2])
      BY <2>3 DEF FloatResult, ToFloatOps, FloatArithOps
    <3>2. fregisters[Inst.r1] \in Word /\ fregisters[Inst.r2] \in Word
      BY <1>1, <2>3 DEF TypeOK, Defined, RegistersExist, FloatR1, FloatR2
    <3> QED BY <2>3, <3>1, <3>2, FloatAssumption
  <2> QED BY <1>1, <2>1, <2>2, <2>3
<1>4. fregisters' \in [FltReg -> Word]
  BY <1>3, PutType DEF ComputeFloat, PutFloat, TypeOK
<1> QED BY <1>2, <1>4 DEF TypeOK, ComputeFloat, Advance, calls, stack

LEMMA CastFloatType == TypeOK /\ CastFloat => TypeOK'
<1> SUFFICES ASSUME TypeOK, CastFloat PROVE TypeOK'
  OBVIOUS
<1>1. /\ Executing /\ Defined(Inst) /\ Inst.op \in FromFloatOps
  BY DEF CastFloat, Fetch
<1>2. pc + 1 \in Size
  BY <1>1, FetchFacts
<1>3. fregisters[Inst.r1] \in Word
  BY <1>1 DEF TypeOK, Defined, RegistersExist, FloatR1
<1>4. PICK w \in FromFloat(Inst.op, fregisters[Inst.r1]) : PutWord(w)
  BY DEF CastFloat
<1>5. w \in Word
  BY <1>1, <1>3, <1>4, FloatAssumption
<1>6. iregisters' \in [IntReg -> Word]
  BY <1>4, <1>5, PutType DEF PutWord, TypeOK
<1> QED BY <1>2, <1>6 DEF TypeOK, CastFloat, Advance, calls, stack

\* The control instructions.
LEMMA RecordType == TypeOK /\ Record => TypeOK'
<1> SUFFICES ASSUME TypeOK, Record PROVE TypeOK'
  OBVIOUS
<1>1. Executing
  BY DEF Record, Fetch
<1>2. pc + 1 \in Size
  BY <1>1, FetchFacts
<1>3. stack_top % UINT_MOD \in Word /\ 0 \in Word /\ 0 \in Size
  BY Moduli, RemainderRange DEF TypeOK, Size, Word
<1>4. [NoFrame EXCEPT !.bfp = stack_top % UINT_MOD] \in CallFrame
  BY <1>3 DEF NoFrame, CallFrame
<1>5. frame_memory' \in [Slot -> CallFrame]
  BY <1>4 DEF Record, TypeOK
<1> QED BY <1>2, <1>5 DEF TypeOK, Record, Advance, regs, stack

LEMMA CallType == TypeOK /\ Call => TypeOK'
<1> SUFFICES ASSUME TypeOK, Call PROVE TypeOK'
  OBVIOUS
<1>1. Executing /\ Inst.op = "I_CALL" /\ Defined(Inst)
  BY DEF Call, Fetch
<1>2. pc + 2 \in Size /\ Inst \in Instruction
  BY <1>1, FetchFacts
<1>3. stack_top % UINT_MOD \in Word /\ 0 \in Word
  BY Moduli, RemainderRange DEF TypeOK, Size, Word
<1>4. [rip |-> pc + 2, bfp |-> 0, lvp |-> stack_top % UINT_MOD] \in CallFrame
  BY <1>2, <1>3 DEF CallFrame
<1>5. frame_memory' \in [Slot -> CallFrame]
  BY <1>4 DEF Call, ResumePoint, TypeOK
<1>6. frames' \in 0 .. FRAME_COUNT
  BY <1>1, MachineAssumption DEF Call, TypeOK, Defined
<1>7. pc' \in Size
  <2>1. Inst.imm \in Int
    BY <1>2, Moduli DEF Instruction, Word
  <2>2. AsInt(Inst.imm) \in Int
    BY <2>1, Moduli DEF AsInt
  <2> QED BY <2>2, Moduli, RemainderRange DEF Call, IntToSize, Size
<1> QED BY <1>5, <1>6, <1>7 DEF TypeOK, Call, regs, stack

LEMMA ReturnType == TypeOK /\ LiveFramesReturnToCalls /\ Return => TypeOK'
<1> SUFFICES ASSUME TypeOK, LiveFramesReturnToCalls, Return PROVE TypeOK'
  OBVIOUS
<1>1. Executing /\ Inst.op = "I_RET" /\ Defined(Inst) /\ frames > 0
  BY DEF Return, Fetch
<1>2. frames - 1 \in 0 .. frames - 1 /\ frames - 1 \in 0 .. FRAME_COUNT
  BY <1>1, MachineAssumption DEF TypeOK
<1>3. frame_memory[frames - 1].rip - 1 \in 1 .. Len(program)
  BY <1>2 DEF LiveFramesReturnToCalls
<1>4. pc' \in Size
  BY <1>3, Moduli DEF Return, TypeOK, Loadable, Size
<1>5. accum_register' \in Word
  BY <1>1 DEF Return, TypeOK, Defined, RegistersExist, WordR0
<1>6. NoFrame \in CallFrame
  BY Moduli DEF NoFrame, CallFrame, Size, Word
<1>7. frame_memory' \in [Slot -> CallFrame]
  BY <1>6 DEF Return, FramesAfterReturn, TypeOK
<1> QED BY <1>2, <1>4, <1>5, <1>7 DEF TypeOK, Return, stack

LEMMA JumpType == TypeOK /\ Jump => TypeOK'
<1> SUFFICES ASSUME TypeOK, Jump PROVE TypeOK'
  OBVIOUS
<1>1. /\ Executing /\ Inst.op \in DirectJumpOps \cup RegJumpOps
      /\ Defined(Inst)
  BY DEF Jump, Fetch
<1>2. pc + 1 \in Size /\ Inst \in Instruction
  BY <1>1, FetchFacts
<1>3. Word \subseteq Size
  BY Moduli DEF Word, Size
<1>4. ASSUME Taken(Inst), Inst.op \notin DirectJumpOps
      PROVE  iregisters[Inst.r0] \in Word
  BY <1>1, <1>4
     DEF TypeOK, Defined, RegistersExist, WordR0, DirectJumpOps, RegJumpOps
<1>5. pc' \in Size
  BY <1>2, <1>3, <1>4 DEF Jump, Instruction
<1> QED BY <1>5 DEF TypeOK, Jump, regs, calls, stack

LEMMA StopType ==
  TypeOK /\ (Idle \/ RootReturn \/ Halt \/ Abort \/ Fault \/ Finished) => TypeOK'
<1> SUFFICES ASSUME TypeOK,
                    Idle \/ RootReturn \/ Halt \/ Abort \/ Fault \/ Finished
             PROVE  TypeOK'
  OBVIOUS
<1>1. Executing => pc + 1 \in Size
  BY FetchFacts
<1>2. CASE Idle
  BY <1>1, <1>2 DEF TypeOK, Idle, Fetch, Advance, regs, calls, stack
<1>3. CASE RootReturn
  <2>1. Executing /\ Inst.op = "I_RET" /\ Defined(Inst)
    BY <1>3 DEF RootReturn, Fetch
  <2>2. accum_register' \in Word
    BY <1>3, <2>1 DEF RootReturn, TypeOK, Defined, RegistersExist, WordR0
  <2> QED BY <1>1, <1>3, <2>1, <2>2
          DEF TypeOK, RootReturn, Advance, calls, stack, Status
<1>4. CASE Halt
  BY <1>1, <1>4 DEF TypeOK, Halt, Fetch, Advance, regs, calls, stack, Status
<1>5. CASE Abort
  BY <1>1, <1>5 DEF TypeOK, Abort, Fetch, Advance, regs, calls, stack, Status
<1>6. CASE Fault
  BY <1>6 DEF TypeOK, Fault, regs, calls, stack, Status
<1>7. CASE Finished
  BY <1>7 DEF TypeOK, Finished, vars, regs, calls, stack
<1> QED BY <1>2, <1>3, <1>4, <1>5, <1>6, <1>7

-----------------------------------------------------------------------------
(***************************************************************************)
(* The frames, action by action.                                           *)
(***************************************************************************)
Frames == LiveFramesReturnToCalls /\ FreeFramesHoldNoReturn

\* The steps that leave the frames alone.
LEMMA FramesUnchanged ==
  ASSUME Frames, UNCHANGED <<program, calls>>
  PROVE  Frames'
  BY DEF Frames, LiveFramesReturnToCalls, FreeFramesHoldNoReturn, calls

\* A record goes to a free frame and leaves its return address zero.
LEMMA RecordFrames ==
  ASSUME TypeOK, Frames, Record
  PROVE  Frames'
<1>1. frames \in 0 .. FRAME_COUNT /\ frames' = frames /\ program' = program
  BY DEF TypeOK, Record
<1>2. \A s \in Slot : frame_memory'[s].rip =
                        IF s = frames THEN 0 ELSE frame_memory[s].rip
  BY DEF Record, RecordSlot, TypeOK, NoFrame
<1>3. LiveFramesReturnToCalls'
  <2> SUFFICES ASSUME NEW s \in 0 .. frames - 1
               PROVE  /\ frame_memory'[s].rip - 1 \in 1 .. Len(program)
                      /\ program[frame_memory'[s].rip - 1].op = "I_CALL"
    BY <1>1 DEF LiveFramesReturnToCalls
  <2>1. s \in Slot /\ s # frames
    BY <1>1, MachineAssumption DEF Slot
  <2> QED BY <1>2, <2>1 DEF Frames, LiveFramesReturnToCalls
<1>4. FreeFramesHoldNoReturn'
  <2> SUFFICES ASSUME NEW s \in frames .. FRAME_COUNT - 1
               PROVE  frame_memory'[s].rip = 0
    BY <1>1 DEF FreeFramesHoldNoReturn
  <2>1. s \in Slot
    BY <1>1, MachineAssumption DEF Slot
  <2> QED BY <1>2, <2>1 DEF Frames, FreeFramesHoldNoReturn
<1> QED BY <1>3, <1>4 DEF Frames

\* The frame of a call holds the resume point of that call.
LEMMA CallFrames ==
  ASSUME TypeOK, Frames, Call
  PROVE  Frames'
<1>1. Executing /\ Inst.op = "I_CALL" /\ Defined(Inst)
  BY DEF Call, Fetch
<1>2. pc + 1 \in 1 .. Len(program) /\ pc \in Nat
  BY <1>1, FetchFacts
<1>3. /\ frames \in 0 .. FRAME_COUNT - 1 /\ frames \in Slot
      /\ frames' = frames + 1 /\ program' = program
  BY <1>1, MachineAssumption DEF TypeOK, Call, Defined, Slot
<1>4. \A s \in Slot : frame_memory'[s].rip =
                        IF s = frames THEN pc + 2 ELSE frame_memory[s].rip
  BY DEF Call, ResumePoint, TypeOK
<1>5. LiveFramesReturnToCalls'
  <2> SUFFICES ASSUME NEW s \in 0 .. frames
               PROVE  /\ frame_memory'[s].rip - 1 \in 1 .. Len(program)
                      /\ program[frame_memory'[s].rip - 1].op = "I_CALL"
    BY <1>3 DEF LiveFramesReturnToCalls
  <2>1. s \in Slot
    BY <1>3, MachineAssumption DEF Slot
  <2>2. CASE s = frames
    <3>1. frame_memory'[s].rip - 1 = pc + 1
      BY <1>2, <1>4, <2>1, <2>2
    <3> QED BY <1>1, <1>2, <3>1 DEF Inst
  <2>3. CASE s # frames
    <3>1. s \in 0 .. frames - 1
      BY <1>3, <2>3
    <3> QED BY <1>4, <2>1, <2>3, <3>1 DEF Frames, LiveFramesReturnToCalls
  <2> QED BY <2>2, <2>3
<1>6. FreeFramesHoldNoReturn'
  <2> SUFFICES ASSUME NEW s \in frames + 1 .. FRAME_COUNT - 1
               PROVE  frame_memory'[s].rip = 0
    BY <1>3 DEF FreeFramesHoldNoReturn
  <2>1. s \in Slot /\ s # frames /\ s \in frames .. FRAME_COUNT - 1
    BY <1>3, MachineAssumption DEF Slot
  <2> QED BY <1>4, <2>1 DEF Frames, FreeFramesHoldNoReturn
<1> QED BY <1>5, <1>6 DEF Frames

\* A return clears the frame it leaves and no other.
LEMMA ReturnFrames ==
  ASSUME TypeOK, Frames, Return
  PROVE  Frames'
<1>1. /\ frames \in 1 .. FRAME_COUNT
      /\ frames' = frames - 1 /\ program' = program
  BY MachineAssumption DEF TypeOK, Return
<1>2. \A s \in Slot : frame_memory'[s].rip =
                        IF s = frames - 1 THEN 0 ELSE frame_memory[s].rip
  BY DEF Return, FramesAfterReturn, TypeOK, NoFrame
<1>3. LiveFramesReturnToCalls'
  <2> SUFFICES ASSUME NEW s \in 0 .. frames - 1 - 1
               PROVE  /\ frame_memory'[s].rip - 1 \in 1 .. Len(program)
                      /\ program[frame_memory'[s].rip - 1].op = "I_CALL"
    BY <1>1 DEF LiveFramesReturnToCalls
  <2>1. s \in Slot /\ s # frames - 1 /\ s \in 0 .. frames - 1
    BY <1>1, MachineAssumption DEF Slot
  <2> QED BY <1>2, <2>1 DEF Frames, LiveFramesReturnToCalls
<1>4. FreeFramesHoldNoReturn'
  <2> SUFFICES ASSUME NEW s \in frames - 1 .. FRAME_COUNT - 1
               PROVE  frame_memory'[s].rip = 0
    BY <1>1 DEF FreeFramesHoldNoReturn
  <2>1. s \in Slot /\ (s = frames - 1 \/ s \in frames .. FRAME_COUNT - 1)
    BY <1>1, MachineAssumption DEF Slot
  <2> QED BY <1>2, <2>1 DEF Frames, FreeFramesHoldNoReturn
<1> QED BY <1>3, <1>4 DEF Frames

-----------------------------------------------------------------------------
\* No step of the machine, and no stuttering, leaves the invariant.
THEOREM NextIInv == IInv /\ [Next]_vars => IInv'
<1> SUFFICES ASSUME IInv, [Next]_vars PROVE IInv'
  OBVIOUS
<1>1. TypeOK /\ Frames
  BY DEF IInv, Frames
<1>2. CASE Push
  BY <1>1, <1>2, PushType, FramesUnchanged DEF IInv, Frames, Push
<1>3. CASE Pop
  BY <1>1, <1>3, PopType, FramesUnchanged DEF IInv, Frames, Pop
<1>4. CASE Load \/ LoadFloat
  BY <1>1, <1>4, LoadType, FramesUnchanged DEF IInv, Frames, Load, LoadFloat
<1>5. CASE Save
  BY <1>1, <1>5, SaveType, FramesUnchanged DEF IInv, Frames, Save, calls
<1>6. CASE Write
  BY <1>1, <1>6, WriteType, FramesUnchanged DEF IInv, Frames, Write
<1>7. CASE ComputeWord
  BY <1>1, <1>7, ComputeWordType, FramesUnchanged DEF IInv, Frames, ComputeWord
<1>8. CASE ComputeFloat
  BY <1>1, <1>8, ComputeFloatType, FramesUnchanged DEF IInv, Frames, ComputeFloat
<1>9. CASE CastFloat
  BY <1>1, <1>9, CastFloatType, FramesUnchanged DEF IInv, Frames, CastFloat
<1>10. CASE Record
  BY <1>1, <1>10, RecordType, RecordFrames DEF IInv, Frames
<1>11. CASE Call
  BY <1>1, <1>11, CallType, CallFrames DEF IInv, Frames
<1>12. CASE Return
  BY <1>1, <1>12, ReturnType, ReturnFrames DEF IInv, Frames
<1>13. CASE Jump
  BY <1>1, <1>13, JumpType, FramesUnchanged DEF IInv, Frames, Jump
<1>14. CASE Idle \/ RootReturn \/ Halt \/ Abort \/ Fault \/ Finished
  <2>1. UNCHANGED <<program, calls>>
    BY <1>14 DEF Idle, RootReturn, Halt, Abort, Fault, Finished, vars
  <2> QED BY <1>1, <1>14, <2>1, StopType, FramesUnchanged DEF IInv, Frames
<1>15. CASE UNCHANGED vars
  <2>1. TypeOK'
    BY <1>1, <1>15 DEF TypeOK, vars, regs, calls, stack
  <2>2. UNCHANGED <<program, calls>>
    BY <1>15 DEF vars
  <2> QED BY <1>1, <2>1, <2>2, FramesUnchanged DEF IInv, Frames
<1> QED
  BY <1>2, <1>3, <1>4, <1>5, <1>6, <1>7, <1>8, <1>9, <1>10, <1>11, <1>12, <1>13,
     <1>14, <1>15 DEF Next, Step

THEOREM InductiveInvariant == Spec => []IInv
  BY InitIInv, NextIInv, PTL DEF Spec

\* Whatever program is loaded and whatever it does, as long as the execution
\* stays within what C defines, every variable keeps to its type: the counters
\* to a size_t, the registers to a word, the frames to their array.
THEOREM TypeCorrect == Spec => []TypeOK
<1>1. IInv => TypeOK
  BY DEF IInv
<1> QED BY <1>1, InductiveInvariant, PTL

\* Every frame in use resumes a call instruction of the program, and no free
\* frame can be returned through.
THEOREM FramesCorrect ==
  Spec => [](LiveFramesReturnToCalls /\ FreeFramesHoldNoReturn)
<1>1. IInv => LiveFramesReturnToCalls /\ FreeFramesHoldNoReturn
  BY DEF IInv
<1> QED BY <1>1, InductiveInvariant, PTL

\* In particular no slot beyond the frames in use keeps an address that a return
\* without a frame could take (I_RET).
THEOREM FreeFramesCorrect == Spec => []FreeFramesHoldNoReturn
<1>1. IInv => FreeFramesHoldNoReturn
  BY DEF IInv
<1> QED BY <1>1, InductiveInvariant, PTL

-----------------------------------------------------------------------------
(***************************************************************************)
(* The alignment of the stack's top.                                       *)
(***************************************************************************)

\* Sizes wrap at a multiple of four, as a byte has an even number of values.
LEMMA Quadruples == \E m \in Nat : SIZE_MOD = 4 * m
<1>1. PICK k \in Nat : Radix = 2 * k
  BY MachineAssumption
<1>2. Radix * Radix = 4 * (k * k)
  BY <1>1
<1> DEFINE n == (k * k) * (Radix * Radix)
<1>3. n \in Nat
  BY <1>1, MachineAssumption
<1>4. UINT_MOD = 4 * n
  <2>1. UINT_MOD = (Radix * Radix) * (Radix * Radix)
    BY MachineAssumption DEF UINT_MOD
  <2>2. (4 * (k * k)) * (Radix * Radix) = 4 * ((k * k) * (Radix * Radix))
    BY <1>1, MachineAssumption
  <2> QED BY <1>2, <2>1, <2>2
<1> HIDE DEF n
<1>5. UINT_MOD * UINT_MOD = 4 * (n * (4 * n))
  BY <1>3, <1>4
<1>6. n * (4 * n) \in Nat
  BY <1>3
<1> QED BY <1>5, <1>6 DEF SIZE_MOD

\* A number divisible by four stays so when it wraps at a multiple of four.
LEMMA AlignedRemainder ==
  ASSUME NEW x \in Int, NEW m \in Nat, 4 * m > 0, x % 4 = 0
  PROVE  (x % (4 * m)) % 4 = 0
<1>1. PICK q \in Int : x = (4 * m) * q + (x % (4 * m))
  <2>1. x = (4 * m) * (x \div (4 * m)) + (x % (4 * m))
    OBVIOUS
  <2>2. x \div (4 * m) \in Int
    OBVIOUS
  <2> QED BY <2>1, <2>2
<1>2. (4 * m) * q = 4 * (m * q)
  OBVIOUS
<1>3. x % (4 * m) \in Int /\ m * q \in Int
  OBVIOUS
<1> QED BY <1>1, <1>2, <1>3

\* Only push and pop move the top.
LEMMA AlignedStep == TypeOK /\ TopAligned /\ [Next]_vars => TopAligned'
<1> SUFFICES ASSUME TypeOK, TopAligned, [Next]_vars PROVE TopAligned'
  OBVIOUS
<1>1. PICK m \in Nat : SIZE_MOD = 4 * m
  BY Quadruples
<1>2. 4 * m > 0
  BY <1>1, Moduli
<1>3. stack_top \in Nat /\ stack_top % 4 = 0
  BY <1>1 DEF TypeOK, Size, TopAligned, WORD_BYTES
<1>4. CASE Push
  <2>1. stack_top' = (stack_top + 4) % (4 * m)
    BY <1>1, <1>4 DEF Push, Fetch, WordAddress, WORD_BYTES
  <2>2. stack_top + 4 \in Int /\ (stack_top + 4) % 4 = 0
    BY <1>3
  <2>3. stack_top' % 4 = 0
    BY <1>2, <2>1, <2>2, AlignedRemainder
  <2> QED BY <2>3 DEF TopAligned, WORD_BYTES
<1>5. CASE Pop
  <2>1. stack_top' = (stack_top - 4) % (4 * m)
    BY <1>1, <1>5 DEF Pop, TopAfterPop, WORD_BYTES
  <2>2. stack_top - 4 \in Int /\ (stack_top - 4) % 4 = 0
    BY <1>3
  <2>3. stack_top' % 4 = 0
    BY <1>2, <2>1, <2>2, AlignedRemainder
  <2> QED BY <2>3 DEF TopAligned, WORD_BYTES
<1>6. CASE ~Push /\ ~Pop
  <2>1. UNCHANGED stack_top
    BY <1>6 DEF Next, Step, vars, Load, LoadFloat, Save, Write, ComputeWord,
      ComputeFloat, CastFloat, Idle, Record, Call, Return, RootReturn, Halt, Jump,
      Abort, Fault, Finished, stack
  <2> QED BY <2>1 DEF TopAligned
<1> QED BY <1>4, <1>5, <1>6

\* push and pop see whole words only, on a stack of any size and also after the
\* top has wrapped below zero: it stays a multiple of four.
THEOREM AlignmentCorrect == Spec => []TopAligned
<1>1. Init => TopAligned
  BY DEF Init, InitMachine, TopAligned, WORD_BYTES
<1> QED BY <1>1, AlignedStep, TypeCorrect, PTL DEF Spec

-----------------------------------------------------------------------------
(***************************************************************************)
(* The frames of a program that goes forward: each open call is above the  *)
(* program counter and below the calls it was made from, so that no call   *)
(* is open twice.                                                          *)
(***************************************************************************)
OpenFrame == 0 .. frames - 1

CallsNest ==
  GoesForward(program) =>
    /\ \A s \in OpenFrame : frame_memory[s].rip - 1 <= pc
    /\ \A s, t \in OpenFrame : s < t => frame_memory[s].rip < frame_memory[t].rip

\* A call or a record that is undefined has found no free frame.
FaultInv ==
  status = "undefined" /\ Inst.op \in {"I_CALL", "I_REC"} => ~ (frames < FRAME_COUNT)

\* The counter goes forward as long as nothing is returned from.
LEMMA ForwardJump ==
  ASSUME TypeOK, GoesForward(program), Jump
  PROVE  pc' \in Int /\ pc <= pc'
<1>1. /\ pc \in Nat /\ pc + 1 \in DOMAIN program /\ Inst \in Instruction
      /\ Inst = program[pc + 1]
  BY FetchFacts DEF Jump, Fetch, TypeOK, Loadable, Inst
<1>2. CASE ~Taken(Inst)
  BY <1>1, <1>2 DEF Jump
<1>3. CASE Taken(Inst)
  <2>1. Inst.op \in DirectJumpOps
    BY <1>1 DEF Jump, Fetch, GoesForward
  <2>2. pc' = Inst.imm /\ Inst.imm >= pc + 1
    BY <1>1, <1>3, <2>1 DEF Jump, GoesForward
  <2>3. Inst.imm \in Int
    BY <1>1, Moduli DEF Instruction, Word
  <2> QED BY <1>1, <2>2, <2>3
<1> QED BY <1>2, <1>3

LEMMA CallsNestStep == IInv /\ CallsNest /\ [Next]_vars => CallsNest'
<1> SUFFICES ASSUME IInv, CallsNest, [Next]_vars, GoesForward(program), program' = program
             PROVE  CallsNest'
  BY NextIInv DEF Next, Step, vars, Push, Pop, Load, LoadFloat, Save, Write, ComputeWord,
     ComputeFloat, CastFloat, Idle, Record, Call, Return, RootReturn, Halt, Jump, Abort,
     Fault, Finished, CallsNest
<1>1. /\ TypeOK /\ frames \in Nat /\ frames <= FRAME_COUNT /\ pc \in Nat
      /\ FRAME_COUNT \in Nat /\ frame_memory \in [Slot -> CallFrame]
  BY MachineAssumption, Moduli DEF IInv, TypeOK, Size
<1>2. /\ \A s \in OpenFrame : frame_memory[s].rip - 1 <= pc
      /\ \A s, t \in OpenFrame : s < t => frame_memory[s].rip < frame_memory[t].rip
  BY DEF CallsNest
<1>3. /\ OpenFrame \subseteq Slot
      /\ \A s \in Slot : frame_memory[s].rip \in Nat
  BY <1>1, Moduli DEF OpenFrame, Slot, CallFrame, Size
<1>4. ASSUME UNCHANGED calls, pc' \in Int, pc <= pc'
      PROVE  CallsNest'
  <2>1. OpenFrame' = OpenFrame /\ frame_memory' = frame_memory
    BY <1>4 DEF OpenFrame, calls
  <2>2. \A s \in OpenFrame : frame_memory[s].rip - 1 <= pc'
    BY <1>1, <1>2, <1>3, <1>4
  <2> QED BY <1>2, <2>1, <2>2 DEF CallsNest
<1>5. CASE Push \/ Pop \/ Load \/ LoadFloat \/ Save \/ Write \/ ComputeWord \/ ComputeFloat
           \/ CastFloat \/ Idle \/ RootReturn \/ Halt \/ Abort
  <2>1. UNCHANGED calls /\ pc' = pc + 1
    BY <1>5 DEF Push, Pop, Load, LoadFloat, Save, Write, ComputeWord, ComputeFloat,
       CastFloat, Idle, RootReturn, Halt, Abort, Advance
  <2> QED BY <1>1, <1>4, <2>1
<1>6. CASE Fault \/ Finished \/ UNCHANGED vars
  BY <1>1, <1>4, <1>6 DEF Fault, Finished, vars
<1>7. CASE Jump
  BY <1>1, <1>4, <1>7, ForwardJump DEF Jump
<1>8. CASE Record
  <2>1. frames' = frames /\ pc' = pc + 1 /\ OpenFrame' = OpenFrame
    BY <1>8 DEF Record, Advance, OpenFrame
  <2>2. \A s \in OpenFrame : frame_memory'[s] = frame_memory[s]
    BY <1>1, <1>3, <1>8 DEF Record, RecordSlot, OpenFrame
  <2>3. \A s \in OpenFrame : frame_memory[s].rip - 1 <= pc'
    BY <1>1, <1>2, <1>3, <2>1
  <2> QED BY <1>2, <2>1, <2>2, <2>3 DEF CallsNest
<1>9. CASE Call
  <2>1. Inst.op = "I_CALL" /\ pc + 1 \in DOMAIN program /\ Inst \in Instruction
    BY <1>1, <1>9, FetchFacts DEF Call, Fetch, TypeOK, Loadable
  <2>2. /\ frames' = frames + 1 /\ frames \in Slot
        /\ frame_memory' = [frame_memory EXCEPT ![frames] =
                              [rip |-> pc + 2, bfp |-> 0, lvp |-> stack_top % UINT_MOD]]
        /\ pc' = IntToSize(AsInt(Inst.imm))
    BY <1>1, <1>9 DEF Call, ResumePoint, Fetch, Defined, Slot
  <2>3. pc' \in Int
    BY <1>9, NextIInv, Moduli DEF IInv, TypeOK, Size
  <2>4. pc' >= pc + 1
    BY <2>1, <2>2 DEF GoesForward, Inst
  <2>5. /\ OpenFrame' = OpenFrame \cup {frames} /\ frames \notin OpenFrame
        /\ \A s \in OpenFrame : s < frames
    BY <1>1, <2>2 DEF OpenFrame
  <2>6. /\ frame_memory'[frames].rip = pc + 2
        /\ \A s \in OpenFrame : frame_memory'[s] = frame_memory[s]
    BY <1>1, <1>3, <2>2, <2>5
  <2>7. \A s \in OpenFrame' : frame_memory'[s].rip - 1 <= pc'
    BY <1>1, <1>2, <1>3, <2>3, <2>4, <2>5, <2>6
  <2>8. \A s, t \in OpenFrame' : s < t => frame_memory'[s].rip < frame_memory'[t].rip
    <3> SUFFICES ASSUME NEW s \in OpenFrame', NEW t \in OpenFrame', s < t
                 PROVE  frame_memory'[s].rip < frame_memory'[t].rip
      OBVIOUS
    <3>1. s \in OpenFrame
      BY <1>1, <2>5 DEF OpenFrame
    <3>2. CASE t \in OpenFrame
      BY <1>2, <2>6, <3>1, <3>2
    <3>3. CASE t = frames
      BY <1>1, <1>2, <1>3, <2>6, <3>1, <3>3
    <3> QED BY <2>5, <3>2, <3>3
  <2> QED BY <2>7, <2>8 DEF CallsNest
<1>10. CASE Return
  <2> DEFINE last == frames - 1
  <2>1. /\ frames' = last /\ last \in OpenFrame /\ last \in Slot
        /\ pc' = frame_memory[last].rip - 1
        /\ frame_memory' = [frame_memory EXCEPT ![last] = NoFrame]
    BY <1>1, <1>10 DEF Return, FramesAfterReturn, OpenFrame, Slot
  <2>2. \A s \in OpenFrame' : s \in OpenFrame /\ s < last
    BY <1>1, <2>1 DEF OpenFrame
  <2>3. \A s \in OpenFrame' : frame_memory'[s] = frame_memory[s]
    BY <1>1, <1>3, <2>1, <2>2
  <2>4. \A s \in OpenFrame' : frame_memory[s].rip < frame_memory[last].rip
    BY <1>2, <2>1, <2>2
  <2>5. \A s \in OpenFrame' : frame_memory'[s].rip - 1 <= pc'
    BY <1>3, <2>1, <2>2, <2>3, <2>4
  <2>6. \A s, t \in OpenFrame' : s < t => frame_memory'[s].rip < frame_memory'[t].rip
    BY <1>2, <2>2, <2>3
  <2> QED BY <2>5, <2>6 DEF CallsNest
<1> QED BY <1>5, <1>6, <1>7, <1>8, <1>9, <1>10 DEF Next, Step

\* A call or a record is undefined for want of a frame only.
LEMMA FaultOfCall ==
  ASSUME Inst.op \in {"I_CALL", "I_REC"}, ~Defined(Inst)
  PROVE  ~ (frames < FRAME_COUNT)
<1>1. RegistersExist(Inst)
  BY DEF RegistersExist, WordR0, WordR1, WordR2, FloatR0, FloatR1, FloatR2, IntStepOps,
     IntArithOps, LogicOps, IntCompareOps, FloatCompareOps, IntCastOps, FromFloatOps,
     ToFloatOps, FloatArithOps
<1>2. Inst.op \notin MemoryOps
  BY DEF MemoryOps
<1> QED BY <1>1, <1>2 DEF Defined

LEMMA FaultStep == FaultInv /\ [Next]_vars => FaultInv'
<1> SUFFICES ASSUME FaultInv, [Next]_vars, status' = "undefined" PROVE FaultInv'
  BY DEF FaultInv
<1>1. CASE Fault
  <2>1. UNCHANGED <<program, pc, frames>> /\ ~Defined(Inst)
    BY <1>1 DEF Fault, calls
  <2>2. Inst' = Inst
    BY <2>1 DEF Inst
  <2> QED BY <2>1, <2>2, FaultOfCall DEF FaultInv
<1>2. CASE Finished \/ UNCHANGED vars
  <2>1. UNCHANGED <<program, pc, status, frames>>
    BY <1>2 DEF Finished, vars, calls
  <2>2. Inst' = Inst
    BY <2>1 DEF Inst
  <2> QED BY <2>1, <2>2 DEF FaultInv
<1>3. CASE Step /\ ~Fault
  <2>1. status = "running" /\ status' # "undefined"
    BY <1>3 DEF Step, Push, Pop, Load, LoadFloat, Save, Write, ComputeWord, ComputeFloat,
       CastFloat, Idle, Record, Call, Return, RootReturn, Halt, Jump, Abort, Fetch, Executing
  <2> QED BY <2>1
<1> QED BY <1>1, <1>2, <1>3 DEF Next

\* Whatever the size of the array, a program whose jumps and calls all go forward
\* exceeds it only below as many calls as the array has frames: a program of fewer
\* calls than frames never does, however often it returns (I_CALL, I_REC).
THEOREM ForwardCallsCorrect == Spec => []ForwardCallsFit
<1>1. Init => CallsNest /\ FaultInv
  BY MachineAssumption DEF Init, InitMachine, CallsNest, OpenFrame, FaultInv
<1>2. IInv /\ CallsNest /\ FaultInv => ForwardCallsFit
  <2> SUFFICES ASSUME IInv, CallsNest, FaultInv, status = "undefined", GoesForward(program),
                      Inst.op \in {"I_CALL", "I_REC"}
               PROVE  Cardinality({k \in DOMAIN program :
                                     k <= pc /\ program[k].op = "I_CALL"}) >= FRAME_COUNT
    BY DEF ForwardCallsFit
  <2> DEFINE above == {k \in DOMAIN program : k <= pc /\ program[k].op = "I_CALL"}
             call  == [s \in Slot |-> frame_memory[s].rip - 1]
  <2>1. /\ FRAME_COUNT \in Nat /\ frames = FRAME_COUNT /\ OpenFrame = Slot
        /\ pc \in Nat /\ Len(program) \in Nat /\ DOMAIN program = 1 .. Len(program)
    BY MachineAssumption, Moduli
       DEF FaultInv, IInv, TypeOK, OpenFrame, Slot, Size, Loadable
  <2>2. /\ \A s \in Slot : frame_memory[s].rip \in Nat
        /\ \A s \in Slot : call[s] \in above
    BY <2>1, Moduli DEF IInv, TypeOK, LiveFramesReturnToCalls, CallsNest, OpenFrame, Slot,
       CallFrame, Size
  <2>3. \A s, t \in Slot : s # t => call[s] # call[t]
    <3> SUFFICES ASSUME NEW s \in Slot, NEW t \in Slot, s # t PROVE call[s] # call[t]
      OBVIOUS
    <3>1. s \in Int /\ t \in Int /\ (s < t \/ t < s)
      BY <2>1 DEF Slot
    <3>2. frame_memory[s].rip # frame_memory[t].rip
      BY <2>1, <2>2, <3>1 DEF CallsNest
    <3> QED BY <2>2, <3>2
  <2>4. IsFiniteSet(above) /\ Cardinality(above) \in Nat
    <3>1. IsFiniteSet(1 .. Len(program)) /\ above \subseteq 1 .. Len(program)
      BY <2>1, FS_Interval
    <3> HIDE DEF above
    <3> QED BY <3>1, FS_Subset, FS_CardinalityType
  <2>5. IsFiniteSet(Slot) /\ Cardinality(Slot) = FRAME_COUNT
    BY <2>1, MachineAssumption, FS_Interval DEF Slot
  <2>6. call \in [Slot -> above]
    BY <2>2
  <2> HIDE DEF above, call
  <2>7. ~ (Cardinality(above) < Cardinality(Slot))
    BY <2>3, <2>4, <2>5, <2>6, FS_PigeonHole
  <2> QED BY <2>1, <2>4, <2>5, <2>7 DEF above
<1>3. IInv /\ CallsNest /\ FaultInv /\ [Next]_vars => (CallsNest /\ FaultInv)'
  BY CallsNestStep, FaultStep
<1> QED BY <1>1, <1>2, <1>3, InductiveInvariant, PTL DEF Spec

=============================================================================
