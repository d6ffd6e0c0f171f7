-------------------------- MODULE WordProgramsProofs --------------------------
(***************************************************************************)
(* Proofs that the straight programs of WordPrograms return what they are  *)
(* to, on words of any size.                                               *)
(***************************************************************************)
EXTENDS WordPrograms, SetMachineProofs

-----------------------------------------------------------------------------
(***************************************************************************)
(* Arithmetic modulo the size of a word.                                   *)
(***************************************************************************)

\* A sum of two words wraps once at most, ...
LEMMA WrapOnce ==
  ASSUME NEW m \in Nat, m > 0, NEW n \in 0 .. 2 * m - 1
  PROVE  n % m = IF n < m THEN n ELSE n - m
  OBVIOUS

\* ... and so does a difference.
LEMMA BorrowOnce ==
  ASSUME NEW m \in Nat, m > 0, NEW n \in Int, 0 - m <= n, n < m
  PROVE  n % m = IF n >= 0 THEN n ELSE n + m
  OBVIOUS

\* What a division leaves.
LEMMA DivisionLeaves ==
  ASSUME NEW a \in Nat, NEW b \in Nat, b > 0
  PROVE  /\ (a \div b) * b \in 0 .. a
         /\ a - (a \div b) * b < b
  OBVIOUS

-----------------------------------------------------------------------------
(***************************************************************************)
(* What the instructions of these programs do.                             *)
(***************************************************************************)

\* What these programs depend on.
watched ==
  <<program, pc, status, frames, iregisters, fregisters, accum_register, STACK>>

\* The integer instructions that a straight program computes with.
Computing == {"I_SET"} \cup IntStepOps \cup IntArithOps \cup IntCompareOps

\* An instruction that names registers which every machine has.
Computes(i) == i.op \in Computing /\ {i.r0, i.r1, i.r2} \subseteq 0 .. 2

\* The word that instruction i computes from the registers in file.
Computed(i, file) ==
  CASE i.op = "I_SET"          -> i.imm
    [] i.op = "I_INC"          -> (file[i.r0] + 1) % UINT_MOD
    [] i.op = "I_DEC"          -> (file[i.r0] - 1) % UINT_MOD
    [] i.op \in IntArithOps    -> IntResult(i.op, file[i.r1], file[i.r2])
    [] i.op \in IntCompareOps  -> AsFlag(IntCompare(i.op, file[i.r1], file[i.r2]))

\* Such an instruction is defined.
LEMMA ComputesDefined ==
  ASSUME NEW i, Computes(i), Inst = i
  PROVE  Defined(Inst)
<1>1. i.r0 \in IntReg /\ i.r1 \in IntReg /\ i.r2 \in IntReg
  BY MachineAssumption DEF Computes, IntReg
<1>2. i.op \in Computing
  BY DEF Computes
<1>3. /\ i.op \notin MemoryOps /\ i.op \notin {"I_REC", "I_CALL", "I_PRINT"}
      /\ i.op \notin FloatR0 /\ i.op \notin FloatR1 /\ i.op \notin FloatR2
      /\ i.op \notin {"I_AND", "I_OR", "I_ERJMP", "I_NERJMP", "I_REG_DUMP"}
  BY <1>2 DEF Computing, IntStepOps, IntArithOps, IntCompareOps, MemoryOps, FloatR0,
              FloatR1, FloatR2, ToFloatOps, FromFloatOps, FloatArithOps, FloatCompareOps
<1> QED BY <1>1, <1>3 DEF Defined, RegistersExist

\* What the machine computes for it.
LEMMA ComputesResult ==
  ASSUME NEW i, Computes(i), Inst = i
  PROVE  WordResult = Computed(i, iregisters)
<1>1. i.op \in Computing
  BY DEF Computes
<1> QED BY <1>1 DEF WordResult, Computed, Word1, Word2, Computing, IntStepOps, IntArithOps,
                    IntCompareOps, IntCastOps, LogicOps, FloatCompareOps

\* The machine executes such an instruction, or does nothing.
LEMMA ComputeNext ==
  ASSUME TypeOK, Executing, [Next]_vars, NEW i, Computes(i), Inst = i, ~DividesByZero
  PROVE  \/ UNCHANGED watched
         \/ /\ iregisters' = [iregisters EXCEPT ![i.r0] = Computed(i, iregisters)]
            /\ pc' = pc + 1
            /\ UNCHANGED <<program, status, frames, accum_register, fregisters, STACK>>
<1>1. i.op \in Computing
  BY DEF Computes
<1>2. Defined(Inst)
  BY ComputesDefined
<1>3. ~(\/ Push \/ Pop \/ Load \/ LoadFloat \/ Save \/ Write \/ ComputeFloat \/ CastFloat
        \/ Idle \/ Record \/ Call \/ Return \/ RootReturn \/ Halt \/ Jump)
  BY <1>1 DEF Push, Pop, Load, LoadFloat, Save, Write, ComputeFloat, CastFloat, Idle,
              Record, Call, Return, RootReturn, Halt, Jump, Fetch, Computing, IntStepOps,
              IntArithOps, IntCompareOps, ToFloatOps, FloatArithOps, FromFloatOps, IdleOps,
              DirectJumpOps, RegJumpOps
<1>4. ~Abort
  BY <1>1 DEF Abort, Fetch, Computing, IntStepOps, IntArithOps, IntCompareOps
<1>5. ~Fault /\ ~(Finished /\ ~UNCHANGED vars)
  BY <1>2 DEF Fault, Finished
<1>6. ComputeWord \/ UNCHANGED vars
  BY <1>3, <1>4, <1>5 DEF Next, Step
<1>7. CASE ComputeWord
  BY <1>7, ComputesResult DEF ComputeWord, PutWord, Advance, calls, stack
<1>8. CASE UNCHANGED vars
  BY <1>8 DEF vars, regs, calls, stack, watched
<1> QED BY <1>6, <1>7, <1>8

\* It executes a return outside of a call, or does nothing.
LEMMA ReturnNext ==
  ASSUME TypeOK, Executing, [Next]_vars, Inst.op = "I_RET", Inst.r0 \in 0 .. 2, frames = 0
  PROVE  \/ UNCHANGED watched
         \/ /\ accum_register' = iregisters[Inst.r0]
            /\ status' = "halted"
            /\ UNCHANGED program
<1>1. Inst.r0 \in IntReg
  BY MachineAssumption DEF IntReg
<1>2. Defined(Inst)
  BY <1>1 DEF Defined, RegistersExist, WordR1, WordR2, FloatR0, FloatR1, FloatR2, MemoryOps,
              IntArithOps, LogicOps, IntCompareOps, IntCastOps, ToFloatOps, FromFloatOps,
              FloatArithOps, FloatCompareOps
<1>3. ~(\/ Push \/ Pop \/ Load \/ LoadFloat \/ Save \/ Write \/ ComputeWord \/ ComputeFloat
        \/ CastFloat \/ Idle \/ Record \/ Call \/ Return \/ Halt \/ Jump \/ Abort)
  BY DEF Push, Pop, Load, LoadFloat, Save, Write, ComputeWord, ComputeFloat, CastFloat, Idle,
         Record, Call, Return, Halt, Jump, Abort, Fetch, WordOps, IntStepOps, IntCastOps,
         IntArithOps, LogicOps, IntCompareOps, FloatCompareOps, ToFloatOps, FloatArithOps,
         FromFloatOps, IdleOps, DirectJumpOps, RegJumpOps
<1>4. ~Fault /\ ~(Finished /\ ~UNCHANGED vars)
  BY <1>2 DEF Fault, Finished
<1>5. RootReturn \/ UNCHANGED vars
  BY <1>3, <1>4 DEF Next, Step
<1>6. CASE RootReturn
  BY <1>6 DEF RootReturn
<1>7. CASE UNCHANGED vars
  BY <1>7 DEF vars, regs, calls, stack, watched
<1> QED BY <1>5, <1>6, <1>7

\* A division by zero kills it.
LEMMA DivideByZeroNext ==
  ASSUME TypeOK, Executing, [Next]_vars, Computes(Inst), DividesByZero
  PROVE  \/ UNCHANGED watched
         \/ status' = "aborted" /\ UNCHANGED program
<1>1. Inst.op = "I_DIV"
  BY DEF DividesByZero
<1>2. Defined(Inst)
  BY ComputesDefined
<1>3. ~(\/ Push \/ Pop \/ Load \/ LoadFloat \/ Save \/ Write \/ ComputeWord \/ ComputeFloat
        \/ CastFloat \/ Idle \/ Record \/ Call \/ Return \/ RootReturn \/ Halt \/ Jump)
  BY <1>1 DEF Push, Pop, Load, LoadFloat, Save, Write, ComputeWord, ComputeFloat, CastFloat,
         Idle, Record, Call, Return, RootReturn, Halt, Jump, Fetch, ToFloatOps,
         FloatArithOps, FromFloatOps, IdleOps, DirectJumpOps, RegJumpOps
<1>4. ~Fault /\ ~(Finished /\ ~UNCHANGED vars)
  BY <1>2 DEF Fault, Finished
<1>5. Abort \/ UNCHANGED vars
  BY <1>3, <1>4 DEF Next, Step
<1>6. CASE Abort
  BY <1>6 DEF Abort
<1>7. CASE UNCHANGED vars
  BY <1>7 DEF vars, regs, calls, stack, watched
<1> QED BY <1>5, <1>6, <1>7

\* A machine that has ended stays as it is.
LEMMA EndedNext ==
  ASSUME ~Executing, [Next]_vars
  PROVE  UNCHANGED watched
<1>1. UNCHANGED vars
  BY DEF Next, Step, Finished, Push, Pop, Load, LoadFloat, Save, Write, ComputeWord,
         ComputeFloat, CastFloat, Idle, Record, Call, Return, RootReturn, Halt, Jump, Abort,
         Fault, Fetch
<1> QED BY <1>1 DEF vars, regs, calls, stack, watched

-----------------------------------------------------------------------------
(***************************************************************************)
(* The same, instruction by instruction of the source of a program.        *)
(***************************************************************************)

\* The machine does nothing, or puts w in register r and goes on.
Rests == UNCHANGED watched

Puts(r, w) ==
  /\ \A s \in 0 .. 2 : iregisters'[s] = IF s = r THEN w ELSE iregisters[s]
  /\ pc' = pc + 1
  /\ UNCHANGED <<program, status, frames, fregisters, STACK>>

\* What the macros make of registers and a number.
LEMMA SetFields ==
  ASSUME NEW x, NEW w
  PROVE  SET(x, w) = [op |-> "I_SET", r0 |-> x, r1 |-> 0, r2 |-> 0, imm |-> w]
<1>1. Len(<<x>>) = 1 /\ <<x>>[1] = x
  OBVIOUS
<1> QED BY <1>1 DEF SET, Encode

LEMMA OneField ==
  ASSUME NEW op, NEW x
  PROVE  Ops(op, <<x>>) = [op |-> op, r0 |-> x, r1 |-> 0, r2 |-> 0, imm |-> 0]
<1>1. Len(<<x>>) = 1 /\ <<x>>[1] = x
  OBVIOUS
<1> QED BY <1>1 DEF Ops, Registers, Encode

LEMMA ThreeFields ==
  ASSUME NEW op, NEW x, NEW y, NEW z
  PROVE  Ops(op, <<x, y, z>>) = [op |-> op, r0 |-> x, r1 |-> y, r2 |-> z, imm |-> 0]
<1>1. /\ Len(<<x, y, z>>) = 3
      /\ <<x, y, z>>[1] = x /\ <<x, y, z>>[2] = y /\ <<x, y, z>>[3] = z
  OBVIOUS
<1> QED BY <1>1 DEF Ops, Registers, Encode

\* The register that is put changes, and no other.
LEMMA PutInto ==
  ASSUME TypeOK, NEW r \in 0 .. 2, NEW w,
         \/ Rests
         \/ /\ iregisters' = [iregisters EXCEPT ![r] = w]
            /\ pc' = pc + 1
            /\ UNCHANGED <<program, status, frames, accum_register, fregisters, STACK>>
  PROVE  Rests \/ Puts(r, w)
<1>1. 0 .. 2 \subseteq IntReg /\ DOMAIN iregisters = IntReg
  BY MachineAssumption DEF IntReg, TypeOK
<1> QED BY <1>1 DEF Puts

LEMMA SetNext ==
  ASSUME TypeOK, Executing, [Next]_vars, NEW r \in 0 .. 2, NEW w, Inst = SET(r, w)
  PROVE  Rests \/ Puts(r, w)
<1>1. Inst = [op |-> "I_SET", r0 |-> r, r1 |-> 0, r2 |-> 0, imm |-> w]
  BY SetFields
<1>2. Computes(Inst) /\ ~DividesByZero
  BY <1>1 DEF Computes, Computing, DividesByZero
<1>3. Computed(Inst, iregisters) = w
  BY <1>1 DEF Computed, IntArithOps, IntCompareOps
<1> QED BY <1>1, <1>2, <1>3, ComputeNext, PutInto DEF Rests

LEMMA IncrementNext ==
  ASSUME TypeOK, Executing, [Next]_vars, NEW r \in 0 .. 2, Inst = Ops("I_INC", <<r>>)
  PROVE  Rests \/ Puts(r, (iregisters[r] + 1) % UINT_MOD)
<1>1. Inst = [op |-> "I_INC", r0 |-> r, r1 |-> 0, r2 |-> 0, imm |-> 0]
  BY OneField
<1>2. Computes(Inst) /\ ~DividesByZero
  BY <1>1 DEF Computes, Computing, DividesByZero, IntStepOps
<1>3. Computed(Inst, iregisters) = (iregisters[r] + 1) % UINT_MOD
  BY <1>1 DEF Computed, IntArithOps, IntCompareOps
<1> QED BY <1>1, <1>2, <1>3, ComputeNext, PutInto DEF Rests

LEMMA DecrementNext ==
  ASSUME TypeOK, Executing, [Next]_vars, NEW r \in 0 .. 2, Inst = Ops("I_DEC", <<r>>)
  PROVE  Rests \/ Puts(r, (iregisters[r] - 1) % UINT_MOD)
<1>1. Inst = [op |-> "I_DEC", r0 |-> r, r1 |-> 0, r2 |-> 0, imm |-> 0]
  BY OneField
<1>2. Computes(Inst) /\ ~DividesByZero
  BY <1>1 DEF Computes, Computing, DividesByZero, IntStepOps
<1>3. Computed(Inst, iregisters) = (iregisters[r] - 1) % UINT_MOD
  BY <1>1 DEF Computed, IntArithOps, IntCompareOps
<1> QED BY <1>1, <1>2, <1>3, ComputeNext, PutInto DEF Rests

LEMMA ArithmeticNext ==
  ASSUME TypeOK, Executing, [Next]_vars, NEW op \in IntArithOps, NEW r \in 0 .. 2,
         NEW x \in 0 .. 2, NEW y \in 0 .. 2, Inst = Ops(op, <<r, x, y>>),
         op = "I_DIV" => iregisters[y] # 0
  PROVE  Rests \/ Puts(r, IntResult(op, iregisters[x], iregisters[y]))
<1>1. Inst = [op |-> op, r0 |-> r, r1 |-> x, r2 |-> y, imm |-> 0]
  BY ThreeFields
<1>2. Computes(Inst) /\ ~DividesByZero
  BY <1>1 DEF Computes, Computing, DividesByZero, Word2
<1>3. Computed(Inst, iregisters) = IntResult(op, iregisters[x], iregisters[y])
  BY <1>1 DEF Computed, IntArithOps, IntCompareOps
<1> QED BY <1>1, <1>2, <1>3, ComputeNext, PutInto DEF Rests

LEMMA CompareNext ==
  ASSUME TypeOK, Executing, [Next]_vars, NEW op \in IntCompareOps, NEW r \in 0 .. 2,
         NEW x \in 0 .. 2, NEW y \in 0 .. 2, Inst = Ops(op, <<r, x, y>>)
  PROVE  Rests \/ Puts(r, AsFlag(IntCompare(op, iregisters[x], iregisters[y])))
<1>1. Inst = [op |-> op, r0 |-> r, r1 |-> x, r2 |-> y, imm |-> 0]
  BY ThreeFields
<1>2. Computes(Inst) /\ ~DividesByZero
  BY <1>1 DEF Computes, Computing, DividesByZero, IntCompareOps
<1>3. Computed(Inst, iregisters) = AsFlag(IntCompare(op, iregisters[x], iregisters[y]))
  BY <1>1 DEF Computed, IntArithOps, IntCompareOps
<1> QED BY <1>1, <1>2, <1>3, ComputeNext, PutInto DEF Rests

-----------------------------------------------------------------------------
(***************************************************************************)
(* Sums.                                                                   *)
(***************************************************************************)

\* The registers of a running SumProgram(a, b) before each of its instructions.
SumAt(a, b) ==
  /\ pc \in 0 .. 7
  /\ pc > 0 => iregisters[0] = a
  /\ pc > 1 => iregisters[1] = b
  /\ pc = 3 => iregisters[2] = (a + b) % UINT_MOD
  /\ pc = 4 => iregisters[2] = (a + b + 1) % UINT_MOD
  /\ pc = 5 => iregisters[2] = (a + 1) % UINT_MOD
  /\ pc = 6 => iregisters[2] = a
  /\ pc = 7 => iregisters[2] = 1

SumInv ==
  \A a, b \in Word :
    program = SumProgram(a, b) =>
      IF status = "running" THEN frames = 0 /\ SumAt(a, b) ELSE ReturnsTrue

\* (a + b) + 1 - b = a + 1, modulo the size of a word, and so on.
LEMMA SumsCancel ==
  ASSUME NEW a \in Word, NEW b \in Word
  PROVE  /\ (((a + b) % UINT_MOD) + 1) % UINT_MOD = (a + b + 1) % UINT_MOD
         /\ (((a + b + 1) % UINT_MOD) - b) % UINT_MOD = (a + 1) % UINT_MOD
         /\ (((a + 1) % UINT_MOD) - 1) % UINT_MOD = a
<1> DEFINE m == UINT_MOD
<1>1. m \in Nat /\ m > 1 /\ a \in 0 .. m - 1 /\ b \in 0 .. m - 1
  BY Moduli DEF Word
<1> HIDE DEF m
<1>2. (a + b) % m = IF a + b < m THEN a + b ELSE a + b - m
  BY <1>1, WrapOnce
<1>3. (a + b + 1) % m = IF a + b + 1 < m THEN a + b + 1 ELSE a + b + 1 - m
  BY <1>1, WrapOnce
<1>4. (a + 1) % m = IF a + 1 < m THEN a + 1 ELSE a + 1 - m
  BY <1>1, WrapOnce
<1>5. (((a + b) % m) + 1) % m = (a + b + 1) % m
  BY <1>1, <1>2, <1>3, WrapOnce
<1>6. (((a + b + 1) % m) - b) % m = (a + 1) % m
  BY <1>1, <1>3, <1>4, BorrowOnce
<1>7. (((a + 1) % m) - 1) % m = a
  BY <1>1, <1>4, BorrowOnce
<1> QED BY <1>5, <1>6, <1>7 DEF m

LEMMA SumSource ==
  ASSUME NEW a, NEW b
  PROVE  LET p == SumProgram(a, b)
         IN  /\ Len(p) = 8
             /\ p[1] = SET(0, a) /\ p[2] = SET(1, b)
             /\ p[3] = Ops("I_ADD", <<2, 0, 1>>) /\ p[4] = Ops("I_INC", <<2>>)
             /\ p[5] = Ops("I_SUB", <<2, 2, 1>>) /\ p[6] = Ops("I_DEC", <<2>>)
             /\ p[7] = Ops("I_CMPE", <<2, 2, 0>>) /\ p[8] = RETURN(2)
  BY DEF SumProgram

\* No step changes the program.
LEMMA ProgramKept == [Next]_vars => program' = program
  BY DEF Next, Step, Finished, Push, Pop, Load, LoadFloat, Save, Write, ComputeWord,
         ComputeFloat, CastFloat, Idle, Record, Call, Return, RootReturn, Halt, Jump, Abort,
         Fault, vars

\* The end of a program that compares.
LEMMA LastNext ==
  ASSUME TypeOK, Executing, [Next]_vars, Inst = RETURN(2), frames = 0,
         iregisters[2] = 1
  PROVE  Rests \/ ReturnsTrue'
<1>1. Inst = [op |-> "I_RET", r0 |-> 2, r1 |-> 0, r2 |-> 0, imm |-> 0]
  BY OneField DEF RETURN
<1>2. Inst.op = "I_RET" /\ Inst.r0 = 2 /\ 2 \in 0 .. 2
  BY <1>1
<1> QED BY <1>2, ReturnNext DEF Rests, ReturnsTrue

\* What happens while it rests.
LEMMA SumRests ==
  ASSUME NEW a, NEW b, Rests,
         IF status = "running" THEN frames = 0 /\ SumAt(a, b) ELSE ReturnsTrue
  PROVE  IF status' = "running" THEN frames' = 0 /\ SumAt(a, b)' ELSE ReturnsTrue'
  BY DEF Rests, watched, SumAt, ReturnsTrue

LEMMA SumNext ==
  ASSUME TypeOK, [Next]_vars, NEW a \in Word, NEW b \in Word, program = SumProgram(a, b),
         IF status = "running" THEN frames = 0 /\ SumAt(a, b) ELSE ReturnsTrue
  PROVE  IF status' = "running" THEN frames' = 0 /\ SumAt(a, b)' ELSE ReturnsTrue'
<1> DEFINE p    == SumProgram(a, b)
           Goal == IF status' = "running" THEN frames' = 0 /\ SumAt(a, b)' ELSE ReturnsTrue'
<1>1. Rests => Goal
  BY SumRests
<1>2. CASE ~Executing
  BY <1>1, <1>2, EndedNext DEF Rests
<1>3. CASE Executing
  <2>1. status = "running" /\ frames = 0 /\ SumAt(a, b) /\ Inst = p[pc + 1]
    BY <1>3 DEF Executing, Inst
  <2> HIDE DEF p
  <2>2. pc \in {0, 1, 2, 3, 4, 5, 6, 7}
    BY <2>1 DEF SumAt
  <2>3. CASE pc = 0
    <3>1. Rests \/ Puts(0, a)
      BY <1>3, <2>1, <2>3, SumSource, SetNext DEF p
    <3> QED BY <1>1, <2>1, <2>3, <3>1 DEF Puts, SumAt
  <2>4. CASE pc = 1
    <3>1. Rests \/ Puts(1, b)
      BY <1>3, <2>1, <2>4, SumSource, SetNext DEF p
    <3> QED BY <1>1, <2>1, <2>4, <3>1 DEF Puts, SumAt
  <2>5. CASE pc = 2
    <3>1. Rests \/ Puts(2, IntResult("I_ADD", iregisters[0], iregisters[1]))
      BY <1>3, <2>1, <2>5, SumSource, ArithmeticNext DEF p, IntArithOps
    <3>2. Rests \/ Puts(2, (a + b) % UINT_MOD)
      BY <2>1, <2>5, <3>1 DEF IntResult, SumAt
    <3> QED BY <1>1, <2>1, <2>5, <3>2 DEF Puts, SumAt
  <2>6. CASE pc = 3
    <3>1. Rests \/ Puts(2, (iregisters[2] + 1) % UINT_MOD)
      BY <1>3, <2>1, <2>6, SumSource, IncrementNext DEF p
    <3>2. Rests \/ Puts(2, (a + b + 1) % UINT_MOD)
      BY <2>1, <2>6, <3>1, SumsCancel DEF SumAt
    <3> QED BY <1>1, <2>1, <2>6, <3>2 DEF Puts, SumAt
  <2>7. CASE pc = 4
    <3>1. Rests \/ Puts(2, IntResult("I_SUB", iregisters[2], iregisters[1]))
      BY <1>3, <2>1, <2>7, SumSource, ArithmeticNext DEF p, IntArithOps
    <3>2. Rests \/ Puts(2, (iregisters[2] - b) % UINT_MOD)
      BY <2>1, <2>7, <3>1 DEF IntResult, SumAt
    <3>3. Rests \/ Puts(2, (a + 1) % UINT_MOD)
      BY <2>1, <2>7, <3>2, SumsCancel DEF SumAt
    <3> QED BY <1>1, <2>1, <2>7, <3>3 DEF Puts, SumAt
  <2>8. CASE pc = 5
    <3>1. Rests \/ Puts(2, (iregisters[2] - 1) % UINT_MOD)
      BY <1>3, <2>1, <2>8, SumSource, DecrementNext DEF p
    <3>2. Rests \/ Puts(2, a)
      BY <2>1, <2>8, <3>1, SumsCancel DEF SumAt
    <3> QED BY <1>1, <2>1, <2>8, <3>2 DEF Puts, SumAt
  <2>9. CASE pc = 6
    <3>1. Rests \/ Puts(2, AsFlag(IntCompare("I_CMPE", iregisters[2], iregisters[0])))
      BY <1>3, <2>1, <2>9, SumSource, CompareNext DEF p, IntCompareOps
    <3>2. Rests \/ Puts(2, 1)
      BY <2>1, <2>9, <3>1 DEF IntCompare, AsFlag, SumAt
    <3> QED BY <1>1, <2>1, <2>9, <3>2 DEF Puts, SumAt
  <2>10. CASE pc = 7
    <3>1. Rests \/ ReturnsTrue'
      BY <1>3, <2>1, <2>10, SumSource, LastNext DEF p, SumAt
    <3> QED BY <1>1, <3>1 DEF ReturnsTrue
  <2> QED BY <2>2, <2>3, <2>4, <2>5, <2>6, <2>7, <2>8, <2>9, <2>10
<1> QED BY <1>2, <1>3

\* On words of any size, across the wrap, a subtraction undoes an addition and a
\* decrement an increment (execute_op, I_ADD, I_SUB, I_INC, I_DEC and I_CMPE).
THEOREM SubtractionCorrect == Spec => []SubtractionUndoesAddition
<1>1. Init => SumInv
  BY DEF Init, InitMachine, SumInv, SumAt
<1>2. IInv /\ SumInv /\ [Next]_vars => SumInv'
  <2> SUFFICES ASSUME IInv, SumInv, [Next]_vars, NEW a \in Word, NEW b \in Word,
                      program' = SumProgram(a, b)
               PROVE  IF status' = "running" THEN frames' = 0 /\ SumAt(a, b)'
                                             ELSE ReturnsTrue'
    BY DEF SumInv
  <2>1. program = SumProgram(a, b)
    BY ProgramKept
  <2> QED BY <2>1, SumNext DEF IInv, SumInv
<1>3. SumInv => SubtractionUndoesAddition
  <2> SUFFICES ASSUME SumInv, NEW a \in Word, NEW b \in Word, program = SumProgram(a, b),
                      ~Executing
               PROVE  ReturnsTrue
    BY DEF SubtractionUndoesAddition, SumPrograms
  <2>1. status = "running" => pc < 8
    BY DEF SumInv, SumAt
  <2>2. Len(program) = 8
    BY SumSource
  <2> QED BY <2>1, <2>2 DEF SumInv, Executing
<1> QED BY <1>1, <1>2, <1>3, InductiveInvariant, PTL DEF Spec

-----------------------------------------------------------------------------
(***************************************************************************)
(* Quotients.                                                              *)
(***************************************************************************)

\* The registers of a running QuotientProgram(a, b) before each instruction.
QuotientAt(a, b) ==
  /\ pc \in 0 .. 6
  /\ pc > 0 => iregisters[0] = a
  /\ pc > 1 => iregisters[1] = b
  /\ pc > 2 => b # 0
  /\ pc = 3 => iregisters[2] = a \div b
  /\ pc = 4 => iregisters[2] = (a \div b) * b
  /\ pc = 5 => iregisters[2] = a - (a \div b) * b
  /\ pc = 6 => iregisters[2] = 1

QuotientEnd(b) == IF b = 0 THEN status = "aborted" ELSE ReturnsTrue

QuotientInv ==
  \A a, b \in Word :
    program = QuotientProgram(a, b) =>
      IF status = "running" THEN frames = 0 /\ QuotientAt(a, b) ELSE QuotientEnd(b)

\* A product of divisor and quotient does not wrap, and neither does what is left.
LEMMA QuotientsFit ==
  ASSUME NEW a \in Word, NEW b \in Word, b # 0
  PROVE  /\ ((a \div b) * b) % UINT_MOD = (a \div b) * b
         /\ (a - (a \div b) * b) % UINT_MOD = a - (a \div b) * b
         /\ a - (a \div b) * b < b
<1> DEFINE m == UINT_MOD
           q == (a \div b) * b
<1>1. m \in Nat /\ m > 1 /\ a \in 0 .. m - 1 /\ b \in 1 .. m - 1
  BY Moduli DEF Word
<1>2. q \in 0 .. a /\ a - q < b
  BY <1>1, DivisionLeaves
<1> HIDE DEF m, q
<1>3. q % m = q
  BY <1>1, <1>2, WrapOnce
<1>4. (a - q) % m = a - q
  BY <1>1, <1>2, WrapOnce
<1> QED BY <1>2, <1>3, <1>4 DEF m, q

LEMMA QuotientSource ==
  ASSUME NEW a, NEW b
  PROVE  LET p == QuotientProgram(a, b)
         IN  /\ Len(p) = 7
             /\ p[1] = SET(0, a) /\ p[2] = SET(1, b)
             /\ p[3] = Ops("I_DIV", <<2, 0, 1>>) /\ p[4] = Ops("I_MUL", <<2, 2, 1>>)
             /\ p[5] = Ops("I_SUB", <<2, 0, 2>>) /\ p[6] = Ops("I_CMPL", <<2, 2, 1>>)
             /\ p[7] = RETURN(2)
  BY DEF QuotientProgram

LEMMA QuotientRests ==
  ASSUME NEW a, NEW b, Rests,
         IF status = "running" THEN frames = 0 /\ QuotientAt(a, b) ELSE QuotientEnd(b)
  PROVE  IF status' = "running" THEN frames' = 0 /\ QuotientAt(a, b)' ELSE QuotientEnd(b)'
  BY DEF Rests, watched, QuotientAt, QuotientEnd, ReturnsTrue

LEMMA QuotientNext ==
  ASSUME TypeOK, [Next]_vars, NEW a \in Word, NEW b \in Word,
         program = QuotientProgram(a, b),
         IF status = "running" THEN frames = 0 /\ QuotientAt(a, b) ELSE QuotientEnd(b)
  PROVE  IF status' = "running" THEN frames' = 0 /\ QuotientAt(a, b)' ELSE QuotientEnd(b)'
<1> DEFINE p    == QuotientProgram(a, b)
           Goal == IF status' = "running" THEN frames' = 0 /\ QuotientAt(a, b)'
                                          ELSE QuotientEnd(b)'
<1>1. Rests => Goal
  BY QuotientRests
<1>2. CASE ~Executing
  BY <1>1, <1>2, EndedNext DEF Rests
<1>3. CASE Executing
  <2>1. status = "running" /\ frames = 0 /\ QuotientAt(a, b) /\ Inst = p[pc + 1]
    BY <1>3 DEF Executing, Inst
  <2> HIDE DEF p
  <2>2. pc \in {0, 1, 2, 3, 4, 5, 6}
    BY <2>1 DEF QuotientAt
  <2>3. CASE pc = 0
    <3>1. Rests \/ Puts(0, a)
      BY <1>3, <2>1, <2>3, QuotientSource, SetNext DEF p
    <3> QED BY <1>1, <2>1, <2>3, <3>1 DEF Puts, QuotientAt
  <2>4. CASE pc = 1
    <3>1. Rests \/ Puts(1, b)
      BY <1>3, <2>1, <2>4, QuotientSource, SetNext DEF p
    <3> QED BY <1>1, <2>1, <2>4, <3>1 DEF Puts, QuotientAt
  <2>5. CASE pc = 2 /\ b # 0
    <3>1. Rests \/ Puts(2, IntResult("I_DIV", iregisters[0], iregisters[1]))
      BY <1>3, <2>1, <2>5, QuotientSource, ArithmeticNext DEF p, IntArithOps, QuotientAt
    <3>2. Rests \/ Puts(2, a \div b)
      BY <2>1, <2>5, <3>1 DEF IntResult, QuotientAt
    <3> QED BY <1>1, <2>1, <2>5, <3>2 DEF Puts, QuotientAt
  <2>6. CASE pc = 2 /\ b = 0
    <3>1. Inst = [op |-> "I_DIV", r0 |-> 2, r1 |-> 0, r2 |-> 1, imm |-> 0]
      BY <2>1, <2>6, QuotientSource, ThreeFields DEF p
    <3>2. Computes(Inst) /\ DividesByZero
      BY <2>1, <2>6, <3>1 DEF Computes, Computing, IntArithOps, DividesByZero, Word2,
                              QuotientAt
    <3>3. Rests \/ status' = "aborted"
      BY <1>3, <3>2, DivideByZeroNext DEF Rests
    <3> QED BY <1>1, <2>6, <3>3 DEF QuotientEnd
  <2>7. CASE pc = 3
    <3>1. Rests \/ Puts(2, IntResult("I_MUL", iregisters[2], iregisters[1]))
      BY <1>3, <2>1, <2>7, QuotientSource, ArithmeticNext DEF p, IntArithOps
    <3>2. Rests \/ Puts(2, ((a \div b) * b) % UINT_MOD)
      BY <2>1, <2>7, <3>1 DEF IntResult, QuotientAt
    <3>3. Rests \/ Puts(2, (a \div b) * b)
      BY <2>1, <2>7, <3>2, QuotientsFit DEF QuotientAt
    <3> QED BY <1>1, <2>1, <2>7, <3>3 DEF Puts, QuotientAt
  <2>8. CASE pc = 4
    <3>1. Rests \/ Puts(2, IntResult("I_SUB", iregisters[0], iregisters[2]))
      BY <1>3, <2>1, <2>8, QuotientSource, ArithmeticNext DEF p, IntArithOps
    <3>2. Rests \/ Puts(2, (a - (a \div b) * b) % UINT_MOD)
      BY <2>1, <2>8, <3>1 DEF IntResult, QuotientAt
    <3>3. Rests \/ Puts(2, a - (a \div b) * b)
      BY <2>1, <2>8, <3>2, QuotientsFit DEF QuotientAt
    <3> QED BY <1>1, <2>1, <2>8, <3>3 DEF Puts, QuotientAt
  <2>9. CASE pc = 5
    <3>1. Rests \/ Puts(2, AsFlag(IntCompare("I_CMPL", iregisters[2], iregisters[1])))
      BY <1>3, <2>1, <2>9, QuotientSource, CompareNext DEF p, IntCompareOps
    <3>2. iregisters[2] < iregisters[1]
      BY <2>1, <2>9, QuotientsFit DEF QuotientAt
    <3>3. Rests \/ Puts(2, 1)
      BY <3>1, <3>2 DEF IntCompare, AsFlag
    <3> QED BY <1>1, <2>1, <2>9, <3>3 DEF Puts, QuotientAt
  <2>10. CASE pc = 6
    <3>1. Rests \/ ReturnsTrue'
      BY <1>3, <2>1, <2>10, QuotientSource, LastNext DEF p, QuotientAt
    <3>2. b # 0
      BY <2>1, <2>10 DEF QuotientAt
    <3> QED BY <1>1, <3>1, <3>2 DEF ReturnsTrue, QuotientEnd
  <2> QED BY <2>2, <2>3, <2>4, <2>5, <2>6, <2>7, <2>8, <2>9, <2>10
<1> QED BY <1>2, <1>3

\* On words of any size, a quotient leaves a remainder below the divisor, its
\* product with the divisor does not wrap, and only a zero divisor kills the
\* machine (execute_op, I_DIV, I_MUL, I_SUB and I_CMPL).
THEOREM RemainderCorrect == Spec => []RemainderBelowDivisor
<1>1. Init => QuotientInv
  BY DEF Init, InitMachine, QuotientInv, QuotientAt
<1>2. IInv /\ QuotientInv /\ [Next]_vars => QuotientInv'
  <2> SUFFICES ASSUME IInv, QuotientInv, [Next]_vars, NEW a \in Word, NEW b \in Word,
                      program' = QuotientProgram(a, b)
               PROVE  IF status' = "running" THEN frames' = 0 /\ QuotientAt(a, b)'
                                             ELSE QuotientEnd(b)'
    BY DEF QuotientInv
  <2>1. program = QuotientProgram(a, b)
    BY ProgramKept
  <2> QED BY <2>1, QuotientNext DEF IInv, QuotientInv
<1>3. QuotientInv => RemainderBelowDivisor
  <2> SUFFICES ASSUME QuotientInv, NEW a \in Word, NEW b \in Word,
                      program = QuotientProgram(a, b), ~Executing
               PROVE  IF program[2].imm = 0 THEN status = "aborted" ELSE ReturnsTrue
    BY DEF RemainderBelowDivisor, QuotientPrograms
  <2>1. status = "running" => pc < 7
    BY DEF QuotientInv, QuotientAt
  <2>2. Len(program) = 7 /\ program[2] = SET(1, b)
    BY QuotientSource
  <2>3. program[2].imm = b
    BY <2>2, SetFields
  <2> QED BY <2>1, <2>2, <2>3 DEF QuotientInv, QuotientEnd, Executing
<1> QED BY <1>1, <1>2, <1>3, InductiveInvariant, PTL DEF Spec

-----------------------------------------------------------------------------
(***************************************************************************)
(* Comparisons.                                                            *)
(***************************************************************************)

\* Of these two comparisons exactly one holds.
Opposite(op1, op2) ==
  \/ op1 = "I_CMPEG" /\ op2 = "I_CMPL"
  \/ op1 = "I_CMPEL" /\ op2 = "I_CMPG"

\* The registers of a running OrderProgram before each instruction.
OrderAt(a, b, op1, op2) ==
  /\ pc \in 0 .. 7
  /\ pc \in 1 .. 3 => iregisters[0] = a
  /\ pc \in 2 .. 3 => iregisters[1] = b
  /\ pc \in 3 .. 5 => iregisters[2] = AsFlag(IntCompare(op1, a, b))
  /\ pc > 3 => iregisters[0] = AsFlag(IntCompare(op2, a, b))
  /\ pc > 4 => iregisters[1] = 1
  /\ pc > 5 => iregisters[2] = 1

OrderInv ==
  \A a, b \in Word, op1, op2 \in IntCompareOps :
    program = OrderProgram(a, b, op1, op2) /\ Opposite(op1, op2) =>
      IF status = "running" THEN frames = 0 /\ OrderAt(a, b, op1, op2) ELSE ReturnsTrue

LEMMA OneHolds ==
  ASSUME NEW a \in Word, NEW b \in Word, NEW op1, NEW op2, Opposite(op1, op2)
  PROVE  (AsFlag(IntCompare(op1, a, b)) + AsFlag(IntCompare(op2, a, b))) % UINT_MOD = 1
<1>1. a \in Int /\ b \in Int /\ UINT_MOD \in Nat /\ UINT_MOD > 1
  BY Moduli DEF Word
<1>2. AsFlag(IntCompare(op1, a, b)) + AsFlag(IntCompare(op2, a, b)) = 1
  <2>1. CASE op1 = "I_CMPEG" /\ op2 = "I_CMPL"
    BY <1>1, <2>1 DEF IntCompare, AsFlag
  <2>2. CASE op1 = "I_CMPEL" /\ op2 = "I_CMPG"
    BY <1>1, <2>2 DEF IntCompare, AsFlag
  <2> QED BY <2>1, <2>2 DEF Opposite
<1>3. 1 % UINT_MOD = 1
  BY <1>1, WrapOnce
<1> QED BY <1>2, <1>3

LEMMA OrderSource ==
  ASSUME NEW a, NEW b, NEW op1, NEW op2
  PROVE  LET p == OrderProgram(a, b, op1, op2)
         IN  /\ Len(p) = 8
             /\ p[1] = SET(0, a) /\ p[2] = SET(1, b)
             /\ p[3] = Ops(op1, <<2, 0, 1>>) /\ p[4] = Ops(op2, <<0, 0, 1>>)
             /\ p[5] = SET(1, 1) /\ p[6] = Ops("I_ADD", <<2, 2, 0>>)
             /\ p[7] = Ops("I_CMPE", <<2, 2, 1>>) /\ p[8] = RETURN(2)
  BY DEF OrderProgram

LEMMA OrderRests ==
  ASSUME NEW a, NEW b, NEW op1, NEW op2, Rests,
         IF status = "running" THEN frames = 0 /\ OrderAt(a, b, op1, op2) ELSE ReturnsTrue
  PROVE  IF status' = "running" THEN frames' = 0 /\ OrderAt(a, b, op1, op2)'
                                ELSE ReturnsTrue'
  BY DEF Rests, watched, OrderAt, ReturnsTrue

LEMMA OrderNext ==
  ASSUME TypeOK, [Next]_vars, NEW a \in Word, NEW b \in Word,
         NEW op1 \in IntCompareOps, NEW op2 \in IntCompareOps, Opposite(op1, op2),
         program = OrderProgram(a, b, op1, op2),
         IF status = "running" THEN frames = 0 /\ OrderAt(a, b, op1, op2) ELSE ReturnsTrue
  PROVE  IF status' = "running" THEN frames' = 0 /\ OrderAt(a, b, op1, op2)'
                                ELSE ReturnsTrue'
<1> DEFINE p     == OrderProgram(a, b, op1, op2)
           flag1 == AsFlag(IntCompare(op1, a, b))
           flag2 == AsFlag(IntCompare(op2, a, b))
           Goal  == IF status' = "running" THEN frames' = 0 /\ OrderAt(a, b, op1, op2)'
                                           ELSE ReturnsTrue'
<1>1. Rests => Goal
  BY OrderRests
<1>2. CASE ~Executing
  BY <1>1, <1>2, EndedNext DEF Rests
<1>3. CASE Executing
  <2>1. status = "running" /\ frames = 0 /\ OrderAt(a, b, op1, op2) /\ Inst = p[pc + 1]
    BY <1>3 DEF Executing, Inst
  <2>11. (flag1 + flag2) % UINT_MOD = 1
    BY OneHolds
  <2> HIDE DEF p
  <2>2. pc \in {0, 1, 2, 3, 4, 5, 6, 7}
    BY <2>1 DEF OrderAt
  <2>3. CASE pc = 0
    <3>1. Rests \/ Puts(0, a)
      BY <1>3, <2>1, <2>3, OrderSource, SetNext DEF p
    <3> QED BY <1>1, <2>1, <2>3, <3>1 DEF Puts, OrderAt
  <2>4. CASE pc = 1
    <3>1. Rests \/ Puts(1, b)
      BY <1>3, <2>1, <2>4, OrderSource, SetNext DEF p
    <3> QED BY <1>1, <2>1, <2>4, <3>1 DEF Puts, OrderAt
  <2>5. CASE pc = 2
    <3>1. Rests \/ Puts(2, AsFlag(IntCompare(op1, iregisters[0], iregisters[1])))
      BY <1>3, <2>1, <2>5, OrderSource, CompareNext DEF p
    <3>2. Rests \/ Puts(2, flag1)
      BY <2>1, <2>5, <3>1 DEF OrderAt
    <3> QED BY <1>1, <2>1, <2>5, <3>2 DEF Puts, OrderAt
  <2>6. CASE pc = 3
    <3>1. Rests \/ Puts(0, AsFlag(IntCompare(op2, iregisters[0], iregisters[1])))
      BY <1>3, <2>1, <2>6, OrderSource, CompareNext DEF p
    <3>2. Rests \/ Puts(0, flag2)
      BY <2>1, <2>6, <3>1 DEF OrderAt
    <3> QED BY <1>1, <2>1, <2>6, <3>2 DEF Puts, OrderAt
  <2>7. CASE pc = 4
    <3>1. Rests \/ Puts(1, 1)
      BY <1>3, <2>1, <2>7, OrderSource, SetNext DEF p
    <3> QED BY <1>1, <2>1, <2>7, <3>1 DEF Puts, OrderAt
  <2>8. CASE pc = 5
    <3>1. Rests \/ Puts(2, IntResult("I_ADD", iregisters[2], iregisters[0]))
      BY <1>3, <2>1, <2>8, OrderSource, ArithmeticNext DEF p, IntArithOps
    <3>2. Rests \/ Puts(2, (flag1 + flag2) % UINT_MOD)
      BY <2>1, <2>8, <3>1 DEF IntResult, OrderAt
    <3>3. Rests \/ Puts(2, 1)
      BY <2>11, <3>2
    <3> QED BY <1>1, <2>1, <2>8, <3>3 DEF Puts, OrderAt
  <2>9. CASE pc = 6
    <3>1. Rests \/ Puts(2, AsFlag(IntCompare("I_CMPE", iregisters[2], iregisters[1])))
      BY <1>3, <2>1, <2>9, OrderSource, CompareNext DEF p, IntCompareOps
    <3>2. Rests \/ Puts(2, 1)
      BY <2>1, <2>9, <3>1 DEF IntCompare, AsFlag, OrderAt
    <3> QED BY <1>1, <2>1, <2>9, <3>2 DEF Puts, OrderAt
  <2>10. CASE pc = 7
    <3>1. Rests \/ ReturnsTrue'
      BY <1>3, <2>1, <2>10, OrderSource, LastNext DEF p, OrderAt
    <3> QED BY <1>1, <3>1 DEF ReturnsTrue
  <2> QED BY <2>2, <2>3, <2>4, <2>5, <2>6, <2>7, <2>8, <2>9, <2>10
<1> QED BY <1>2, <1>3

\* On words of any size, a word is at least another or below it, and at most
\* another or above it, never both (execute_op, I_CMPEG and the other comparisons).
THEOREM ComparisonsCorrect == Spec => []ComparisonsComplement
<1>1. Init => OrderInv
  BY DEF Init, InitMachine, OrderInv, OrderAt
<1>2. IInv /\ OrderInv /\ [Next]_vars => OrderInv'
  <2> SUFFICES ASSUME IInv, OrderInv, [Next]_vars, NEW a \in Word, NEW b \in Word,
                      NEW op1 \in IntCompareOps, NEW op2 \in IntCompareOps,
                      program' = OrderProgram(a, b, op1, op2), Opposite(op1, op2)
               PROVE  IF status' = "running" THEN frames' = 0 /\ OrderAt(a, b, op1, op2)'
                                             ELSE ReturnsTrue'
    BY DEF OrderInv
  <2>1. program = OrderProgram(a, b, op1, op2)
    BY ProgramKept
  <2> QED BY <2>1, OrderNext DEF IInv, OrderInv
<1>3. OrderInv => ComparisonsComplement
  <2> SUFFICES ASSUME OrderInv, program \in OrderPrograms, ~Executing
               PROVE  ReturnsTrue
    BY DEF ComparisonsComplement
  <2>1. PICK a \in Word, b \in Word, op1 \in IntCompareOps, op2 \in IntCompareOps :
          program = OrderProgram(a, b, op1, op2) /\ Opposite(op1, op2)
    BY DEF OrderPrograms, Opposite, IntCompareOps
  <2>2. status = "running" => pc < 8
    BY <2>1 DEF OrderInv, OrderAt
  <2>3. Len(program) = 8
    BY <2>1, OrderSource
  <2> QED BY <2>1, <2>2, <2>3 DEF OrderInv, Executing
<1> QED BY <1>1, <1>2, <1>3, InductiveInvariant, PTL DEF Spec

-----------------------------------------------------------------------------
(***************************************************************************)
(* Memory.                                                                 *)
(***************************************************************************)

LEMMA TwoFields ==
  ASSUME NEW op, NEW x, NEW y
  PROVE  Ops(op, <<x, y>>) = [op |-> op, r0 |-> x, r1 |-> y, r2 |-> 0, imm |-> 0]
<1>1. Len(<<x, y>>) = 2 /\ <<x, y>>[1] = x /\ <<x, y>>[2] = y
  OBVIOUS
<1> QED BY <1>1 DEF Ops, Registers, Encode

LEMMA FloatSetFields ==
  ASSUME NEW x, NEW w
  PROVE  FSET(x, w) = [op |-> "I_FSET", r0 |-> x, r1 |-> 0, r2 |-> 0, imm |-> w]
<1>1. Len(<<x>>) = 1 /\ <<x>>[1] = x
  OBVIOUS
<1> QED BY <1>1 DEF FSET, Encode

\* The machine does nothing, or stores w at address a and goes on.
Stores(a, w) ==
  /\ STACK' = SaveWord(STACK, a, w)
  /\ pc' = pc + 1
  /\ UNCHANGED <<program, status, frames, regs>>

\* The two stores, ...
LEMMA StoreNext ==
  ASSUME TypeOK, Executing, [Next]_vars, InStack(iregisters[1]),
         NEW op \in {"I_DSAVE", "I_FSAVE"}, Inst = Ops(op, <<0, 1>>)
  PROVE  Rests \/ Stores(iregisters[1], IF op = "I_DSAVE" THEN iregisters[0]
                                                          ELSE fregisters[0])
<1>1. Inst = [op |-> op, r0 |-> 0, r1 |-> 1, r2 |-> 0, imm |-> 0]
  BY TwoFields
<1>2. Inst.op = op /\ Inst.r0 = 0 /\ Inst.r1 = 1
  BY <1>1
<1>3. 0 \in IntReg /\ 1 \in IntReg /\ 0 \in FltReg
  BY MachineAssumption DEF IntReg, FltReg
<1>4. WordAddress(Inst) = iregisters[1]
  BY <1>2 DEF WordAddress
<1>5. Defined(Inst)
  BY <1>2, <1>3, <1>4 DEF Defined, RegistersExist, WordR2, FloatR1, FloatR2, IntArithOps,
     LogicOps, IntCompareOps, IntCastOps, ToFloatOps, FromFloatOps, FloatArithOps,
     FloatCompareOps
<1>6. ~(\/ Push \/ Pop \/ Load \/ LoadFloat \/ Write \/ ComputeWord \/ ComputeFloat
        \/ CastFloat \/ Idle \/ Record \/ Call \/ Return \/ RootReturn \/ Halt \/ Jump
        \/ Abort)
  BY <1>2 DEF Push, Pop, Load, LoadFloat, Write, ComputeWord, ComputeFloat, CastFloat,
         Idle, Record, Call, Return, RootReturn, Halt, Jump, Abort, Fetch, WordOps,
         IntStepOps, IntCastOps, IntArithOps, LogicOps, IntCompareOps, FloatCompareOps,
         ToFloatOps, FloatArithOps, FromFloatOps, IdleOps, DirectJumpOps, RegJumpOps
<1>7. ~Fault /\ ~(Finished /\ ~UNCHANGED vars)
  BY <1>5 DEF Fault, Finished
<1>8. Save \/ UNCHANGED vars
  BY <1>6, <1>7 DEF Next, Step
<1>9. CASE Save
  BY <1>2, <1>4, <1>9 DEF Save, Stores, Advance, calls
<1>10. CASE UNCHANGED vars
  BY <1>10 DEF vars, regs, calls, stack, watched, Rests
<1> QED BY <1>8, <1>9, <1>10

\* ... the load ...
LEMMA LoadNext ==
  ASSUME TypeOK, Executing, [Next]_vars, InStack(iregisters[1]),
         Inst = Ops("I_DLOAD", <<2, 1>>)
  PROVE  Rests \/ Puts(2, LoadWord(STACK, iregisters[1]))
<1>1. Inst = [op |-> "I_DLOAD", r0 |-> 2, r1 |-> 1, r2 |-> 0, imm |-> 0]
  BY TwoFields
<1>2. Inst.op = "I_DLOAD" /\ Inst.r0 = 2 /\ Inst.r1 = 1
  BY <1>1
<1>3. 2 \in IntReg /\ 1 \in IntReg
  BY MachineAssumption DEF IntReg
<1>4. WordAddress(Inst) = iregisters[1]
  BY <1>2 DEF WordAddress
<1>5. Defined(Inst)
  BY <1>2, <1>3, <1>4 DEF Defined, RegistersExist, WordR2, FloatR0, FloatR1, FloatR2,
     IntArithOps, LogicOps, IntCompareOps, IntCastOps, ToFloatOps, FromFloatOps,
     FloatArithOps, FloatCompareOps
<1>6. ~(\/ Push \/ Pop \/ LoadFloat \/ Save \/ Write \/ ComputeWord \/ ComputeFloat
        \/ CastFloat \/ Idle \/ Record \/ Call \/ Return \/ RootReturn \/ Halt \/ Jump
        \/ Abort)
  BY <1>2 DEF Push, Pop, LoadFloat, Save, Write, ComputeWord, ComputeFloat, CastFloat,
         Idle, Record, Call, Return, RootReturn, Halt, Jump, Abort, Fetch, WordOps,
         IntStepOps, IntCastOps, IntArithOps, LogicOps, IntCompareOps, FloatCompareOps,
         ToFloatOps, FloatArithOps, FromFloatOps, IdleOps, DirectJumpOps, RegJumpOps
<1>7. ~Fault /\ ~(Finished /\ ~UNCHANGED vars)
  BY <1>5 DEF Fault, Finished
<1>8. Load \/ UNCHANGED vars
  BY <1>6, <1>7 DEF Next, Step
<1>9. CASE Load
  <2>1. \/ Rests
        \/ /\ iregisters' = [iregisters EXCEPT ![2] = LoadWord(STACK, iregisters[1])]
           /\ pc' = pc + 1
           /\ UNCHANGED <<program, status, frames, accum_register, fregisters, STACK>>
    BY <1>2, <1>4, <1>9 DEF Load, PutWord, Advance, calls, stack
  <2>2. 2 \in 0 .. 2
    OBVIOUS
  <2> QED BY <2>1, <2>2, PutInto
<1>10. CASE UNCHANGED vars
  BY <1>10 DEF vars, regs, calls, stack, watched, Rests
<1> QED BY <1>8, <1>9, <1>10

\* ... and the setting of a float register.
LEMMA SetFloatNext ==
  ASSUME TypeOK, Executing, [Next]_vars, NEW w, Inst = FSET(0, w)
  PROVE  \/ Rests
         \/ /\ fregisters'[0] = w
            /\ pc' = pc + 1
            /\ UNCHANGED <<program, status, frames, iregisters, STACK>>
<1>1. Inst = [op |-> "I_FSET", r0 |-> 0, r1 |-> 0, r2 |-> 0, imm |-> w]
  BY FloatSetFields
<1>2. Inst.op = "I_FSET" /\ Inst.r0 = 0 /\ Inst.imm = w
  BY <1>1
<1>3. 0 \in FltReg
  BY MachineAssumption DEF FltReg
<1>4. Defined(Inst)
  BY <1>2, <1>3 DEF Defined, RegistersExist, WordR0, WordR1, WordR2, FloatR1, FloatR2,
     MemoryOps, IntStepOps, IntArithOps, LogicOps, IntCompareOps, IntCastOps, ToFloatOps,
     FromFloatOps, FloatArithOps, FloatCompareOps
<1>5. ~(\/ Push \/ Pop \/ Load \/ LoadFloat \/ Save \/ Write \/ ComputeWord \/ CastFloat
        \/ Idle \/ Record \/ Call \/ Return \/ RootReturn \/ Halt \/ Jump \/ Abort)
  BY <1>2 DEF Push, Pop, Load, LoadFloat, Save, Write, ComputeWord, CastFloat,
         Idle, Record, Call, Return, RootReturn, Halt, Jump, Abort, Fetch, WordOps,
         IntStepOps, IntCastOps, IntArithOps, LogicOps, IntCompareOps, FloatCompareOps,
         FromFloatOps, IdleOps, DirectJumpOps, RegJumpOps
<1>6. ~Fault /\ ~(Finished /\ ~UNCHANGED vars)
  BY <1>4 DEF Fault, Finished
<1>7. ComputeFloat \/ UNCHANGED vars
  BY <1>5, <1>6 DEF Next, Step
<1>8. CASE ComputeFloat
  <2>1. FloatResult = w
    BY <1>2 DEF FloatResult, ToFloatOps, FloatArithOps
  <2> QED BY <1>2, <1>3, <1>8, <2>1 DEF ComputeFloat, PutFloat, Advance, calls, stack, TypeOK
<1>9. CASE UNCHANGED vars
  BY <1>9 DEF vars, regs, calls, stack, watched, Rests
<1> QED BY <1>7, <1>8, <1>9

Zeros == [x \in Address |-> 0]

Stored(w, a, v, b) == SaveWord(SaveWord(Zeros, a, w), b, v)

\* The registers and the memory of a running StoreStoreLoad(w, a, v, b, c).
MemoryAt(w, a, v, b, c) ==
  /\ pc \in 0 .. 8
  /\ pc > 0 => iregisters[0] = w
  /\ pc \in 2 .. 4 => iregisters[1] = a
  /\ pc \in 5 .. 6 => iregisters[1] = b
  /\ pc > 6 => iregisters[1] = c
  /\ pc > 3 => fregisters[0] = v
  /\ pc < 3 => STACK = Zeros
  /\ pc \in 3 .. 5 => STACK = SaveWord(Zeros, a, w)
  /\ pc > 5 => STACK = Stored(w, a, v, b)
  /\ pc = 8 => iregisters[2] = LoadWord(STACK, c)

MemoryEnd(w, a, v, b, c) ==
  status = "halted" /\ accum_register = LoadWord(Stored(w, a, v, b), c)

MemoryGoal(w, a, v, b, c) ==
  IF status = "running" THEN frames = 0 /\ MemoryAt(w, a, v, b, c)
                        ELSE MemoryEnd(w, a, v, b, c)

MemoryInv ==
  \A w, v \in Word, a, b, c \in WordAddresses :
    program = StoreStoreLoad(w, a, v, b, c) => MemoryGoal(w, a, v, b, c)

\* A digit and the number in front of it are found again.
LEMMA FrontDigit ==
  ASSUME NEW d \in Byte, NEW n \in Nat
  PROVE  /\ (d + Radix * n) % Radix = d
         /\ (d + Radix * n) \div Radix = n
  BY Moduli DEF Byte

\* A loaded word has the bytes it was loaded from.
LEMMA LoadedBytes ==
  ASSUME NEW mem \in [Address -> Byte], NEW a \in WordAddresses, NEW k \in 0 .. 3
  PROVE  ByteOf(LoadWord(mem, a), k) = mem[a + k]
<1> DEFINE h3 == mem[a + 3]
           h2 == mem[a + 2] + Radix * h3
           h1 == mem[a + 1] + Radix * h2
           h0 == mem[a] + Radix * h1
<1>1. /\ mem[a] \in Byte /\ mem[a + 1] \in Byte
      /\ mem[a + 2] \in Byte /\ mem[a + 3] \in Byte
  BY MachineAssumption DEF Address, WORD_BYTES, WordAddresses
<1>2. Radix \in Nat /\ Radix > 1
  BY Moduli
<1>3. h3 \in Nat /\ h3 < Radix
  BY <1>1, <1>2 DEF Byte
<1>4. h2 \in Nat /\ h2 % Radix = mem[a + 2] /\ h2 \div Radix = h3
  <2> HIDE DEF h3
  <2>1. h2 \in Nat
    BY <1>1, <1>2, <1>3 DEF Byte
  <2>2. h2 % Radix = mem[a + 2] /\ h2 \div Radix = h3
    BY <1>1, <1>3, FrontDigit
  <2> QED BY <2>1, <2>2
<1>5. h1 \in Nat /\ h1 % Radix = mem[a + 1] /\ h1 \div Radix = h2
  <2> HIDE DEF h2
  <2>1. h1 \in Nat
    BY <1>1, <1>2, <1>4 DEF Byte
  <2>2. h1 % Radix = mem[a + 1] /\ h1 \div Radix = h2
    BY <1>1, <1>4, FrontDigit
  <2> QED BY <2>1, <2>2
<1>6. h0 % Radix = mem[a] /\ h0 \div Radix = h1
  <2> HIDE DEF h1
  <2> QED BY <1>1, <1>5, FrontDigit
<1>7. LoadWord(mem, a) = h0
  BY DEF LoadWord
<1>8. h3 % Radix = h3
  <2> HIDE DEF h3
  <2> QED BY <1>2, <1>3
<1>9. /\ ByteOf(h0, 0) = mem[a] /\ ByteOf(h0, 1) = mem[a + 1]
      /\ ByteOf(h0, 2) = mem[a + 2] /\ ByteOf(h0, 3) = mem[a + 3]
  <2>1. h3 = mem[a + 3]
    OBVIOUS
  <2> HIDE DEF h0, h1, h2, h3
  <2> QED BY <1>4, <1>5, <1>6, <1>8, <2>1 DEF ByteOf
<1>10. a + 0 = a
  BY MachineAssumption DEF WordAddresses
<1> HIDE DEF h0
<1>11. CASE k = 0
  BY <1>7, <1>9, <1>10, <1>11
<1>12. CASE k \in 1 .. 3
  BY <1>7, <1>9, <1>12
<1> QED BY <1>11, <1>12

\* What the two stores leave at an address.
LEMMA StoredBytes ==
  ASSUME NEW w \in Word, NEW v \in Word, NEW a \in WordAddresses, NEW b \in WordAddresses
  PROVE  /\ Stored(w, a, v, b) \in [Address -> Byte]
         /\ \A x \in Address : Stored(w, a, v, b)[x] = Expected(w, a, v, b, x)
<1>1. Zeros \in [Address -> Byte]
  BY Moduli DEF Zeros, Byte
<1>2. a \in Int /\ b \in Int
  BY DEF WordAddresses
<1> DEFINE mem == SaveWord(Zeros, a, w)
<1>3. mem \in [Address -> Byte]
  BY <1>1, <1>2, SaveWordType
<1>4. SaveWord(mem, b, v) \in [Address -> Byte]
  <2> HIDE DEF mem
  <2> QED BY <1>2, <1>3, SaveWordType
<1>5. \A x \in Address : mem[x] = IF x \in a .. a + 3 THEN ByteOf(w, x - a) ELSE 0
  BY <1>2 DEF SaveWord, Zeros, WORD_BYTES
<1>6. \A x \in Address :
        SaveWord(mem, b, v)[x] = IF x \in b .. b + 3 THEN ByteOf(v, x - b) ELSE mem[x]
  <2> HIDE DEF mem
  <2> QED BY <1>2 DEF SaveWord, WORD_BYTES
<1> HIDE DEF mem
<1>7. \A x \in Address : SaveWord(mem, b, v)[x] = Expected(w, a, v, b, x)
  BY <1>5, <1>6 DEF Expected
<1> QED BY <1>4, <1>7 DEF Stored, mem

LEMMA MemorySource ==
  ASSUME NEW w, NEW a, NEW v, NEW b, NEW c
  PROVE  LET p == StoreStoreLoad(w, a, v, b, c)
         IN  /\ Len(p) = 9
             /\ p[1] = SET(0, w) /\ p[2] = SET(1, a) /\ p[3] = Ops("I_DSAVE", <<0, 1>>)
             /\ p[4] = FSET(0, v) /\ p[5] = SET(1, b) /\ p[6] = Ops("I_FSAVE", <<0, 1>>)
             /\ p[7] = SET(1, c) /\ p[8] = Ops("I_DLOAD", <<2, 1>>) /\ p[9] = RETURN(2)
  BY DEF StoreStoreLoad

LEMMA MemoryRests ==
  ASSUME NEW w, NEW a, NEW v, NEW b, NEW c, Rests, MemoryGoal(w, a, v, b, c)
  PROVE  MemoryGoal(w, a, v, b, c)'
  BY DEF Rests, watched, MemoryGoal, MemoryAt, MemoryEnd

LEMMA MemoryNext ==
  ASSUME TypeOK, [Next]_vars, NEW w \in Word, NEW v \in Word,
         NEW a \in WordAddresses, NEW b \in WordAddresses, NEW c \in WordAddresses,
         program = StoreStoreLoad(w, a, v, b, c), MemoryGoal(w, a, v, b, c)
  PROVE  MemoryGoal(w, a, v, b, c)'
<1> DEFINE p == StoreStoreLoad(w, a, v, b, c)
           At == MemoryAt(w, a, v, b, c)
<1>1. Rests => MemoryGoal(w, a, v, b, c)'
  BY MemoryRests
<1>2. CASE ~Executing
  BY <1>1, <1>2, EndedNext DEF Rests
<1>3. CASE Executing
  <2>1. status = "running" /\ frames = 0 /\ At /\ Inst = p[pc + 1]
    BY <1>3 DEF Executing, Inst, MemoryGoal
  <2>2. /\ InStack(a) /\ InStack(b) /\ InStack(c)
    BY DEF InStack, WordAddresses
  <2>3. status' = "running" /\ frames' = 0 /\ At' => MemoryGoal(w, a, v, b, c)'
    BY DEF MemoryGoal
  <2> HIDE DEF p
  <2>4. pc \in {0, 1, 2, 3, 4, 5, 6, 7, 8}
    BY <2>1 DEF MemoryAt
  <2>5. CASE pc = 0
    <3>1. Rests \/ Puts(0, w)
      BY <1>3, <2>1, <2>5, MemorySource, SetNext DEF p
    <3> QED BY <1>1, <2>1, <2>3, <2>5, <3>1 DEF Puts, MemoryAt
  <2>6. CASE pc = 1
    <3>1. Rests \/ Puts(1, a)
      BY <1>3, <2>1, <2>6, MemorySource, SetNext DEF p
    <3> QED BY <1>1, <2>1, <2>3, <2>6, <3>1 DEF Puts, MemoryAt
  <2>7. CASE pc = 2
    <3>1. iregisters[1] = a /\ iregisters[0] = w /\ Inst = Ops("I_DSAVE", <<0, 1>>)
      BY <2>1, <2>7, MemorySource DEF MemoryAt, p
    <3>2. Rests \/ Stores(a, w)
      BY <1>3, <2>2, <3>1, StoreNext
    <3> QED BY <1>1, <2>1, <2>3, <2>7, <3>2 DEF Stores, regs, MemoryAt
  <2>8. CASE pc = 3
    <3>1. Inst = FSET(0, v)
      BY <2>1, <2>8, MemorySource DEF p
    <3>2. \/ Rests
          \/ /\ fregisters'[0] = v
             /\ pc' = pc + 1
             /\ UNCHANGED <<program, status, frames, iregisters, STACK>>
      BY <1>3, <3>1, SetFloatNext
    <3> QED BY <1>1, <2>1, <2>3, <2>8, <3>2 DEF MemoryAt
  <2>9. CASE pc = 4
    <3>1. Rests \/ Puts(1, b)
      BY <1>3, <2>1, <2>9, MemorySource, SetNext DEF p
    <3> QED BY <1>1, <2>1, <2>3, <2>9, <3>1 DEF Puts, MemoryAt
  <2>10. CASE pc = 5
    <3>1. iregisters[1] = b /\ fregisters[0] = v /\ Inst = Ops("I_FSAVE", <<0, 1>>)
      BY <2>1, <2>10, MemorySource DEF MemoryAt, p
    <3>2. Rests \/ Stores(b, v)
      BY <1>3, <2>2, <3>1, StoreNext
    <3> QED BY <1>1, <2>1, <2>3, <2>10, <3>2 DEF Stores, regs, MemoryAt, Stored
  <2>11. CASE pc = 6
    <3>1. Rests \/ Puts(1, c)
      BY <1>3, <2>1, <2>11, MemorySource, SetNext DEF p
    <3> QED BY <1>1, <2>1, <2>3, <2>11, <3>1 DEF Puts, MemoryAt
  <2>12. CASE pc = 7
    <3>1. iregisters[1] = c /\ Inst = Ops("I_DLOAD", <<2, 1>>)
      BY <2>1, <2>12, MemorySource DEF MemoryAt, p
    <3>2. Rests \/ Puts(2, LoadWord(STACK, c))
      BY <1>3, <2>2, <3>1, LoadNext
    <3> QED BY <1>1, <2>1, <2>3, <2>12, <3>2 DEF Puts, MemoryAt
  <2>13. CASE pc = 8
    <3>1. Inst = [op |-> "I_RET", r0 |-> 2, r1 |-> 0, r2 |-> 0, imm |-> 0]
      BY <2>1, <2>13, MemorySource, OneField DEF p, RETURN
    <3>2. Inst.op = "I_RET" /\ Inst.r0 = 2 /\ 2 \in 0 .. 2
      BY <3>1
    <3>3. Rests \/ (accum_register' = iregisters[2] /\ status' = "halted")
      BY <1>3, <2>1, <3>2, ReturnNext DEF Rests
    <3> QED BY <1>1, <2>1, <2>13, <3>3 DEF MemoryGoal, MemoryAt, MemoryEnd
  <2> QED BY <2>4, <2>5, <2>6, <2>7, <2>8, <2>9, <2>10, <2>11, <2>12, <2>13
<1> QED BY <1>2, <1>3

\* In a memory of any size, at all addresses and with words of any size: a load
\* returns, byte for byte, what the last store to each byte left there
\* (save_decimal, save_float and load_decimal).
THEOREM LastStoreCorrect == Spec => []LastStoreWins
<1>1. Init => MemoryInv
  BY DEF Init, InitMachine, InitGlobals, MemoryInv, MemoryGoal, MemoryAt, Zeros
<1>2. IInv /\ MemoryInv /\ [Next]_vars => MemoryInv'
  <2> SUFFICES ASSUME IInv, MemoryInv, [Next]_vars, NEW w \in Word, NEW v \in Word,
                      NEW a \in WordAddresses, NEW b \in WordAddresses,
                      NEW c \in WordAddresses, program' = StoreStoreLoad(w, a, v, b, c)
               PROVE  MemoryGoal(w, a, v, b, c)'
    BY DEF MemoryInv
  <2>1. program = StoreStoreLoad(w, a, v, b, c)
    BY ProgramKept
  <2> QED BY <2>1, MemoryNext DEF IInv, MemoryInv
<1>3. MemoryInv => LastStoreWins
  <2> SUFFICES ASSUME MemoryInv, NEW w \in Word, NEW v \in Word,
                      NEW a \in WordAddresses, NEW b \in WordAddresses,
                      NEW c \in WordAddresses, program = StoreStoreLoad(w, a, v, b, c),
                      ~Executing
               PROVE  /\ status = "halted"
                      /\ \A k \in 0 .. 3 :
                           ByteOf(accum_register, k) =
                             Expected(program[1].imm, program[2].imm, program[4].imm,
                                      program[5].imm, program[7].imm + k)
    BY DEF LastStoreWins, MemoryPrograms
  <2>1. Len(program) = 9
    BY MemorySource
  <2>2. status = "running" => pc < 9
    BY DEF MemoryInv, MemoryGoal, MemoryAt
  <2>3. status = "halted" /\ accum_register = LoadWord(Stored(w, a, v, b), c)
    BY <2>1, <2>2 DEF MemoryInv, MemoryGoal, MemoryEnd, Executing
  <2>4. /\ program[1] = SET(0, w) /\ program[2] = SET(1, a) /\ program[4] = FSET(0, v)
        /\ program[5] = SET(1, b) /\ program[7] = SET(1, c)
    BY MemorySource
  <2>5. /\ program[1].imm = w /\ program[2].imm = a /\ program[4].imm = v
        /\ program[5].imm = b /\ program[7].imm = c
    BY <2>4, SetFields, FloatSetFields
  <2>6. ASSUME NEW k \in 0 .. 3
        PROVE  ByteOf(accum_register, k) = Expected(w, a, v, b, c + k)
    <3>1. c + k \in Address
      BY MachineAssumption DEF WordAddresses, Address, WORD_BYTES
    <3>2. ByteOf(accum_register, k) = Stored(w, a, v, b)[c + k]
      BY <2>3, StoredBytes, LoadedBytes
    <3> QED BY <3>1, <3>2, StoredBytes
  <2> QED BY <2>3, <2>5, <2>6
<1> QED BY <1>1, <1>2, <1>3, InductiveInvariant, PTL DEF Spec

=============================================================================
