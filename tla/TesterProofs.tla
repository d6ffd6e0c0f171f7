----------------------------- MODULE TesterProofs -----------------------------
(***************************************************************************)
(* Proofs about the tester: whatever the list of tests, the score it       *)
(* prints and its verdict agree, and although the machines it runs hand    *)
(* their registers and their stack on to each other, each keeps the        *)
(* invariants of a machine in a process of its own.  Each test of          *)
(* test_list.c returns what it is to return, whatever ran before it - but  *)
(* for the one that counts from a register it does not set.                *)
(***************************************************************************)
EXTENDS Tester, OperandStackProofs, WordProgramsProofs

\* The list is a nonempty sequence of tests.
LEMMA ListFacts ==
  ASSUME list \in TestLists
  PROVE  /\ list \in Seq(TestProgram) /\ Len(list) \in Nat \ {0}
         /\ DOMAIN list = 1 .. Len(list)
         /\ \A k \in 1 .. Len(list) : list[k].program \in Programs
<1>1. list \in Seq(TestProgram) /\ list # <<>>
  BY TestListsAssumption
<1>2. Len(list) \in Nat \ {0} /\ DOMAIN list = 1 .. Len(list)
  BY <1>1
<1>3. ASSUME NEW k \in 1 .. Len(list)
      PROVE  list[k].program \in Programs
  <2>1. list[k] \in TestProgram
    BY <1>1
  <2> QED BY <2>1 DEF TestProgram
<1> QED BY <1>1, <1>2, <1>3

-----------------------------------------------------------------------------
(***************************************************************************)
(* The machines.                                                           *)
(***************************************************************************)

\* What every machine keeps.
MachineInv == IInv /\ TopAligned /\ TopInReach

\* The first machine is one in a fresh process.
LEMMA FirstMachine == TesterInit => MachineInv
<1> SUFFICES ASSUME TesterInit PROVE MachineInv
  OBVIOUS
<1>1. 1 \in 1 .. Len(list) /\ list[1].program \in Programs
  BY ListFacts DEF TesterInit
<1>2. Init
  BY <1>1 DEF TesterInit, Init
<1>3. IInv /\ TopInReach
  BY <1>2, InitIInv, InitStack
<1>4. TopAligned
  BY <1>2 DEF Init, InitMachine, TopAligned, WORD_BYTES
<1> QED BY <1>3, <1>4 DEF MachineInv

\* init_machine sets all of a machine that its predecessor could have left out
\* of order: the rest, registers and stack, may hold anything of their type.
LEMMA NextMachine ==
  ASSUME MachineInv, NEW p \in Programs, StartMachine(p),
         UNCHANGED <<iregisters, fregisters, STACK, wrote>>
  PROVE  MachineInv'
<1> USE DEF StartMachine
<1>1. TypeOK
  BY DEF MachineInv, IInv
<1>2. 0 \in Word /\ 0 \in Size
  BY Moduli DEF Word, Size
<1>3. Loadable(program')
  BY ProgramsAssumption
<1>4. frame_memory' \in [Slot -> CallFrame]
  BY <1>2 DEF NoFrame, CallFrame
<1>5. frames' = 0 /\ frames' \in 0 .. FRAME_COUNT
  BY MachineAssumption
<1>6. TypeOK'
  BY <1>1, <1>2, <1>3, <1>4, <1>5 DEF TypeOK, Status
<1>7. LiveFramesReturnToCalls'
  BY <1>5 DEF LiveFramesReturnToCalls
<1>8. FreeFramesHoldNoReturn'
  BY MachineAssumption DEF FreeFramesHoldNoReturn, Slot, NoFrame
<1>9. TopAligned' /\ TopInReach'
  BY OwedTop DEF TopAligned, TopInReach, InStack
<1> QED BY <1>6, <1>7, <1>8, <1>9 DEF MachineInv, IInv

\* Every machine keeps its invariants.
LEMMA MachineStep ==
  ASSUME MachineInv, list \in TestLists, i \in 1 .. Len(list) + 1,
         [TesterNext]_<<vars, testerVars>>
  PROVE  MachineInv'
<1>1. ASSUME [Next]_vars PROVE MachineInv'
  <2>1. StackInv /\ TypeOK
    BY DEF MachineInv, StackInv, IInv
  <2> QED BY <1>1, <2>1, NextIInv, AlignedStep, StackSimulation DEF MachineInv
<1>2. CASE RunMachine
  BY <1>1, <1>2 DEF RunMachine, Next
<1>3. CASE RecordResult
  <2>1. CASE i < Len(list)
    <3>1. i + 1 \in 1 .. Len(list)
      BY <2>1, ListFacts
    <3>2. list[i + 1].program \in Programs
      BY <3>1, ListFacts
    <3> QED BY <1>3, <2>1, <3>2, NextMachine DEF RecordResult
  <2>2. CASE ~(i < Len(list))
    BY <1>1, <1>3, <2>2 DEF RecordResult
  <2> QED BY <2>1, <2>2
<1>4. CASE TesterFinished \/ UNCHANGED <<vars, testerVars>>
  BY <1>1, <1>4 DEF TesterFinished
<1> QED BY <1>2, <1>3, <1>4 DEF TesterNext

-----------------------------------------------------------------------------
(***************************************************************************)
(* The score.                                                              *)
(***************************************************************************)

\* The tests before the i-th are done, and all of them have passed if and only
\* if the score is as high as their number.
ScoreInv ==
  /\ list \in TestLists
  /\ i \in 1 .. Len(list) + 1
  /\ sucessful_tests \in 0 .. i - 1
  /\ all_tests_passed <=> sucessful_tests = i - 1

LEMMA ScoreStart == TesterInit => ScoreInv
<1> SUFFICES ASSUME TesterInit PROVE ScoreInv
  OBVIOUS
<1>1. list \in TestLists /\ i = 1 /\ sucessful_tests = 0 /\ Len(list) \in Nat
  BY ListFacts DEF TesterInit
<1>2. all_tests_passed
  BY DEF TesterInit
<1> QED BY <1>1, <1>2 DEF ScoreInv

LEMMA ScoreStep == ScoreInv /\ [TesterNext]_<<vars, testerVars>> => ScoreInv'
<1> SUFFICES ASSUME ScoreInv, [TesterNext]_<<vars, testerVars>> PROVE ScoreInv'
  OBVIOUS
<1>1. CASE RecordResult
  <2>1. /\ list \in TestLists /\ list' = list /\ i' = i + 1
        /\ Len(list) \in Nat /\ i \in 1 .. Len(list)
    BY <1>1, ListFacts DEF RecordResult, ScoreInv
  <2>2. sucessful_tests \in 0 .. i - 1 /\ i \in Nat
    BY <2>1 DEF ScoreInv
  <2>3. list' \in TestLists /\ i' \in 1 .. Len(list') + 1
    BY <2>1
  <2>4. CASE sucess
    <3>1. sucessful_tests' = sucessful_tests + 1
      BY <1>1, <2>4 DEF RecordResult, Score, AsFlag
    <3>2. sucessful_tests' \in 0 .. i' - 1
      BY <2>1, <2>2, <3>1
    <3>3. sucessful_tests' = i' - 1 <=> sucessful_tests = i - 1
      BY <2>1, <2>2, <3>1
    <3>4. all_tests_passed' <=> all_tests_passed
      BY <1>1, <2>4 DEF RecordResult
    <3>5. all_tests_passed' <=> sucessful_tests' = i' - 1
      BY <3>3, <3>4 DEF ScoreInv
    <3> QED BY <2>3, <3>2, <3>5 DEF ScoreInv
  <2>5. CASE ~sucess
    <3>1. sucessful_tests' = sucessful_tests
      BY <1>1, <2>2, <2>5 DEF RecordResult, Score, AsFlag
    <3>2. sucessful_tests' \in 0 .. i' - 1 /\ sucessful_tests' # i' - 1
      BY <2>1, <2>2, <3>1
    <3>3. ~all_tests_passed'
      BY <1>1, <2>5 DEF RecordResult
    <3> QED BY <2>3, <3>2, <3>3 DEF ScoreInv
  <2> QED BY <2>4, <2>5
<1>2. CASE ~RecordResult
  <2>1. UNCHANGED testerVars
    BY <1>2 DEF TesterNext, RunMachine, TesterFinished
  <2>2. list' = list /\ i' = i /\ sucessful_tests' = sucessful_tests
    BY <2>1 DEF testerVars
  <2>3. all_tests_passed' = all_tests_passed
    BY <2>1 DEF testerVars
  <2> QED BY <2>2, <2>3 DEF ScoreInv
<1> QED BY <1>1, <1>2

THEOREM ScoreInvariant == TesterSpec => []ScoreInv
  BY ScoreStart, ScoreStep, PTL DEF TesterSpec

\* Whatever tests are run, in whatever order and with whatever result, main
\* prints that all have passed exactly when the number it prints is their
\* number.
THEOREM VerdictCorrect == TesterSpec => []VerdictMatchesScore
<1>1. ScoreInv => VerdictMatchesScore
  <2> SUFFICES ASSUME ScoreInv, Ended PROVE all_tests_passed <=> sucessful_tests = Len(list)
    BY DEF VerdictMatchesScore
  <2>1. i = Len(list) + 1 /\ Len(list) \in Nat
    BY ListFacts DEF ScoreInv, Ended
  <2>2. i - 1 = Len(list)
    BY <2>1
  <2> QED BY <2>2 DEF ScoreInv
<1> QED BY <1>1, ScoreInvariant, PTL

\* The tests share the registers and the stack, but no test can bring the
\* machine of a later one out of order: every frame in use is that of a call of
\* the running test's program, no free one keeps the address of an earlier
\* test's call, and the top is that of a word of the stack.
THEOREM MachinesCorrect == TesterSpec => []MachineInv
<1>1. ScoreInv /\ MachineInv /\ [TesterNext]_<<vars, testerVars>> => MachineInv'
  BY MachineStep DEF ScoreInv
<1> QED BY <1>1, FirstMachine, ScoreInvariant, PTL DEF TesterSpec

\* In particular every variable of every machine keeps to its type.
THEOREM MachinesTypeCorrect == TesterSpec => []TypeOK
<1>1. MachineInv => TypeOK
  BY DEF MachineInv, IInv
<1> QED BY <1>1, MachinesCorrect, PTL

-----------------------------------------------------------------------------
(***************************************************************************)
(* The instructions of the native tests.                                   *)
(***************************************************************************)
Ins(op, x, y, z, w) == [op |-> op, r0 |-> x, r1 |-> y, r2 |-> z, imm |-> w]

\* What the macros make of registers and a number.
LEMMA Encoded ==
  /\ \A x, w : SET(x, w) = Ins("I_SET", x, 0, 0, w)
  /\ \A x, w : FSET(x, w) = Ins("I_FSET", x, 0, 0, w)
  /\ \A op : Registers(op, <<>>) = Ins(op, 0, 0, 0, 0)
  /\ \A op, x : Registers(op, <<x>>) = Ins(op, x, 0, 0, 0)
  /\ \A op, x, y : Registers(op, <<x, y>>) = Ins(op, x, y, 0, 0)
  /\ \A op, x, y, z : Registers(op, <<x, y, z>>) = Ins(op, x, y, z, 0)
  /\ REC = Ins("I_REC", 0, 0, 0, 0)
  /\ PRINT = Ins("I_PRINT", 0, 0, 0, 0)
  /\ \A w : CALL(w) = Ins("I_CALL", 0, 0, 0, w)
  /\ \A w, x, y : NEJMP(w, x, y) = Ins("I_NEJMP", x, y, 0, w)
<1>1. Len(<<>>) = 0
  OBVIOUS
<1>2. ASSUME NEW op, NEW w PROVE Encode(op, <<>>, w) = Ins(op, 0, 0, 0, w)
  BY <1>1 DEF Encode, Ins
<1>3. ASSUME NEW op, NEW x, NEW y, NEW w PROVE Encode(op, <<x, y>>, w) = Ins(op, x, y, 0, w)
  <2>1. Len(<<x, y>>) = 2 /\ <<x, y>>[1] = x /\ <<x, y>>[2] = y
    OBVIOUS
  <2> QED BY <2>1 DEF Encode, Ins
<1>4. /\ \A x, w : SET(x, w) = Ins("I_SET", x, 0, 0, w)
      /\ \A x, w : FSET(x, w) = Ins("I_FSET", x, 0, 0, w)
  BY SetFields, FloatSetFields DEF Ins
<1>5. /\ \A op, x : Registers(op, <<x>>) = Ins(op, x, 0, 0, 0)
      /\ \A op, x, y : Registers(op, <<x, y>>) = Ins(op, x, y, 0, 0)
      /\ \A op, x, y, z : Registers(op, <<x, y, z>>) = Ins(op, x, y, z, 0)
  BY OneField, TwoFields, ThreeFields DEF Ins, Ops
<1> QED BY <1>2, <1>3, <1>4, <1>5 DEF Registers, REC, PRINT, CALL, NEJMP

NativeOps ==
  {"I_SET", "I_ADD", "I_AND", "I_OR", "I_INC", "I_DEC", "I_FSET", "I_FADD", "I_CF2I",
   "I_REG_DUMP", "I_NEJMP", "I_RET", "I_DSAVE", "I_PRINT", "I_REC", "I_CALL", "I_PUSH",
   "I_POP"}

\* An instruction inst names registers that there are.
Named(inst) ==
  /\ inst.op \in NativeOps
  /\ {inst.r0, inst.r1, inst.r2} \subseteq 0 .. 3
  /\ inst.op \in {"I_FSET", "I_FADD", "I_CF2I"} => {inst.r0, inst.r1, inst.r2} \subseteq 0 .. 1

\* It is defined if the memory that it needs is there.
LEMMA NamedDefined ==
  ASSUME Named(Inst),
         Inst.op \in {"I_DSAVE", "I_PUSH", "I_POP"} => InStack(WordAddress(Inst)),
         Inst.op \in {"I_REC", "I_CALL"} => frames < FRAME_COUNT,
         Inst.op = "I_PRINT" => iregisters[1] + iregisters[2] <= STACK_SIZE
  PROVE  Defined(Inst)
<1>1. 0 .. 3 \subseteq IntReg /\ 0 .. 1 \subseteq FltReg
  BY MachineAssumption, NativeTestsAssumption DEF IntReg, FltReg
<1>2. Inst.r0 \in IntReg /\ Inst.r1 \in IntReg /\ Inst.r2 \in IntReg
  BY <1>1 DEF Named
<1>3. Inst.op \in NativeOps
  BY DEF Named
<1>4. Inst.op \in FloatR0 \cup FloatR1 \cup FloatR2
        => Inst.r0 \in FltReg /\ Inst.r1 \in FltReg /\ Inst.r2 \in FltReg
  BY <1>1, <1>3 DEF Named, NativeOps, FloatR0, FloatR1, FloatR2, ToFloatOps, FromFloatOps,
                    FloatArithOps, FloatCompareOps
<1>5. RegistersExist(Inst)
  BY <1>2, <1>4 DEF RegistersExist
<1>6. Inst.op \in MemoryOps => Inst.op \in {"I_DSAVE", "I_PUSH", "I_POP"}
  BY <1>3 DEF MemoryOps, NativeOps
<1> QED BY <1>5, <1>6 DEF Defined

\* The machine executes it, or does nothing.
LEMMA NamedNext ==
  ASSUME TypeOK, Executing, [Next]_vars, Named(Inst), Defined(Inst), ~UNCHANGED vars
  PROVE  /\ Inst.op \in {"I_SET", "I_ADD", "I_AND", "I_OR", "I_INC", "I_DEC"} => ComputeWord
         /\ Inst.op \in {"I_FSET", "I_FADD"} => ComputeFloat
         /\ Inst.op = "I_CF2I" => CastFloat
         /\ Inst.op = "I_REG_DUMP" => Idle
         /\ Inst.op = "I_NEJMP" => Jump
         /\ Inst.op = "I_RET" => IF frames > 0 THEN Return ELSE RootReturn
         /\ Inst.op = "I_DSAVE" => Save
         /\ Inst.op = "I_PRINT" => Write
         /\ Inst.op = "I_REC" => Record
         /\ Inst.op = "I_CALL" => Call
         /\ Inst.op = "I_PUSH" => Push
         /\ Inst.op = "I_POP" => Pop
<1>1. Step /\ ~Fault
  BY DEF Next, Finished, Fault
<1>2. Inst.op \in NativeOps
  BY DEF Named
<1>3. ~Load /\ ~LoadFloat /\ ~Halt /\ ~Abort
  BY <1>2 DEF NativeOps, Load, LoadFloat, Halt, Abort, Fetch
<1>4. /\ Push => Inst.op = "I_PUSH"
      /\ Pop => Inst.op = "I_POP"
      /\ Save => Inst.op = "I_DSAVE"
      /\ Write => Inst.op = "I_PRINT"
      /\ Record => Inst.op = "I_REC"
      /\ Call => Inst.op = "I_CALL"
      /\ Return => Inst.op = "I_RET" /\ frames > 0
      /\ RootReturn => Inst.op = "I_RET" /\ ~(frames > 0)
  BY <1>2 DEF NativeOps, Push, Pop, Save, Write, Record, Call, Return, RootReturn, Fetch
<1>5. /\ ComputeWord => Inst.op \in {"I_SET", "I_ADD", "I_AND", "I_OR", "I_INC", "I_DEC"}
      /\ ComputeFloat => Inst.op \in {"I_FSET", "I_FADD"}
      /\ CastFloat => Inst.op = "I_CF2I"
      /\ Idle => Inst.op = "I_REG_DUMP"
      /\ Jump => Inst.op = "I_NEJMP"
  BY <1>2 DEF NativeOps, ComputeWord, ComputeFloat, CastFloat, Idle, Jump, Fetch, WordOps,
              IntStepOps, IntCastOps, IntArithOps, LogicOps, IntCompareOps,
              FloatCompareOps, ToFloatOps, FloatArithOps, FromFloatOps, IdleOps,
              DirectJumpOps, RegJumpOps
<1> QED BY <1>1, <1>3, <1>4, <1>5 DEF Step

\* What it does with the word registers: it puts w in register r and goes on.
PutsWord(r, w) ==
  /\ \A s \in 0 .. 3 : iregisters'[s] = IF s = r THEN w ELSE iregisters[s]
  /\ pc' = pc + 1
  /\ UNCHANGED <<program, status, frames, frame_memory, stack_top, STACK, wrote>>

GoesOn ==
  /\ pc' = pc + 1
  /\ UNCHANGED <<program, status, iregisters, frames, frame_memory, stack_top, STACK, wrote>>

Outcome(inst) ==
  CASE inst.op = "I_SET" -> inst.imm
    [] inst.op = "I_ADD" -> (iregisters[inst.r1] + iregisters[inst.r2]) % UINT_MOD
    [] inst.op = "I_AND" -> AsFlag(iregisters[inst.r1] # 0 /\ iregisters[inst.r2] # 0)
    [] inst.op = "I_OR"  -> AsFlag(iregisters[inst.r1] # 0 \/ iregisters[inst.r2] # 0)
    [] inst.op = "I_INC" -> (iregisters[inst.r0] + 1) % UINT_MOD
    [] inst.op = "I_DEC" -> (iregisters[inst.r0] - 1) % UINT_MOD

LEMMA PutNext ==
  ASSUME TypeOK, Executing, [Next]_vars, Named(Inst),
         Inst.op \in {"I_SET", "I_ADD", "I_AND", "I_OR", "I_INC", "I_DEC"}
  PROVE  UNCHANGED vars \/ PutsWord(Inst.r0, Outcome(Inst))
<1>1. Defined(Inst)
  BY NamedDefined
<1>2. SUFFICES ASSUME ComputeWord PROVE PutsWord(Inst.r0, Outcome(Inst))
  BY <1>1, NamedNext
<1>3. iregisters' = [iregisters EXCEPT ![Inst.r0] = WordResult]
  BY <1>2 DEF ComputeWord, PutWord
<1>4. WordResult = Outcome(Inst)
  BY DEF WordResult, Outcome, Word1, Word2, IntResult, LogicResult, IntArithOps, LogicOps,
         IntCastOps, IntCompareOps, FloatCompareOps
<1>5. 0 .. 3 \subseteq IntReg /\ DOMAIN iregisters = IntReg
  BY NativeTestsAssumption, MachineAssumption DEF IntReg, TypeOK
<1>6. \A s \in 0 .. 3 : iregisters'[s] = IF s = Inst.r0 THEN Outcome(Inst) ELSE iregisters[s]
  BY <1>3, <1>4, <1>5
<1> QED BY <1>2, <1>6 DEF ComputeWord, PutsWord, Advance, calls, stack

LEMMA DumpNext ==
  ASSUME TypeOK, Executing, [Next]_vars, Named(Inst), Inst.op = "I_REG_DUMP"
  PROVE  UNCHANGED vars \/ GoesOn
<1>1. Defined(Inst)
  BY NamedDefined
<1>2. SUFFICES ASSUME Idle PROVE GoesOn
  BY <1>1, NamedNext
<1> QED BY <1>2 DEF Idle, GoesOn, Advance, regs, calls, stack

LEMMA JumpNext ==
  ASSUME TypeOK, Executing, [Next]_vars, Named(Inst), Inst.op = "I_NEJMP"
  PROVE  \/ UNCHANGED vars
         \/ /\ pc' = IF iregisters[Inst.r1] # iregisters[Inst.r2] THEN Inst.imm ELSE pc + 1
            /\ UNCHANGED <<program, status, iregisters, frames, frame_memory, stack_top,
                           STACK, wrote>>
<1>1. Defined(Inst)
  BY NamedDefined
<1>2. SUFFICES ASSUME Jump
               PROVE  /\ pc' = IF iregisters[Inst.r1] # iregisters[Inst.r2] THEN Inst.imm
                                                                          ELSE pc + 1
                      /\ UNCHANGED <<program, status, iregisters, frames, frame_memory,
                                     stack_top, STACK, wrote>>
  BY <1>1, NamedNext
<1> QED BY <1>2 DEF Jump, Taken, DirectJumpOps, regs, calls, stack

\* A return outside of a call ends the program.
Returned(w) == status = "halted" /\ accum_register = w

LEMMA EndNext ==
  ASSUME TypeOK, Executing, [Next]_vars, Named(Inst), Inst.op = "I_RET", frames = 0
  PROVE  \/ UNCHANGED vars
         \/ /\ status' = "halted" /\ accum_register' = iregisters[Inst.r0]
            /\ UNCHANGED <<program, iregisters, STACK, wrote>>
<1>1. Defined(Inst)
  BY NamedDefined
<1>2. SUFFICES ASSUME RootReturn
               PROVE  /\ status' = "halted" /\ accum_register' = iregisters[Inst.r0]
                      /\ UNCHANGED <<program, iregisters, STACK, wrote>>
  BY <1>1, NamedNext
<1> QED BY <1>2 DEF RootReturn, stack

\* A machine that has ended stays as it is.
LEMMA EndedRests ==
  ASSUME ~Executing, [Next]_vars
  PROVE  UNCHANGED vars
  BY DEF Next, Step, Finished, Push, Pop, Load, LoadFloat, Save, Write, ComputeWord,
         ComputeFloat, CastFloat, Idle, Record, Call, Return, RootReturn, Halt, Jump, Abort,
         Fault, Fetch

-----------------------------------------------------------------------------
(***************************************************************************)
(* The programs that compute with words.  For each there is what holds at  *)
(* the instructions, and when it has ended.                                *)
(***************************************************************************)

\* Small numbers are words.
LEMMA SmallWords ==
  /\ UINT_MOD \in Nat /\ UINT_MOD >= 256
  /\ \A n \in 0 .. 127 : n % UINT_MOD = n
<1>1. Radix \in Nat /\ Radix >= 4
  BY MachineAssumption, NativeTestsAssumption
<1>2. Radix * Radix \in Nat /\ Radix * Radix >= 16
  BY <1>1
<1> DEFINE square == Radix * Radix
<1>3. (square * Radix) \in Nat /\ square * Radix >= 64
  <2> HIDE DEF square
  <2>1. square \in Nat /\ square >= 16
    BY <1>2 DEF square
  <2> QED BY <1>1, <2>1
<1> DEFINE cube == square * Radix
<1>4. (cube * Radix) \in Nat /\ cube * Radix >= 256
  <2> HIDE DEF cube
  <2>1. cube \in Nat /\ cube >= 64
    BY <1>3 DEF cube
  <2> QED BY <1>1, <2>1
<1>5. UINT_MOD \in Nat /\ UINT_MOD >= 256
  BY <1>4 DEF UINT_MOD
<1> HIDE DEF square, cube
<1> QED BY <1>5, WrapOnce

LEMMA LoopCode ==
  ASSUME program = simple_loop
  PROVE  /\ Len(program) = 8
         /\ program[1] = Ins("I_SET", 0, 0, 0, 0)
         /\ program[2] = Ins("I_SET", 1, 0, 0, 1)
         /\ program[3] = Ins("I_SET", 2, 0, 0, 10)
         /\ program[4] = Ins("I_SET", 3, 0, 0, 4)
         /\ program[5] = Ins("I_REG_DUMP", 0, 0, 0, 0)
         /\ program[6] = Ins("I_ADD", 0, 0, 1, 0)
         /\ program[7] = Ins("I_NEJMP", 0, 2, 0, 3)
         /\ program[8] = Ins("I_RET", 0, 0, 0, 0)
  BY Encoded DEF simple_loop

LoopAt ==
  /\ pc \in 0 .. 7 /\ frames = 0
  /\ pc \in 1 .. 2 => iregisters[0] = 0
  /\ pc \in 3 .. 5 => iregisters[0] \in 0 .. 9
  /\ pc = 6 => iregisters[0] \in 1 .. 10
  /\ pc = 7 => iregisters[0] = 10
  /\ pc >= 2 => iregisters[1] = 1
  /\ pc >= 3 => iregisters[2] = 10

LoopInv == IF status = "running" THEN LoopAt ELSE Returned(10)

LEMMA LoopNext ==
  ASSUME TypeOK, [Next]_vars, program = simple_loop, LoopInv
  PROVE  LoopInv'
<1>1. UNCHANGED vars => LoopInv'
  BY DEF vars, regs, calls, stack, LoopInv, LoopAt, Returned
<1>2. CASE ~Executing
  BY <1>1, <1>2, EndedRests
<1>3. CASE Executing
  <2>1. status = "running" /\ LoopAt /\ Inst = program[pc + 1]
    BY <1>3 DEF Executing, Inst, LoopInv
  <2>2. pc \in 0 .. 7
    BY <2>1 DEF LoopAt
  <2>3. Named(Inst)
    BY <2>1, <2>2, LoopCode DEF Named, NativeOps, Ins
  <2>4. CASE pc \in {0, 1, 2, 3}
    <3>1. UNCHANGED vars \/ PutsWord(Inst.r0, Inst.imm)
      BY <1>3, <2>1, <2>3, <2>4, LoopCode, PutNext DEF Outcome, Ins
    <3> QED BY <1>1, <2>1, <2>4, <3>1, LoopCode DEF PutsWord, LoopInv, LoopAt, Ins
  <2>5. CASE pc = 4
    <3>1. UNCHANGED vars \/ GoesOn
      BY <1>3, <2>1, <2>3, <2>5, LoopCode, DumpNext DEF Ins
    <3> QED BY <1>1, <2>1, <2>5, <3>1 DEF GoesOn, LoopInv, LoopAt
  <2>6. CASE pc = 5
    <3>1. UNCHANGED vars \/ PutsWord(0, (iregisters[0] + iregisters[1]) % UINT_MOD)
      BY <1>3, <2>1, <2>3, <2>6, LoopCode, PutNext DEF Outcome, Ins
    <3>2. iregisters[0] \in 0 .. 9 /\ iregisters[1] = 1
      BY <2>1, <2>6 DEF LoopAt
    <3>3. (iregisters[0] + iregisters[1]) % UINT_MOD = iregisters[0] + 1
      BY <3>2, SmallWords
    <3> QED BY <1>1, <2>1, <2>6, <3>1, <3>2, <3>3 DEF PutsWord, LoopInv, LoopAt
  <2>7. CASE pc = 6
    <3>1. \/ UNCHANGED vars
          \/ /\ pc' = IF iregisters[2] # iregisters[0] THEN 3 ELSE 7
             /\ UNCHANGED <<status, iregisters, frames>>
      BY <1>3, <2>1, <2>3, <2>7, LoopCode, JumpNext DEF Ins
    <3> QED BY <1>1, <2>1, <2>7, <3>1 DEF LoopInv, LoopAt
  <2>8. CASE pc = 7
    <3>1. UNCHANGED vars \/ (status' = "halted" /\ accum_register' = iregisters[0])
      BY <1>3, <2>1, <2>3, <2>8, LoopCode, EndNext DEF Ins, LoopAt
    <3> QED BY <1>1, <2>1, <2>8, <3>1 DEF LoopInv, LoopAt, Returned
  <2> QED BY <2>2, <2>4, <2>5, <2>6, <2>7, <2>8
<1> QED BY <1>2, <1>3

LEMMA LogicCode ==
  ASSUME program = and_or
  PROVE  /\ Len(program) = 7
         /\ program[1] = Ins("I_SET", 1, 0, 0, 0)
         /\ program[2] = Ins("I_SET", 2, 0, 0, 1)
         /\ program[3] = Ins("I_OR", 0, 1, 2, 0)
         /\ program[4] = Ins("I_REG_DUMP", 0, 0, 0, 0)
         /\ program[5] = Ins("I_AND", 0, 1, 2, 0)
         /\ program[6] = Ins("I_REG_DUMP", 0, 0, 0, 0)
         /\ program[7] = Ins("I_RET", 0, 0, 0, 0)
  BY Encoded DEF and_or

LogicAt ==
  /\ pc \in 0 .. 6 /\ frames = 0
  /\ pc >= 1 => iregisters[1] = 0
  /\ pc >= 5 => iregisters[0] = 0

\* It leaves a zero in $r0.
LogicInv == IF status = "running" THEN LogicAt ELSE Returned(0) /\ iregisters[0] = 0

LEMMA LogicNext ==
  ASSUME TypeOK, [Next]_vars, program = and_or, LogicInv
  PROVE  LogicInv'
<1>1. UNCHANGED vars => LogicInv'
  BY DEF vars, regs, calls, stack, LogicInv, LogicAt, Returned
<1>2. CASE ~Executing
  BY <1>1, <1>2, EndedRests
<1>3. CASE Executing
  <2>1. status = "running" /\ LogicAt /\ Inst = program[pc + 1]
    BY <1>3 DEF Executing, Inst, LogicInv
  <2>2. pc \in 0 .. 6
    BY <2>1 DEF LogicAt
  <2>3. Named(Inst)
    BY <2>1, <2>2, LogicCode DEF Named, NativeOps, Ins
  <2>4. CASE pc \in {0, 1, 2}
    <3>1. UNCHANGED vars \/ \E w : PutsWord(Inst.r0, w) /\ (pc = 0 => w = 0)
      BY <1>3, <2>1, <2>3, <2>4, LogicCode, PutNext DEF Outcome, Ins
    <3> QED BY <1>1, <2>1, <2>4, <3>1, LogicCode DEF PutsWord, LogicInv, LogicAt, Ins
  <2>5. CASE pc \in {3, 5}
    <3>1. UNCHANGED vars \/ GoesOn
      BY <1>3, <2>1, <2>3, <2>5, LogicCode, DumpNext DEF Ins
    <3> QED BY <1>1, <2>1, <2>5, <3>1 DEF GoesOn, LogicInv, LogicAt
  <2>6. CASE pc = 4
    <3>1. UNCHANGED vars \/ PutsWord(0, AsFlag(iregisters[1] # 0 /\ iregisters[2] # 0))
      BY <1>3, <2>1, <2>3, <2>6, LogicCode, PutNext DEF Outcome, Ins
    <3> QED BY <1>1, <2>1, <2>6, <3>1 DEF PutsWord, LogicInv, LogicAt, AsFlag
  <2>7. CASE pc = 6
    <3>1. \/ UNCHANGED vars
          \/ status' = "halted" /\ accum_register' = iregisters[0] /\ iregisters' = iregisters
      BY <1>3, <2>1, <2>3, <2>7, LogicCode, EndNext DEF Ins, LogicAt
    <3> QED BY <1>1, <2>1, <2>7, <3>1 DEF LogicInv, LogicAt, Returned
  <2> QED BY <2>2, <2>4, <2>5, <2>6, <2>7
<1> QED BY <1>2, <1>3

LEMMA CountCode ==
  ASSUME program = inc_dec
  PROVE  /\ Len(program) = 9
         /\ \A k \in 1 .. 4 : program[k] = Ins("I_INC", 0, 0, 0, 0)
         /\ program[5] = Ins("I_REG_DUMP", 0, 0, 0, 0)
         /\ program[6] = Ins("I_DEC", 0, 0, 0, 0)
         /\ program[7] = Ins("I_DEC", 0, 0, 0, 0)
         /\ program[8] = Ins("I_REG_DUMP", 0, 0, 0, 0)
         /\ program[9] = Ins("I_RET", 0, 0, 0, 0)
<1>1. /\ Len(program) = 9
      /\ program[1] = Ins("I_INC", 0, 0, 0, 0) /\ program[2] = Ins("I_INC", 0, 0, 0, 0)
      /\ program[3] = Ins("I_INC", 0, 0, 0, 0) /\ program[4] = Ins("I_INC", 0, 0, 0, 0)
      /\ program[5] = Ins("I_REG_DUMP", 0, 0, 0, 0)
      /\ program[6] = Ins("I_DEC", 0, 0, 0, 0) /\ program[7] = Ins("I_DEC", 0, 0, 0, 0)
      /\ program[8] = Ins("I_REG_DUMP", 0, 0, 0, 0)
      /\ program[9] = Ins("I_RET", 0, 0, 0, 0)
  BY Encoded DEF inc_dec
<1> QED BY <1>1

\* It counts from the zero that it finds in $r0.
CountAt ==
  /\ pc \in 0 .. 8 /\ frames = 0
  /\ pc <= 4 => iregisters[0] = pc
  /\ pc = 5 => iregisters[0] = 4
  /\ pc = 6 => iregisters[0] = 3
  /\ pc >= 7 => iregisters[0] = 2

CountInv == IF status = "running" THEN CountAt ELSE Returned(2)

LEMMA CountNext ==
  ASSUME TypeOK, [Next]_vars, program = inc_dec, CountInv
  PROVE  CountInv'
<1>1. UNCHANGED vars => CountInv'
  BY DEF vars, regs, calls, stack, CountInv, CountAt, Returned
<1>2. CASE ~Executing
  BY <1>1, <1>2, EndedRests
<1>3. CASE Executing
  <2>1. status = "running" /\ CountAt /\ Inst = program[pc + 1]
    BY <1>3 DEF Executing, Inst, CountInv
  <2>2. pc \in 0 .. 8
    BY <2>1 DEF CountAt
  <2>3. Named(Inst)
    BY <2>1, <2>2, CountCode DEF Named, NativeOps, Ins
  <2>4. CASE pc \in 0 .. 3
    <3>1. Inst = Ins("I_INC", 0, 0, 0, 0)
      BY <2>1, <2>4, CountCode
    <3>2. UNCHANGED vars \/ PutsWord(0, (iregisters[0] + 1) % UINT_MOD)
      BY <1>3, <2>3, <3>1, PutNext DEF Outcome, Ins
    <3>3. (iregisters[0] + 1) % UINT_MOD = pc + 1
      BY <2>1, <2>4, SmallWords DEF CountAt
    <3> QED BY <1>1, <2>1, <2>4, <3>2, <3>3 DEF PutsWord, CountInv, CountAt
  <2>5. CASE pc \in {4, 7}
    <3>1. UNCHANGED vars \/ GoesOn
      BY <1>3, <2>1, <2>3, <2>5, CountCode, DumpNext DEF Ins
    <3> QED BY <1>1, <2>1, <2>5, <3>1 DEF GoesOn, CountInv, CountAt
  <2>6. CASE pc \in {5, 6}
    <3>1. UNCHANGED vars \/ PutsWord(0, (iregisters[0] - 1) % UINT_MOD)
      BY <1>3, <2>1, <2>3, <2>6, CountCode, PutNext DEF Outcome, Ins
    <3>2. iregisters[0] = 9 - pc /\ (iregisters[0] - 1) % UINT_MOD = 8 - pc
      BY <2>1, <2>6, SmallWords DEF CountAt
    <3> QED BY <1>1, <2>1, <2>6, <3>1, <3>2 DEF PutsWord, CountInv, CountAt
  <2>7. CASE pc = 8
    <3>1. UNCHANGED vars \/ (status' = "halted" /\ accum_register' = iregisters[0])
      BY <1>3, <2>1, <2>3, <2>7, CountCode, EndNext DEF Ins, CountAt
    <3> QED BY <1>1, <2>1, <2>7, <3>1 DEF CountInv, CountAt, Returned
  <2> QED BY <2>2, <2>4, <2>5, <2>6, <2>7
<1> QED BY <1>2, <1>3

-----------------------------------------------------------------------------
(***************************************************************************)
(* The program that prints.                                                *)
(***************************************************************************)

\* A word stored at the bottom of the stack leaves its text there.
LEMMA TextStored ==
  ASSUME NEW mem
  PROVE  /\ TextWord \in Nat
         /\ \A k \in 1 .. 4 : SaveWord(mem, 0, TextWord)[k - 1] = Text[k]
<1> DEFINE h2 == 3 + Radix * 1
           h1 == 2 + Radix * h2
           h0 == 3 + Radix * h1
<1>1. Radix \in Nat /\ Radix >= 4
  BY MachineAssumption, NativeTestsAssumption
<1>2. ASSUME NEW d \in {2, 3}, NEW n \in Nat
      PROVE  /\ d + Radix * n \in Nat
             /\ (d + Radix * n) % Radix = d /\ (d + Radix * n) \div Radix = n
  <2>1. d \in Byte
    BY <1>1 DEF Byte
  <2>2. Radix * n \in Nat
    BY <1>1
  <2> QED BY <2>1, <2>2, FrontDigit
<1>3. h2 \in Nat /\ h2 % Radix = 3 /\ h2 \div Radix = 1
  BY <1>2
<1>4. h1 \in Nat /\ h1 % Radix = 2 /\ h1 \div Radix = h2
  <2> HIDE DEF h2
  <2> QED BY <1>2, <1>3
<1>5. h0 \in Nat /\ h0 % Radix = 3 /\ h0 \div Radix = h1
  <2> HIDE DEF h1
  <2> QED BY <1>2, <1>4
<1>6. TextWord = h0
  <2>1. Text[1] = 3 /\ Text[2] = 2 /\ Text[3] = 3 /\ Text[4] = 1
    BY DEF Text
  <2> DEFINE bytes == [k \in 0 .. 3 |-> Text[k + 1]]
  <2>2. bytes[0] = 3 /\ bytes[0 + 1] = 2 /\ bytes[0 + 2] = 3 /\ bytes[0 + 3] = 1
    BY <2>1
  <2> HIDE DEF bytes
  <2>3. LoadWord(bytes, 0) = h0
    BY <2>2 DEF LoadWord
  <2> QED BY <2>3 DEF TextWord, bytes
<1>7. 1 % Radix = 1
  BY <1>1, WrapOnce
<1> HIDE DEF h0, h1, h2
<1>8. /\ ByteOf(TextWord, 0) = 3 /\ ByteOf(TextWord, 1) = 2
      /\ ByteOf(TextWord, 2) = 3 /\ ByteOf(TextWord, 3) = 1
  BY <1>3, <1>4, <1>5, <1>6, <1>7 DEF ByteOf
<1>9. \A b \in 0 .. 3 : b \in Address /\ b - 0 = b /\ b \in 0 .. 0 + WORD_BYTES - 1
  BY MachineAssumption DEF Address, WORD_BYTES
<1>10. \A b \in 0 .. 3 : SaveWord(mem, 0, TextWord)[b] = ByteOf(TextWord, b)
  BY <1>9 DEF SaveWord
<1>11. \A k \in 1 .. 4 : SaveWord(mem, 0, TextWord)[k - 1] = Text[k]
  BY <1>8, <1>10 DEF Text
<1> QED BY <1>5, <1>6, <1>11

LEMMA PrintCode ==
  ASSUME program = print
  PROVE  /\ Len(program) = 8
         /\ program[1] = Ins("I_SET", 0, 0, 0, 0)
         /\ program[2] = Ins("I_SET", 1, 0, 0, TextWord)
         /\ program[3] = Ins("I_DSAVE", 1, 0, 0, 0)
         /\ program[4] = Ins("I_SET", 0, 0, 0, 1)
         /\ program[5] = Ins("I_SET", 1, 0, 0, 0)
         /\ program[6] = Ins("I_SET", 2, 0, 0, 4)
         /\ program[7] = Ins("I_PRINT", 0, 0, 0, 0)
         /\ program[8] = Ins("I_RET", 1, 0, 0, 0)
  BY Encoded DEF print

TextWritten == \A k \in DOMAIN wrote.bytes : wrote.bytes[k] = Text[k]

PrintAt ==
  /\ pc \in 0 .. 7 /\ frames = 0
  /\ pc \in 1 .. 2 => iregisters[0] = 0
  /\ pc = 2 => iregisters[1] = TextWord
  /\ pc >= 3 => \A k \in 1 .. 4 : STACK[k - 1] = Text[k]
  /\ pc >= 5 => iregisters[1] = 0
  /\ pc >= 6 => iregisters[2] = 4
  /\ pc = 7 => TextWritten

PrintInv == IF status = "running" THEN PrintAt ELSE Returned(0) /\ TextWritten

LEMMA PrintNext ==
  ASSUME TypeOK, [Next]_vars, program = print, PrintInv
  PROVE  PrintInv'
<1>1. UNCHANGED vars => PrintInv'
  BY DEF vars, regs, calls, stack, PrintInv, PrintAt, Returned, TextWritten
<1>2. CASE ~Executing
  BY <1>1, <1>2, EndedRests
<1>3. CASE Executing
  <2>1. status = "running" /\ PrintAt /\ Inst = program[pc + 1]
    BY <1>3 DEF Executing, Inst, PrintInv
  <2>2. pc \in 0 .. 7
    BY <2>1 DEF PrintAt
  <2>3. Named(Inst)
    BY <2>1, <2>2, PrintCode DEF Named, NativeOps, Ins
  <2>4. CASE pc \in {0, 1, 3, 4, 5}
    <3>1. UNCHANGED vars \/ PutsWord(Inst.r0, Inst.imm)
      BY <1>3, <2>1, <2>3, <2>4, PrintCode, PutNext DEF Outcome, Ins
    <3> QED BY <1>1, <2>1, <2>4, <3>1, PrintCode DEF PutsWord, PrintInv, PrintAt, Ins
  <2>5. CASE pc = 2
    <3>1. /\ Inst.op = "I_DSAVE" /\ Inst.r0 = 1 /\ Inst.r1 = 0
          /\ iregisters[0] = 0 /\ iregisters[1] = TextWord
      BY <2>1, <2>5, PrintCode DEF Ins, PrintAt
    <3>2. WordAddress(Inst) = 0 /\ InStack(0)
      BY <3>1, MachineAssumption DEF WordAddress, InStack, WORD_BYTES
    <3>3. Defined(Inst)
      BY <2>3, <3>1, <3>2, NamedDefined
    <3>4. CASE Save
      <4>1. STACK' = SaveWord(STACK, 0, TextWord) /\ pc' = 3 /\ UNCHANGED <<status, frames>>
        BY <2>5, <3>1, <3>2, <3>4 DEF Save, Advance, calls
      <4> QED BY <2>1, <4>1, TextStored DEF PrintInv, PrintAt
    <3> QED BY <1>1, <1>3, <2>3, <3>1, <3>3, <3>4, NamedNext
  <2>6. CASE pc = 6
    <3>1. /\ Inst.op = "I_PRINT" /\ iregisters[1] = 0 /\ iregisters[2] = 4
          /\ \A k \in 1 .. 4 : STACK[k - 1] = Text[k]
      BY <2>1, <2>6, PrintCode DEF Ins, PrintAt
    <3>2. Defined(Inst)
      BY <2>3, <3>1, NamedDefined, MachineAssumption DEF WORD_BYTES
    <3>3. CASE Write
      <4>1. PICK r \in WriteResults(iregisters[2]) :
              /\ wrote' = [ret   |-> r,
                           bytes |-> [k \in 1 .. r |-> STACK[iregisters[1] + k - 1]]]
              /\ status' = IF r = 0 THEN "aborted" ELSE status
        BY <3>3 DEF Write
      <4>2. r \in {-1} \cup 1 .. 4
        BY <3>1, <4>1 DEF WriteResults
      <4>3. status' = status /\ wrote'.bytes = [k \in 1 .. r |-> STACK[0 + k - 1]]
        BY <3>1, <4>1, <4>2
      <4>4. \A k \in 1 .. r : k \in 1 .. 4 /\ 0 + k - 1 = k - 1
        BY <4>2
      <4>5. TextWritten'
        BY <3>1, <4>3, <4>4 DEF TextWritten, Text
      <4>6. pc' = 7 /\ UNCHANGED <<iregisters, frames, STACK>>
        BY <2>6, <3>3 DEF Write, Advance, regs, calls, stack
      <4> QED BY <2>1, <3>1, <4>3, <4>5, <4>6 DEF PrintInv, PrintAt
    <3> QED BY <1>1, <1>3, <2>3, <3>1, <3>2, <3>3, NamedNext
  <2>7. CASE pc = 7
    <3>1. \/ UNCHANGED vars
          \/ status' = "halted" /\ accum_register' = iregisters[1] /\ wrote' = wrote
      BY <1>3, <2>1, <2>3, <2>7, PrintCode, EndNext DEF Ins, PrintAt
    <3> QED BY <1>1, <2>1, <2>7, <3>1 DEF PrintInv, PrintAt, Returned, TextWritten
  <2> QED BY <2>2, <2>4, <2>5, <2>6, <2>7
<1> QED BY <1>2, <1>3

-----------------------------------------------------------------------------
(***************************************************************************)
(* The programs that call.                                                 *)
(***************************************************************************)

\* What calls and stacked words do.
LEMMA RecordNext ==
  ASSUME TypeOK, Executing, [Next]_vars, Named(Inst), Inst.op = "I_REC",
         frames < FRAME_COUNT
  PROVE  \/ UNCHANGED vars
         \/ /\ \A s \in 0 .. frames - 1 : frame_memory'[s] = frame_memory[s]
            /\ pc' = pc + 1
            /\ UNCHANGED <<program, status, iregisters, frames, stack_top, STACK, wrote>>
<1>1. Defined(Inst)
  BY NamedDefined
<1>2. SUFFICES ASSUME Record
               PROVE  /\ \A s \in 0 .. frames - 1 : frame_memory'[s] = frame_memory[s]
                      /\ pc' = pc + 1
                      /\ UNCHANGED <<program, status, iregisters, frames, stack_top, STACK,
                                     wrote>>
  BY <1>1, NamedNext
<1>3. frames \in Nat /\ frames <= FRAME_COUNT /\ DOMAIN frame_memory = Slot
  BY MachineAssumption DEF TypeOK
<1>4. \A s \in 0 .. frames - 1 : frame_memory'[s] = frame_memory[s]
  BY <1>2, <1>3 DEF Record, RecordSlot
<1> QED BY <1>2, <1>4 DEF Record, Advance, regs, stack

LEMMA CallNext ==
  ASSUME TypeOK, Executing, [Next]_vars, Named(Inst), Inst.op = "I_CALL",
         frames < FRAME_COUNT, Inst.imm \in 0 .. 127
  PROVE  \/ UNCHANGED vars
         \/ /\ frames' = frames + 1
            /\ \A s \in 0 .. frames : frame_memory'[s].rip = IF s = frames THEN pc + 2
                                                             ELSE frame_memory[s].rip
            /\ pc' = Inst.imm
            /\ UNCHANGED <<program, status, iregisters, stack_top, STACK, wrote>>
<1>1. Defined(Inst)
  BY NamedDefined
<1>2. SUFFICES ASSUME Call
               PROVE  /\ frames' = frames + 1
                      /\ \A s \in 0 .. frames :
                           frame_memory'[s].rip = IF s = frames THEN pc + 2
                                                  ELSE frame_memory[s].rip
                      /\ pc' = Inst.imm
                      /\ UNCHANGED <<program, status, iregisters, stack_top, STACK, wrote>>
  BY <1>1, NamedNext
<1>3. 0 .. frames \subseteq Slot /\ DOMAIN frame_memory = Slot
  BY MachineAssumption DEF TypeOK, Slot
<1>4. \A s \in 0 .. frames : frame_memory'[s].rip = IF s = frames THEN pc + 2
                                                    ELSE frame_memory[s].rip
  BY <1>2, <1>3 DEF Call, ResumePoint
<1>5. SIZE_MOD \in Nat /\ SIZE_MOD >= 256 /\ UINT_MOD \div 2 \in Nat /\ UINT_MOD \div 2 >= 128
  BY Moduli, SmallWords
<1>6. ASSUME NEW n \in 0 .. 127 PROVE AsInt(n) = n /\ n % SIZE_MOD = n
  <2>1. n < UINT_MOD \div 2
    BY <1>5
  <2>2. n < SIZE_MOD /\ n \in 0 .. 2 * SIZE_MOD - 1
    BY <1>5
  <2>3. n % SIZE_MOD = n
    BY <1>5, <2>2, WrapOnce
  <2> QED BY <2>1, <2>3 DEF AsInt
<1> QED BY <1>2, <1>4, <1>6 DEF Call, IntToSize, regs, stack

LEMMA BackNext ==
  ASSUME TypeOK, Executing, [Next]_vars, Named(Inst), Inst.op = "I_RET", frames > 0
  PROVE  \/ UNCHANGED vars
         \/ /\ frames' = frames - 1
            /\ \A s \in 0 .. frames - 2 : frame_memory'[s] = frame_memory[s]
            /\ pc' = frame_memory[frames - 1].rip - 1
            /\ UNCHANGED <<program, status, iregisters, stack_top, STACK, wrote>>
<1>1. Defined(Inst)
  BY NamedDefined
<1>2. SUFFICES ASSUME Return
               PROVE  /\ frames' = frames - 1
                      /\ \A s \in 0 .. frames - 2 : frame_memory'[s] = frame_memory[s]
                      /\ pc' = frame_memory[frames - 1].rip - 1
                      /\ UNCHANGED <<program, status, iregisters, stack_top, STACK, wrote>>
  BY <1>1, NamedNext
<1>3. frames \in Nat
  BY MachineAssumption DEF TypeOK
<1>4. \A s \in 0 .. frames - 2 : frame_memory'[s] = frame_memory[s]
  BY <1>2, <1>3 DEF Return, FramesAfterReturn
<1> QED BY <1>2, <1>4 DEF Return, stack

\* A word goes on top, and the words below stay; ...
LEMMA PushNext ==
  ASSUME TypeOK, Executing, [Next]_vars, Named(Inst), Inst.op = "I_PUSH",
         stack_top \in {0, 4}
  PROVE  \/ UNCHANGED vars
         \/ /\ stack_top' = stack_top + 4
            /\ LoadWord(STACK', stack_top + 4) = iregisters[Inst.r0]
            /\ stack_top = 4 => LoadWord(STACK', 4) = LoadWord(STACK, 4)
            /\ pc' = pc + 1
            /\ UNCHANGED <<program, status, iregisters, frames, frame_memory, wrote>>
<1>1. STACK_SIZE \in Nat /\ STACK_SIZE >= 12 /\ WORD_BYTES = 4
  BY MachineAssumption, NativeTestsAssumption DEF WORD_BYTES
<1>2. SIZE_MOD \in Nat /\ SIZE_MOD >= 256
  BY Moduli, SmallWords
<1>3. WordAddress(Inst) = stack_top + 4
  BY <1>1, <1>2 DEF WordAddress
<1>4. stack_top + 4 \in 0 .. STACK_SIZE - WORD_BYTES /\ InStack(stack_top + 4)
  BY <1>1 DEF InStack
<1>5. Defined(Inst)
  BY <1>3, <1>4, NamedDefined
<1>6. SUFFICES ASSUME Push
               PROVE  /\ stack_top' = stack_top + 4
                      /\ LoadWord(STACK', stack_top + 4) = iregisters[Inst.r0]
                      /\ stack_top = 4 => LoadWord(STACK', 4) = LoadWord(STACK, 4)
                      /\ pc' = pc + 1
                      /\ UNCHANGED <<program, status, iregisters, frames, frame_memory, wrote>>
  BY <1>5, NamedNext
<1>7. STACK' = SaveWord(STACK, stack_top + 4, iregisters[Inst.r0])
  BY <1>3, <1>6 DEF Push
<1>8. STACK \in [Address -> Byte] /\ iregisters[Inst.r0] \in Word
  BY MachineAssumption, NativeTestsAssumption DEF TypeOK, Named, IntReg
<1>9. LoadWord(STACK', stack_top + 4) = iregisters[Inst.r0]
  BY <1>4, <1>7, <1>8, LoadSaved
<1>10. stack_top = 4 => LoadWord(STACK', 4) = LoadWord(STACK, 4)
  BY <1>1, <1>4, <1>7, <1>8, LoadBeside
<1> QED BY <1>3, <1>6, <1>9, <1>10 DEF Push, Advance, regs, calls

\* ... and it comes off again.
LEMMA PopNext ==
  ASSUME TypeOK, Executing, [Next]_vars, Named(Inst), Inst.op = "I_POP",
         stack_top \in {4, 8}
  PROVE  \/ UNCHANGED vars
         \/ /\ \A s \in 0 .. 3 : iregisters'[s] = IF s = Inst.r0 THEN LoadWord(STACK, stack_top)
                                                  ELSE iregisters[s]
            /\ stack_top' = stack_top - 4
            /\ pc' = pc + 1
            /\ UNCHANGED <<program, status, frames, frame_memory, STACK, wrote>>
<1>1. STACK_SIZE \in Nat /\ STACK_SIZE >= 12 /\ WORD_BYTES = 4
  BY MachineAssumption, NativeTestsAssumption DEF WORD_BYTES
<1>2. SIZE_MOD \in Nat /\ SIZE_MOD >= 256
  BY Moduli, SmallWords
<1>3. WordAddress(Inst) = stack_top /\ InStack(stack_top)
  BY <1>1 DEF WordAddress, InStack
<1>4. Defined(Inst)
  BY <1>3, NamedDefined
<1>5. SUFFICES ASSUME Pop
               PROVE  /\ \A s \in 0 .. 3 :
                           iregisters'[s] = IF s = Inst.r0 THEN LoadWord(STACK, stack_top)
                                            ELSE iregisters[s]
                      /\ stack_top' = stack_top - 4
                      /\ pc' = pc + 1
                      /\ UNCHANGED <<program, status, frames, frame_memory, STACK, wrote>>
  BY <1>4, NamedNext
<1>6. stack_top' = stack_top - 4
  BY <1>1, <1>2, <1>5 DEF Pop, TopAfterPop
<1>7. 0 .. 3 \subseteq IntReg /\ DOMAIN iregisters = IntReg
  BY NativeTestsAssumption, MachineAssumption DEF IntReg, TypeOK
<1>8. \A s \in 0 .. 3 : iregisters'[s] = IF s = Inst.r0 THEN LoadWord(STACK, stack_top)
                                         ELSE iregisters[s]
  BY <1>3, <1>5, <1>7 DEF Pop, PutWord
<1> QED BY <1>5, <1>6, <1>8 DEF Pop, Advance, calls

LEMMA FunctionCode ==
  ASSUME program = function_call
  PROVE  /\ Len(program) = 12
         /\ program[1] = Ins("I_SET", 0, 0, 0, 44)
         /\ program[2] = Ins("I_SET", 1, 0, 0, 22)
         /\ program[3] = Ins("I_REC", 0, 0, 0, 0)
         /\ program[4] = Ins("I_PUSH", 0, 0, 0, 0)
         /\ program[5] = Ins("I_PUSH", 1, 0, 0, 0)
         /\ program[6] = Ins("I_CALL", 0, 0, 0, 7)
         /\ program[7] = Ins("I_RET", 0, 0, 0, 0)
         /\ program[8] = Ins("I_POP", 0, 0, 0, 0)
         /\ program[9] = Ins("I_POP", 1, 0, 0, 0)
         /\ program[10] = Ins("I_ADD", 0, 0, 1, 0)
         /\ program[11] = Ins("I_REG_DUMP", 0, 0, 0, 0)
         /\ program[12] = Ins("I_RET", 0, 0, 0, 0)
  BY Encoded DEF function_call

\* The function at 7 takes its two arguments from the stack.
FunctionAt ==
  /\ pc \in 0 .. 11
  /\ pc <= 6 => frames = 0
  /\ pc >= 7 => frames = 1 /\ frame_memory[0].rip = 7
  /\ pc <= 3 => stack_top = 0
  /\ pc \in {4, 8} => stack_top = 4
  /\ pc \in {5, 7} => stack_top = 8
  /\ pc \in 1 .. 3 => iregisters[0] = 44
  /\ pc \in 2 .. 4 => iregisters[1] = 22
  /\ pc \in {4, 5, 7, 8} => LoadWord(STACK, 4) = 44
  /\ pc \in {5, 7} => LoadWord(STACK, 8) = 22
  /\ pc \in 8 .. 9 => iregisters[0] = 22
  /\ pc = 9 => iregisters[1] = 44
  /\ pc \in {6, 10, 11} => iregisters[0] = 66

FunctionInv == IF status = "running" THEN FunctionAt ELSE Returned(66)

LEMMA FunctionNext ==
  ASSUME TypeOK, [Next]_vars, program = function_call, FunctionInv
  PROVE  FunctionInv'
<1>1. UNCHANGED vars => FunctionInv'
  BY DEF vars, regs, calls, stack, FunctionInv, FunctionAt, Returned
<1>2. CASE ~Executing
  BY <1>1, <1>2, EndedRests
<1>3. CASE Executing
  <2>1. status = "running" /\ FunctionAt /\ Inst = program[pc + 1]
    BY <1>3 DEF Executing, Inst, FunctionInv
  <2>2. pc \in 0 .. 11
    BY <2>1 DEF FunctionAt
  <2>3. Named(Inst)
    BY <2>1, <2>2, FunctionCode DEF Named, NativeOps, Ins
  <2>4. FRAME_COUNT \in Nat /\ FRAME_COUNT >= 5
    BY MachineAssumption, NativeTestsAssumption
  <2>5. CASE pc \in {0, 1}
    <3>1. UNCHANGED vars \/ PutsWord(Inst.r0, Inst.imm)
      BY <1>3, <2>1, <2>3, <2>5, FunctionCode, PutNext DEF Outcome, Ins
    <3> QED BY <1>1, <2>1, <2>5, <3>1, FunctionCode DEF PutsWord, FunctionInv, FunctionAt, Ins
  <2>6. CASE pc = 2
    <3>1. Inst.op = "I_REC" /\ frames = 0 /\ frames < FRAME_COUNT
      BY <2>1, <2>4, <2>6, FunctionCode DEF Ins, FunctionAt
    <3> QED BY <1>1, <1>3, <2>1, <2>3, <2>6, <3>1, RecordNext DEF FunctionInv, FunctionAt
  <2>7. CASE pc \in {3, 4}
    <3>1. Inst.op = "I_PUSH" /\ Inst.r0 = pc - 3 /\ stack_top \in {0, 4}
      BY <2>1, <2>7, FunctionCode DEF Ins, FunctionAt
    <3> QED BY <1>1, <1>3, <2>1, <2>3, <2>7, <3>1, PushNext DEF FunctionInv, FunctionAt
  <2>8. CASE pc = 5
    <3>1. Inst.op = "I_CALL" /\ Inst.imm = 7 /\ frames = 0 /\ frames < FRAME_COUNT
      BY <2>1, <2>4, <2>8, FunctionCode DEF Ins, FunctionAt
    <3>2. Inst.imm \in 0 .. 127
      BY <3>1
    <3>3. \/ UNCHANGED vars
          \/ /\ frames' = 1 /\ pc' = 7 /\ frame_memory'[0].rip = 7
             /\ UNCHANGED <<status, iregisters, stack_top, STACK>>
      BY <1>3, <2>3, <2>8, <3>1, <3>2, CallNext
    <3> QED BY <1>1, <2>1, <2>8, <3>3 DEF FunctionInv, FunctionAt
  <2>9. CASE pc \in {7, 8}
    <3>1. Inst.op = "I_POP" /\ Inst.r0 = pc - 7 /\ stack_top \in {4, 8}
      BY <2>1, <2>9, FunctionCode DEF Ins, FunctionAt
    <3> QED BY <1>1, <1>3, <2>1, <2>3, <2>9, <3>1, PopNext DEF FunctionInv, FunctionAt
  <2>10. CASE pc = 9
    <3>1. UNCHANGED vars \/ PutsWord(0, (iregisters[0] + iregisters[1]) % UINT_MOD)
      BY <1>3, <2>1, <2>3, <2>10, FunctionCode, PutNext DEF Outcome, Ins
    <3>2. (iregisters[0] + iregisters[1]) % UINT_MOD = 66
      BY <2>1, <2>10, SmallWords DEF FunctionAt
    <3> QED BY <1>1, <2>1, <2>10, <3>1, <3>2 DEF PutsWord, FunctionInv, FunctionAt
  <2>11. CASE pc = 10
    <3>1. UNCHANGED vars \/ GoesOn
      BY <1>3, <2>1, <2>3, <2>11, FunctionCode, DumpNext DEF Ins
    <3> QED BY <1>1, <2>1, <2>11, <3>1 DEF GoesOn, FunctionInv, FunctionAt
  <2>12. CASE pc = 11
    <3>1. Inst.op = "I_RET" /\ frames = 1 /\ frame_memory[0].rip = 7 /\ frames > 0
      BY <2>1, <2>12, FunctionCode DEF Ins, FunctionAt
    <3>2. \/ UNCHANGED vars
          \/ frames' = 0 /\ pc' = 6 /\ UNCHANGED <<status, iregisters>>
      BY <1>3, <2>3, <3>1, BackNext
    <3> QED BY <1>1, <2>1, <2>12, <3>2 DEF FunctionInv, FunctionAt
  <2>13. CASE pc = 6
    <3>1. UNCHANGED vars \/ (status' = "halted" /\ accum_register' = iregisters[0])
      BY <1>3, <2>1, <2>3, <2>13, FunctionCode, EndNext DEF Ins, FunctionAt
    <3> QED BY <1>1, <2>1, <2>13, <3>1 DEF FunctionInv, FunctionAt, Returned
  <2> QED BY <2>2, <2>5, <2>6, <2>7, <2>8, <2>9, <2>10, <2>11, <2>12, <2>13
<1> QED BY <1>2, <1>3

LEMMA RecursionCode ==
  ASSUME program = recursive_function_call
  PROVE  /\ Len(program) = 16
         /\ program[1] = Ins("I_SET", 0, 0, 0, 0)
         /\ program[2] = Ins("I_REC", 0, 0, 0, 0)
         /\ program[3] = Ins("I_PUSH", 0, 0, 0, 0)
         /\ program[4] = Ins("I_CALL", 0, 0, 0, 5)
         /\ program[5] = Ins("I_RET", 0, 0, 0, 0)
         /\ program[6] = Ins("I_POP", 0, 0, 0, 0)
         /\ program[7] = Ins("I_SET", 1, 0, 0, 1)
         /\ program[8] = Ins("I_SET", 2, 0, 0, 5)
         /\ program[9] = Ins("I_ADD", 0, 0, 1, 0)
         /\ program[10] = Ins("I_REG_DUMP", 0, 0, 0, 0)
         /\ program[11] = Ins("I_NEJMP", 0, 2, 0, 12)
         /\ program[12] = Ins("I_RET", 0, 0, 0, 0)
         /\ program[13] = Ins("I_REC", 0, 0, 0, 0)
         /\ program[14] = Ins("I_PUSH", 0, 0, 0, 0)
         /\ program[15] = Ins("I_CALL", 0, 0, 0, 5)
         /\ program[16] = Ins("I_RET", 0, 0, 0, 0)
  BY Encoded DEF recursive_function_call

\* The function at 5 takes the number of the calls around it from the stack, and calls
\* itself unless five are in progress, the outermost from 3 and the others from 14.
FramesOfCalls ==
  \A s \in 0 .. frames - 1 : frame_memory[s].rip = IF s = 0 THEN 5 ELSE 16

RecursionAt ==
  /\ pc \in 0 .. 15 /\ frames \in 0 .. 5
  /\ FramesOfCalls
  /\ pc <= 4 <=> frames = 0
  /\ pc \in {0, 1, 2, 6, 7, 8, 9, 10, 12, 13} => stack_top = 0
  /\ pc \in {3, 5, 14} => stack_top = 4
  /\ pc \in {3, 14} => LoadWord(STACK, 4) = frames
  /\ pc = 5 => LoadWord(STACK, 4) = frames - 1
  /\ pc \in 1 .. 3 => iregisters[0] = 0
  /\ pc \in 6 .. 8 => iregisters[0] = frames - 1
  /\ pc \in 7 .. 8 => iregisters[1] = 1
  /\ pc \in 8 .. 10 => iregisters[2] = 5
  /\ pc \in 9 .. 14 => iregisters[0] = frames
  /\ pc >= 12 => frames <= 4
  /\ pc = 11 => frames = 5
  /\ pc \in {4, 15} => iregisters[0] = 5

RecursionInv == IF status = "running" THEN RecursionAt ELSE Returned(5)

LEMMA RecursionNext ==
  ASSUME TypeOK, [Next]_vars, program = recursive_function_call, RecursionInv
  PROVE  RecursionInv'
<1>1. UNCHANGED vars => RecursionInv'
  BY DEF vars, regs, calls, stack, RecursionInv, RecursionAt, FramesOfCalls, Returned
<1>2. CASE ~Executing
  BY <1>1, <1>2, EndedRests
<1>3. CASE Executing
  <2>1. status = "running" /\ RecursionAt /\ Inst = program[pc + 1]
    BY <1>3 DEF Executing, Inst, RecursionInv
  <2>2. pc \in 0 .. 15 /\ frames \in 0 .. 5
    BY <2>1 DEF RecursionAt, FramesOfCalls
  <2>3. Named(Inst)
    BY <2>1, <2>2, RecursionCode DEF Named, NativeOps, Ins
  <2>4. FRAME_COUNT \in Nat /\ FRAME_COUNT >= 5
    BY MachineAssumption, NativeTestsAssumption
  <2>5. CASE pc \in {0, 6, 7}
    <3>1. UNCHANGED vars \/ PutsWord(Inst.r0, Inst.imm)
      BY <1>3, <2>1, <2>3, <2>5, RecursionCode, PutNext DEF Outcome, Ins
    <3> QED BY <1>1, <2>1, <2>5, <3>1, RecursionCode
            DEF PutsWord, RecursionInv, RecursionAt, FramesOfCalls, Ins
  <2>6. CASE pc \in {1, 12}
    <3>1. Inst.op = "I_REC" /\ frames < FRAME_COUNT
      BY <2>1, <2>4, <2>6, RecursionCode DEF Ins, RecursionAt, FramesOfCalls
    <3>2. \/ UNCHANGED vars
          \/ /\ \A s \in 0 .. frames - 1 : frame_memory'[s] = frame_memory[s]
             /\ pc' = pc + 1
             /\ UNCHANGED <<status, iregisters, frames, stack_top>>
      BY <1>3, <2>3, <3>1, RecordNext
    <3> QED BY <1>1, <2>1, <2>6, <3>2 DEF RecursionInv, RecursionAt, FramesOfCalls
  <2>7. CASE pc \in {2, 13}
    <3>1. Inst.op = "I_PUSH" /\ Inst.r0 = 0 /\ stack_top = 0
      BY <2>1, <2>7, RecursionCode DEF Ins, RecursionAt, FramesOfCalls
    <3>2. \/ UNCHANGED vars
          \/ /\ stack_top' = 4 /\ LoadWord(STACK', 4) = iregisters[0] /\ pc' = pc + 1
             /\ UNCHANGED <<status, iregisters, frames, frame_memory>>
      BY <1>3, <2>3, <3>1, PushNext
    <3> QED BY <1>1, <2>1, <2>7, <3>2 DEF RecursionInv, RecursionAt, FramesOfCalls
  <2>8. CASE pc \in {3, 14}
    <3>1. Inst.op = "I_CALL" /\ Inst.imm = 5 /\ frames < 5 /\ frames < FRAME_COUNT
      BY <2>1, <2>2, <2>4, <2>8, RecursionCode DEF Ins, RecursionAt, FramesOfCalls
    <3>2. Inst.imm \in 0 .. 127
      BY <3>1
    <3>3. \/ UNCHANGED vars
          \/ /\ frames' = frames + 1 /\ pc' = 5
             /\ \A s \in 0 .. frames : frame_memory'[s].rip = IF s = frames THEN pc + 2
                                                              ELSE frame_memory[s].rip
             /\ UNCHANGED <<status, iregisters, stack_top, STACK>>
      BY <1>3, <2>3, <3>1, <3>2, CallNext
    <3>4. pc + 2 = IF frames = 0 THEN 5 ELSE 16
      BY <2>1, <2>8 DEF RecursionAt, FramesOfCalls
    <3>5. SUFFICES ASSUME ~UNCHANGED vars PROVE RecursionInv'
      BY <1>1
    <3>6. FramesOfCalls'
      BY <2>1, <2>2, <3>3, <3>4, <3>5 DEF RecursionAt, FramesOfCalls
    <3> QED BY <2>1, <2>2, <2>8, <3>1, <3>3, <3>5, <3>6 DEF RecursionInv, RecursionAt
  <2>9. CASE pc = 5
    <3>1. Inst.op = "I_POP" /\ Inst.r0 = 0 /\ stack_top = 4 /\ LoadWord(STACK, 4) = frames - 1
      BY <2>1, <2>9, RecursionCode DEF Ins, RecursionAt, FramesOfCalls
    <3>2. \/ UNCHANGED vars
          \/ /\ iregisters'[0] = frames - 1 /\ stack_top' = 0 /\ pc' = 6
             /\ UNCHANGED <<status, frames, frame_memory>>
      BY <1>3, <2>3, <2>9, <3>1, PopNext
    <3> QED BY <1>1, <2>1, <2>9, <3>2 DEF RecursionInv, RecursionAt, FramesOfCalls
  <2>10. CASE pc = 8
    <3>1. UNCHANGED vars \/ PutsWord(0, (iregisters[0] + iregisters[1]) % UINT_MOD)
      BY <1>3, <2>1, <2>3, <2>10, RecursionCode, PutNext DEF Outcome, Ins
    <3>2. iregisters[0] + iregisters[1] = frames
      BY <2>1, <2>2, <2>10 DEF RecursionAt, FramesOfCalls
    <3>3. (iregisters[0] + iregisters[1]) % UINT_MOD = frames
      BY <2>2, <3>2, SmallWords
    <3> QED BY <1>1, <2>1, <2>10, <3>1, <3>3 DEF PutsWord, RecursionInv, RecursionAt, FramesOfCalls
  <2>11. CASE pc = 9
    <3>1. UNCHANGED vars \/ GoesOn
      BY <1>3, <2>1, <2>3, <2>11, RecursionCode, DumpNext DEF Ins
    <3> QED BY <1>1, <2>1, <2>11, <3>1 DEF GoesOn, RecursionInv, RecursionAt, FramesOfCalls
  <2>12. CASE pc = 10
    <3>1. \/ UNCHANGED vars
          \/ /\ pc' = IF iregisters[2] # iregisters[0] THEN 12 ELSE 11
             /\ UNCHANGED <<status, iregisters, frames, frame_memory, stack_top>>
      BY <1>3, <2>1, <2>3, <2>12, RecursionCode, JumpNext DEF Ins
    <3> QED BY <1>1, <2>1, <2>2, <2>12, <3>1 DEF RecursionInv, RecursionAt, FramesOfCalls
  <2>13. CASE pc \in {11, 15}
    <3>1. Inst.op = "I_RET" /\ frames > 0 /\ iregisters[0] = 5
      BY <2>1, <2>2, <2>13, RecursionCode DEF Ins, RecursionAt, FramesOfCalls
    <3>2. \/ UNCHANGED vars
          \/ /\ frames' = frames - 1
             /\ \A s \in 0 .. frames - 2 : frame_memory'[s] = frame_memory[s]
             /\ pc' = frame_memory[frames - 1].rip - 1
             /\ UNCHANGED <<status, iregisters>>
      BY <1>3, <2>3, <3>1, BackNext
    <3>3. frame_memory[frames - 1].rip = IF frames = 1 THEN 5 ELSE 16
      BY <2>1, <2>2, <3>1 DEF RecursionAt, FramesOfCalls
    <3>4. SUFFICES ASSUME ~UNCHANGED vars PROVE RecursionInv'
      BY <1>1
    <3>5. /\ pc' \in {4, 15} /\ (pc' = 4 <=> frames' = 0) /\ frames' \in 0 .. 4
          /\ status' = "running" /\ iregisters'[0] = 5
      BY <2>1, <2>2, <3>1, <3>2, <3>3, <3>4
    <3>6. FramesOfCalls'
      BY <2>1, <2>2, <3>2, <3>4 DEF RecursionAt, FramesOfCalls
    <3> QED BY <3>5, <3>6 DEF RecursionInv, RecursionAt
  <2>14. CASE pc = 4
    <3>1. UNCHANGED vars \/ (status' = "halted" /\ accum_register' = iregisters[0])
      BY <1>3, <2>1, <2>3, <2>14, RecursionCode, EndNext DEF Ins, RecursionAt, FramesOfCalls
    <3> QED BY <1>1, <2>1, <2>14, <3>1 DEF RecursionInv, RecursionAt, FramesOfCalls, Returned
  <2> QED BY <2>2, <2>5, <2>6, <2>7, <2>8, <2>9, <2>10, <2>11, <2>12, <2>13, <2>14
<1> QED BY <1>2, <1>3

-----------------------------------------------------------------------------
(***************************************************************************)
(* The program that casts.                                                 *)
(***************************************************************************)
LEMMA CastCode ==
  ASSUME program = casting_float_to_int
  PROVE  /\ Len(program) = 5
         /\ program[1] = Ins("I_FSET", 0, 0, 0, TenAndAHalf)
         /\ program[2] = Ins("I_FSET", 1, 0, 0, TenAndAHalf)
         /\ program[3] = Ins("I_FADD", 0, 0, 1, 0)
         /\ program[4] = Ins("I_CF2I", 1, 0, 0, 0)
         /\ program[5] = Ins("I_RET", 1, 0, 0, 0)
  BY Encoded DEF casting_float_to_int

CastAt ==
  /\ pc \in 0 .. 4 /\ frames = 0
  /\ pc \in 1 .. 2 => fregisters[0] = TenAndAHalf
  /\ pc = 2 => fregisters[1] = TenAndAHalf
  /\ pc = 3 => fregisters[0] = FloatArith("I_FADD", TenAndAHalf, TenAndAHalf)
  /\ pc = 4 => iregisters[1] = 21

CastInv == IF status = "running" THEN CastAt ELSE Returned(21)

LEMMA CastNext ==
  ASSUME TypeOK, [Next]_vars, program = casting_float_to_int, CastInv
  PROVE  CastInv'
<1>1. UNCHANGED vars => CastInv'
  BY DEF vars, regs, calls, stack, CastInv, CastAt, Returned
<1>2. CASE ~Executing
  BY <1>1, <1>2, EndedRests
<1>3. CASE Executing
  <2>1. status = "running" /\ CastAt /\ Inst = program[pc + 1]
    BY <1>3 DEF Executing, Inst, CastInv
  <2>2. pc \in 0 .. 4
    BY <2>1 DEF CastAt
  <2>3. Named(Inst)
    BY <2>1, <2>2, CastCode DEF Named, NativeOps, Ins
  <2>4. {0, 1} \subseteq DOMAIN fregisters /\ 1 \in DOMAIN iregisters
    BY MachineAssumption, NativeTestsAssumption DEF TypeOK, FltReg, IntReg
  <2>5. CASE pc \in {0, 1, 2}
    <3>1. Inst.op \in {"I_FSET", "I_FADD"} /\ Defined(Inst)
      BY <2>1, <2>3, <2>5, CastCode, NamedDefined DEF Ins
    <3>2. CASE ComputeFloat
      <4>1. /\ fregisters' = [fregisters EXCEPT ![Inst.r0] = FloatResult] /\ pc' = pc + 1
            /\ UNCHANGED <<status, frames>>
        BY <3>2 DEF ComputeFloat, PutFloat, Advance, calls
      <4>2. FloatResult = IF pc = 2 THEN FloatArith("I_FADD", TenAndAHalf, TenAndAHalf)
                          ELSE TenAndAHalf
        BY <2>1, <2>5, CastCode DEF FloatResult, Ins, CastAt, ToFloatOps, FloatArithOps
      <4>3. Inst.r0 = IF pc = 1 THEN 1 ELSE 0
        BY <2>1, <2>5, CastCode DEF Ins
      <4> QED BY <2>1, <2>4, <2>5, <4>1, <4>2, <4>3 DEF CastInv, CastAt
    <3> QED BY <1>1, <1>3, <2>3, <3>1, <3>2, NamedNext
  <2>6. CASE pc = 3
    <3>1. Inst.op = "I_CF2I" /\ Inst.r0 = 1 /\ Inst.r1 = 0 /\ Defined(Inst)
      BY <2>1, <2>3, <2>6, CastCode, NamedDefined DEF Ins
    <3>2. CASE CastFloat
      <4>1. PICK w \in FromFloat(Inst.op, fregisters[Inst.r1]) : PutWord(w)
        BY <3>2 DEF CastFloat
      <4>2. w = 21
        BY <2>1, <2>6, <3>1, <4>1, NativeTestsAssumption DEF CastAt
      <4>3. iregisters'[1] = 21
        BY <2>4, <3>1, <4>1, <4>2 DEF PutWord
      <4> QED BY <2>1, <2>6, <3>2, <4>3 DEF CastFloat, Advance, calls, CastInv, CastAt
    <3> QED BY <1>1, <1>3, <2>3, <3>1, <3>2, NamedNext
  <2>7. CASE pc = 4
    <3>1. UNCHANGED vars \/ (status' = "halted" /\ accum_register' = iregisters[1])
      BY <1>3, <2>1, <2>3, <2>7, CastCode, EndNext DEF Ins, CastAt
    <3> QED BY <1>1, <2>1, <2>7, <3>1 DEF CastInv, CastAt, Returned
  <2> QED BY <2>2, <2>5, <2>6, <2>7
<1> QED BY <1>2, <1>3

-----------------------------------------------------------------------------
(***************************************************************************)
(* The tests, one after the other.                                         *)
(***************************************************************************)

\* The running test finds a zero in $r0, from the loader or from and_or.
FromZero == i = 1 \/ list[i - 1].program = and_or

\* Where each program is, whatever the registers and the stack held when it started;
\* inc_dec alone depends on that.
ProgramsInv ==
  /\ program = simple_loop => LoopInv
  /\ program = and_or => LogicInv
  /\ program = inc_dec /\ FromZero => CountInv
  /\ program = print => PrintInv
  /\ program = function_call => FunctionInv
  /\ program = recursive_function_call => RecursionInv
  /\ program = casting_float_to_int => CastInv

TestsInv == i \in DOMAIN list => program = list[i].program /\ ProgramsInv

\* A program starts where its invariant holds.
LEMMA ProgramStarts ==
  ASSUME pc = 0, status = "running", frames = 0, stack_top = 0,
         FromZero /\ program = inc_dec => iregisters[0] = 0
  PROVE  ProgramsInv
<1>1. LoopInv /\ LogicInv /\ PrintInv /\ CastInv /\ FunctionInv
  BY DEF LoopInv, LoopAt, LogicInv, LogicAt, PrintInv, PrintAt, CastInv, CastAt, FunctionInv,
         FunctionAt
<1>2. RecursionInv
  BY DEF RecursionInv, RecursionAt, FramesOfCalls
<1>3. program = inc_dec /\ FromZero => CountInv
  BY DEF CountInv, CountAt
<1> QED BY <1>1, <1>2, <1>3 DEF ProgramsInv

\* And keeps it.
LEMMA ProgramGoesOn ==
  ASSUME TypeOK, [Next]_vars, ProgramsInv, UNCHANGED testerVars
  PROVE  ProgramsInv'
<1>1. program' = program /\ (FromZero' <=> FromZero)
  BY ProgramKept DEF testerVars, FromZero
<1>2. program = simple_loop => LoopInv'
  BY LoopNext DEF ProgramsInv
<1>3. program = and_or => LogicInv'
  BY LogicNext DEF ProgramsInv
<1>4. program = inc_dec /\ FromZero => CountInv'
  BY CountNext DEF ProgramsInv
<1>5. program = print => PrintInv'
  BY PrintNext DEF ProgramsInv
<1>6. program = function_call => FunctionInv'
  BY FunctionNext DEF ProgramsInv
<1>7. program = recursive_function_call => RecursionInv'
  BY RecursionNext DEF ProgramsInv
<1>8. program = casting_float_to_int => CastInv'
  BY CastNext DEF ProgramsInv
<1>9. /\ simple_loop' = simple_loop /\ and_or' = and_or /\ inc_dec' = inc_dec
      /\ print' = print /\ function_call' = function_call
      /\ recursive_function_call' = recursive_function_call
      /\ casting_float_to_int' = casting_float_to_int
  OBVIOUS
<1> QED BY <1>1, <1>2, <1>3, <1>4, <1>5, <1>6, <1>7, <1>8, <1>9 DEF ProgramsInv

\* When a program has ended, it is not because its counter has left it.
LEMMA ProgramEnds ==
  ASSUME ~Executing, ProgramsInv
  PROVE  /\ program = simple_loop => Returned(10)
         /\ program = and_or => Returned(0) /\ iregisters[0] = 0
         /\ program = inc_dec /\ FromZero => Returned(2)
         /\ program = print => Returned(0) /\ TextWritten
         /\ program = function_call => Returned(66)
         /\ program = recursive_function_call => Returned(5)
         /\ program = casting_float_to_int => Returned(21)
<1>1. status = "running" => ~(pc < Len(program))
  BY DEF Executing
<1>2. program = simple_loop => Returned(10)
  BY <1>1, LoopCode DEF ProgramsInv, LoopInv, LoopAt
<1>3. program = and_or => Returned(0) /\ iregisters[0] = 0
  BY <1>1, LogicCode DEF ProgramsInv, LogicInv, LogicAt
<1>4. program = inc_dec /\ FromZero => Returned(2)
  BY <1>1, CountCode DEF ProgramsInv, CountInv, CountAt
<1>5. ASSUME program = print PROVE Returned(0) /\ TextWritten
  <2>1. PrintInv /\ Len(program) = 8
    BY <1>5, PrintCode DEF ProgramsInv
  <2>2. PrintAt => pc \in 0 .. Len(program) - 1
    BY <2>1 DEF PrintAt
  <2>3. status # "running"
    BY <1>1, <2>1, <2>2 DEF PrintInv
  <2> QED BY <2>1, <2>3 DEF PrintInv
<1>6. ASSUME program = function_call PROVE Returned(66)
  <2>1. FunctionInv /\ Len(program) = 12
    BY <1>6, FunctionCode DEF ProgramsInv
  <2>2. FunctionAt => pc \in 0 .. Len(program) - 1
    BY <2>1 DEF FunctionAt
  <2>3. status # "running"
    BY <1>1, <2>1, <2>2 DEF FunctionInv
  <2> QED BY <2>1, <2>3 DEF FunctionInv
<1>7. ASSUME program = recursive_function_call PROVE Returned(5)
  <2>1. RecursionInv /\ Len(program) = 16
    BY <1>7, RecursionCode DEF ProgramsInv
  <2>2. RecursionAt => pc \in 0 .. Len(program) - 1
    BY <2>1 DEF RecursionAt
  <2>3. status # "running"
    BY <1>1, <2>1, <2>2 DEF RecursionInv
  <2> QED BY <2>1, <2>3 DEF RecursionInv
<1>8. program = casting_float_to_int => Returned(21)
  BY <1>1, CastCode DEF ProgramsInv, CastInv, CastAt
<1> QED BY <1>2, <1>3, <1>4, <1>5, <1>6, <1>7, <1>8

LEMMA TestsStart == TesterInit => TestsInv
<1> SUFFICES ASSUME TesterInit PROVE TestsInv
  OBVIOUS
<1>1. /\ i = 1 /\ program = list[1].program
      /\ pc = 0 /\ status = "running" /\ frames = 0 /\ stack_top = 0
  BY DEF TesterInit, InitMachine
<1>2. iregisters[0] = 0
  BY MachineAssumption DEF TesterInit, InitGlobals, IntReg
<1>3. ProgramsInv
  BY <1>1, <1>2, ProgramStarts
<1> QED BY <1>1, <1>3 DEF TestsInv

LEMMA TestsStep ==
  ASSUME TypeOK, ScoreInv, TestsInv, [TesterNext]_<<vars, testerVars>>
  PROVE  TestsInv'
<1>1. list \in TestLists /\ i \in 1 .. Len(list) + 1 /\ Len(list) \in Nat
      /\ DOMAIN list = 1 .. Len(list)
  BY ListFacts DEF ScoreInv
<1>2. ASSUME [Next]_vars, UNCHANGED testerVars PROVE TestsInv'
  <2>1. program' = program /\ list' = list /\ i' = i
    BY <1>2, ProgramKept DEF testerVars
  <2>2. i \in DOMAIN list => ProgramsInv'
    BY <1>2, ProgramGoesOn DEF TestsInv
  <2> QED BY <2>1, <2>2 DEF TestsInv
<1>3. CASE RunMachine
  BY <1>2, <1>3 DEF RunMachine, Next
<1>4. CASE RecordResult /\ i < Len(list)
  <2>1. /\ i \in DOMAIN list /\ ~Executing /\ list' = list /\ i' = i + 1
        /\ StartMachine(list[i + 1].program) /\ iregisters' = iregisters
    BY <1>4 DEF RecordResult
  <2>2. program = list[i].program /\ ProgramsInv
    BY <2>1 DEF TestsInv
  <2>3. /\ program' = list'[i'].program /\ pc' = 0 /\ status' = "running" /\ frames' = 0
        /\ stack_top' = 0
    BY <2>1 DEF StartMachine
  <2>4. FromZero' => program = and_or
    BY <1>1, <2>1, <2>2 DEF FromZero
  <2>5. FromZero' => iregisters'[0] = 0
    BY <2>1, <2>2, <2>4, ProgramEnds
  <2>6. ProgramsInv'
    <3>1. (/\ pc = 0 /\ status = "running" /\ frames = 0 /\ stack_top = 0
           /\ FromZero /\ program = inc_dec => iregisters[0] = 0)'
      BY <2>3, <2>5
    <3> QED BY <3>1, ProgramStarts, PTL
  <2> QED BY <2>3, <2>6 DEF TestsInv
<1>5. CASE RecordResult /\ ~(i < Len(list))
  <2>1. i' = Len(list') + 1 /\ DOMAIN list' = 1 .. Len(list)
    BY <1>1, <1>5 DEF RecordResult
  <2>2. list' = list
    BY <1>5 DEF RecordResult
  <2> QED BY <1>1, <2>1, <2>2 DEF TestsInv
<1>6. CASE TesterFinished \/ UNCHANGED <<vars, testerVars>>
  BY <1>2, <1>6 DEF TesterFinished
<1> QED BY <1>3, <1>4, <1>5, <1>6 DEF TesterNext

LEMMA TestsInvariant == TesterSpec => []TestsInv
<1>1. TypeOK /\ ScoreInv /\ TestsInv /\ [TesterNext]_<<vars, testerVars>> => TestsInv'
  BY TestsStep
<1> QED BY <1>1, TestsStart, ScoreInvariant, MachinesTypeCorrect, PTL DEF TesterSpec

\* What a test of test_list.c has come to when its program has ended.
LEMMA TestEnds ==
  ASSUME TestsInv, i \in DOMAIN list, list[i] \in Tests, ~Executing,
         list[i].program = inc_dec => FromZero
  PROVE  Returned(list[i].desired_return)
<1>1. program = list[i].program /\ ProgramsInv
  BY DEF TestsInv
<1>2. DOMAIN TESTS_LIST = 1 .. 7
  BY DEF TESTS_LIST
<1>3. PICK k \in 1 .. 7 : list[i] = TESTS_LIST[k]
  BY <1>2 DEF Tests
<1>4. \/ list[i].program = simple_loop /\ list[i].desired_return = 10
      \/ list[i].program = and_or /\ list[i].desired_return = 0
      \/ list[i].program = inc_dec /\ list[i].desired_return = 2
      \/ list[i].program = print /\ list[i].desired_return = 0
      \/ list[i].program = function_call /\ list[i].desired_return = 66
      \/ list[i].program = recursive_function_call /\ list[i].desired_return = 5
      \/ list[i].program = casting_float_to_int /\ list[i].desired_return = 21
  BY <1>3 DEF TESTS_LIST, TestUnit
<1> QED BY <1>1, <1>4, ProgramEnds

\* In a fresh process, each of the programs of test_list.c ends in a return with the
\* value it is to have, on words, stacks and frames of any sufficient size.
THEOREM TestsReturnDesired == TesterSpec => []ReturnsDesired
<1>1. ScoreInv /\ TestsInv => ReturnsDesired
  <2> SUFFICES ASSUME ScoreInv, TestsInv, i = 1, list[1] \in Tests, ~Executing
               PROVE  status = "halted" /\ accum_register = list[1].desired_return
    BY DEF ReturnsDesired
  <2>1. 1 \in DOMAIN list
    BY ListFacts DEF ScoreInv
  <2>2. Returned(list[1].desired_return)
    BY <2>1, TestEnds DEF FromZero
  <2> QED BY <2>2 DEF Returned
<1> QED BY <1>1, ScoreInvariant, TestsInvariant, PTL

\* Whatever tests have run before it in its process, the print test gives the bytes of
\* its text to write(2).
THEOREM TextCorrect == TesterSpec => []PrintsText
<1>1. TestsInv => PrintsText
  <2> SUFFICES ASSUME TestsInv, i \in DOMAIN list, list[i].program = print, ~Executing
               PROVE  TextWritten
    BY DEF PrintsText, TextWritten
  <2>1. program = print /\ ProgramsInv
    BY DEF TestsInv
  <2> QED BY <2>1, ProgramEnds
<1> QED BY <1>1, TestsInvariant, PTL

\* Each test of test_list.c but inc_dec passes at any place of any list: nothing that
\* the tests before it leave in the registers and the stack can make it fail.
THEOREM TestsIndependent == TesterSpec => PassesAfterAnyTest
<1>1. TestsInv /\ [TesterNext]_<<vars, testerVars>>
        => [RecordResult /\ list[i] \in Tests /\ list[i].program # inc_dec
              => sucess]_<<vars, testerVars>>
  <2> SUFFICES ASSUME TestsInv, RecordResult, list[i] \in Tests, list[i].program # inc_dec
               PROVE  sucess
    OBVIOUS
  <2>1. Returned(list[i].desired_return)
    BY TestEnds DEF RecordResult
  <2> QED BY <2>1 DEF Returned, sucess
<1> QED BY <1>1, TestsInvariant, PTL DEF TesterSpec, PassesAfterAnyTest

\* The tests recorded so far have passed, if each inc_dec counts from zero.
OrderedInv ==
  (\A k \in DOMAIN list : list[k] \in Tests) /\ CountsFromZero => all_tests_passed

\* A list of these tests of any length passes as a whole if each inc_dec comes first or
\* follows and_or.
THEOREM OrderedTestsCorrect == TesterSpec => []OrderedTestsPass
<1>1. TesterInit => OrderedInv
  BY DEF TesterInit, OrderedInv
<1>2. TestsInv /\ OrderedInv /\ [TesterNext]_<<vars, testerVars>> => OrderedInv'
  <2> SUFFICES ASSUME TestsInv, OrderedInv, [TesterNext]_<<vars, testerVars>>
               PROVE  OrderedInv'
    OBVIOUS
  <2>1. CASE RecordResult
    <3>1. /\ list' = list /\ i \in DOMAIN list /\ ~Executing
          /\ all_tests_passed' = (all_tests_passed /\ sucess)
      BY <2>1 DEF RecordResult
    <3>2. SUFFICES ASSUME \A k \in DOMAIN list : list[k] \in Tests, CountsFromZero
                   PROVE  all_tests_passed'
      BY <3>1 DEF OrderedInv, CountsFromZero
    <3>3. list[i] \in Tests /\ (list[i].program = inc_dec => FromZero)
      BY <3>1, <3>2 DEF CountsFromZero, FromZero
    <3>4. Returned(list[i].desired_return)
      BY <3>1, <3>3, TestEnds
    <3>5. sucess
      BY <3>4 DEF Returned, sucess
    <3> QED BY <3>1, <3>2, <3>5 DEF OrderedInv
  <2>2. CASE ~RecordResult
    <3>1. UNCHANGED testerVars
      BY <2>2 DEF TesterNext, RunMachine, TesterFinished
    <3> QED BY <3>1 DEF testerVars, OrderedInv, CountsFromZero
  <2> QED BY <2>1, <2>2
<1>3. OrderedInv => OrderedTestsPass
  BY DEF OrderedInv, OrderedTestsPass
<1> QED BY <1>1, <1>2, <1>3, TestsInvariant, PTL DEF TesterSpec

=============================================================================
