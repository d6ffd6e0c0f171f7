-------------------------- MODULE OperandStackProofs --------------------------
(***************************************************************************)
(* Proof that the bytes of the stack implement OperandStack: for every     *)
(* program and any stack size, a pop takes out the word of the last push   *)
(* that is not popped yet, and a save rewrites at most two stacked words.  *)
(***************************************************************************)
EXTENDS SetMachineProofs

-----------------------------------------------------------------------------
(***************************************************************************)
(* Words in memory.                                                        *)
(***************************************************************************)

\* A number is its last digit and the number in front of it.
LEMMA LastDigit ==
  ASSUME NEW n \in Nat
  PROVE  /\ n % Radix \in Byte
         /\ n \div Radix \in Nat
         /\ n = (n % Radix) + Radix * (n \div Radix)
  BY Moduli DEF Byte

\* Dropping the last digit divides a bound.
LEMMA DigitDropped ==
  ASSUME NEW m \in Nat, NEW n \in 0 .. Radix * m - 1
  PROVE  n \div Radix \in 0 .. m - 1
<1>1. n \in Nat /\ Radix \in Nat /\ Radix > 0 /\ Radix * m \in Nat
  BY Moduli
<1>2. PICK q \in Nat : q = n \div Radix /\ n = (n % Radix) + Radix * q /\ n % Radix \in Byte
  BY <1>1, LastDigit
<1>3. SUFFICES ASSUME q >= m PROVE FALSE
  BY <1>2
<1>4. Radix * q >= Radix * m
  BY <1>1, <1>3
<1>5. n % Radix \in Nat
  BY <1>2, Moduli DEF Byte
<1>6. Radix * q \in Nat
  BY <1>1
<1> QED BY <1>1, <1>2, <1>4, <1>5, <1>6

\* The four bytes of a word give the word.
LEMMA WordOfBytes ==
  ASSUME NEW w \in Word
  PROVE  w = ByteOf(w, 0) + Radix * (ByteOf(w, 1) + Radix * (ByteOf(w, 2) + Radix * ByteOf(w, 3)))
<1> DEFINE q1 == w \div Radix
           q2 == q1 \div Radix
           q3 == q2 \div Radix
<1>1. Radix \in Nat /\ Radix > 1 /\ w \in Nat
  BY Moduli DEF Word
<1>2. w \in 0 .. Radix * (Radix * (Radix * Radix)) - 1
  BY <1>1 DEF Word, UINT_MOD
<1>3. Radix * Radix \in Nat /\ Radix * (Radix * Radix) \in Nat
  BY <1>1
<1>4. q1 \in 0 .. Radix * (Radix * Radix) - 1
  BY <1>2, <1>3, DigitDropped
<1>5. q2 \in 0 .. Radix * Radix - 1
  <2> HIDE DEF q1
  <2> QED BY <1>3, <1>4, DigitDropped
<1>6. q3 \in 0 .. Radix - 1
  <2> HIDE DEF q2
  <2> QED BY <1>1, <1>5, DigitDropped
<1>7. q1 \in Nat /\ q2 \in Nat
  <2> HIDE DEF q1, q2
  <2> QED BY <1>1, <1>3, <1>4, <1>5
<1>8. w = (w % Radix) + Radix * q1
  BY <1>1, LastDigit
<1>9. q1 = (q1 % Radix) + Radix * q2
  <2> HIDE DEF q1
  <2> QED BY <1>7, LastDigit
<1>10. q2 = (q2 % Radix) + Radix * q3
  <2> HIDE DEF q2
  <2> QED BY <1>7, LastDigit
<1>11. q3 = q3 % Radix
  <2> HIDE DEF q3
  <2> QED BY <1>1, <1>6
<1>12. /\ ByteOf(w, 0) = w % Radix
       /\ ByteOf(w, 1) = q1 % Radix
       /\ ByteOf(w, 2) = q2 % Radix
       /\ ByteOf(w, 3) = q3 % Radix
  BY DEF ByteOf
<1> HIDE DEF q1, q2, q3
<1> QED BY <1>8, <1>9, <1>10, <1>11, <1>12

\* A stored word is loaded again.
LEMMA LoadSaved ==
  ASSUME NEW mem \in [Address -> Byte], NEW w \in Word, NEW a \in 0 .. STACK_SIZE - WORD_BYTES
  PROVE  LoadWord(SaveWord(mem, a, w), a) = w
<1>1. /\ a \in Nat /\ a \in Address /\ a + 1 \in Address /\ a + 2 \in Address /\ a + 3 \in Address
  BY MachineAssumption DEF Address, WORD_BYTES
<1> DEFINE m == SaveWord(mem, a, w)
<1>2. /\ m[a] = ByteOf(w, a - a) /\ m[a + 1] = ByteOf(w, a + 1 - a)
      /\ m[a + 2] = ByteOf(w, a + 2 - a) /\ m[a + 3] = ByteOf(w, a + 3 - a)
  BY <1>1 DEF SaveWord, WORD_BYTES
<1>3. /\ m[a] = ByteOf(w, 0) /\ m[a + 1] = ByteOf(w, 1)
      /\ m[a + 2] = ByteOf(w, 2) /\ m[a + 3] = ByteOf(w, 3)
  <2>1. a - a = 0 /\ a + 1 - a = 1 /\ a + 2 - a = 2 /\ a + 3 - a = 3
    BY <1>1
  <2> HIDE DEF m
  <2> QED BY <1>2, <2>1
<1>4. LoadWord(m, a) = m[a] + Radix * (m[a + 1] + Radix * (m[a + 2] + Radix * m[a + 3]))
  BY DEF LoadWord
<1> HIDE DEF m
<1>5. LoadWord(m, a) = w
  BY <1>3, <1>4, WordOfBytes
<1> QED BY <1>5 DEF m

\* A word that shares no byte with a stored one is what it was.
LEMMA LoadBeside ==
  ASSUME NEW mem \in [Address -> Byte], NEW w \in Word,
         NEW a \in 0 .. STACK_SIZE - WORD_BYTES, NEW b \in 0 .. STACK_SIZE - WORD_BYTES,
         b >= a + WORD_BYTES \/ a >= b + WORD_BYTES
  PROVE  LoadWord(SaveWord(mem, a, w), b) = LoadWord(mem, b)
<1>1. /\ a \in Nat /\ b \in Nat /\ b \in Address /\ b + 1 \in Address /\ b + 2 \in Address
      /\ b + 3 \in Address
  BY MachineAssumption DEF Address, WORD_BYTES
<1> DEFINE m == SaveWord(mem, a, w)
<1>2. /\ m[b] = mem[b] /\ m[b + 1] = mem[b + 1]
      /\ m[b + 2] = mem[b + 2] /\ m[b + 3] = mem[b + 3]
  BY <1>1 DEF SaveWord, WORD_BYTES
<1> HIDE DEF m
<1>3. LoadWord(m, b) = LoadWord(mem, b)
  BY <1>2 DEF LoadWord
<1> QED BY <1>3 DEF m

-----------------------------------------------------------------------------
(***************************************************************************)
(* The stacked words.                                                      *)
(***************************************************************************)

live == status = "running"

\* The empty stack has been popped: its top has wrapped around.
owes == stack_top = SIZE_MOD - WORD_BYTES

\* The first d words above the bottom of a memory.
WordsUpTo(mem, d) == [k \in 1 .. d |-> LoadWord(mem, WORD_BYTES * k)]

\* The top is the address of a word of the stack, or one word below it.
TopInReach == InStack(stack_top) \/ owes

StackInv == IInv /\ TopAligned /\ TopInReach

\* A top one word below the stack is above every address of it.
LEMMA OwedTop ==
  /\ SIZE_MOD \in Nat
  /\ STACK_SIZE \in Nat
  /\ STACK_SIZE >= 4
  /\ STACK_SIZE + 4 <= SIZE_MOD
  /\ WORD_BYTES = 4
<1>1. STACK_SIZE + 4 <= UINT_MOD /\ STACK_SIZE \in Nat /\ STACK_SIZE >= 4
  BY MachineAssumption DEF WORD_BYTES
<1> QED BY <1>1, Moduli DEF WORD_BYTES

\* A sequence is the function of its elements.
LEMMA ElementsOf ==
  ASSUME NEW S, NEW s \in Seq(S)
  PROVE  s = [k \in 1 .. Len(s) |-> s[k]]
  OBVIOUS

\* What the stack holds when its top is at the d-th word.
LEMMA WordsAtTop ==
  ASSUME NEW mem, NEW top, NEW d \in Nat, top = 4 * d, InStack(top)
  PROVE  LET depth == IF InStack(top) THEN top \div WORD_BYTES ELSE 0
         IN  [k \in 1 .. depth |-> LoadWord(mem, WORD_BYTES * k)] = WordsUpTo(mem, d)
<1>1. top \div WORD_BYTES = d
  BY DEF WORD_BYTES
<1> QED BY <1>1 DEF WordsUpTo

\* A machine that owes a pop has no stacked words; any other has a whole number
\* of them below its top.
LEMMA Depth ==
  ASSUME StackInv
  PROVE  \/ owes /\ ~InStack(stack_top) /\ StackedWords = <<>>
         \/ /\ ~owes /\ InStack(stack_top)
            /\ \E d \in Nat : stack_top = 4 * d /\ StackedWords = WordsUpTo(STACK, d)
<1>1. CASE owes
  <2>1. ~InStack(stack_top)
    BY <1>1, OwedTop DEF owes, InStack
  <2>2. StackedWords = <<>>
    BY <2>1 DEF StackedWords
  <2> QED BY <1>1, <2>1, <2>2
<1>2. CASE InStack(stack_top)
  <2>1. ~owes
    BY <1>2, OwedTop DEF owes, InStack
  <2>2. stack_top \in Nat /\ stack_top % 4 = 0
    BY OwedTop DEF StackInv, TopAligned, IInv, TypeOK, Size
  <2>3. PICK d \in Nat : stack_top = 4 * d
    BY <2>2
  <2>4. StackedWords = WordsUpTo(STACK, d)
    BY <1>2, <2>3, WordsAtTop DEF StackedWords
  <2> QED BY <1>2, <2>1, <2>3, <2>4
<1> QED BY <1>1, <1>2 DEF StackInv, TopInReach

\* The words up to one in the stack are words.
LEMMA WordsType ==
  ASSUME NEW mem \in [Address -> Byte], NEW d \in Nat, InStack(4 * d)
  PROVE  /\ WordsUpTo(mem, d) \in Seq(Word)
         /\ Len(WordsUpTo(mem, d)) = d
         /\ \A k \in 1 .. d : /\ InStack(4 * k)
                              /\ WordsUpTo(mem, d)[k] = LoadWord(mem, 4 * k)
<1>1. ASSUME NEW k \in 1 .. d
      PROVE  InStack(4 * k) /\ LoadWord(mem, 4 * k) \in Word
  <2>1. 4 * k <= 4 * d /\ 4 * k >= 0
    OBVIOUS
  <2>2. InStack(4 * k)
    BY <2>1, OwedTop DEF InStack
  <2> QED BY <2>2, LoadWordType DEF InStack
<1> QED BY <1>1 DEF WordsUpTo, WORD_BYTES

-----------------------------------------------------------------------------
(***************************************************************************)
(* The steps that move the top.                                            *)
(***************************************************************************)

\* What a push finds.
LEMMA PushFacts ==
  ASSUME StackInv, Push
  PROVE  /\ Executing /\ status' = status /\ iregisters' = iregisters
         /\ Inst.r0 \in IntReg /\ iregisters[Inst.r0] \in Word
         /\ stack_top' = (stack_top + 4) % SIZE_MOD
         /\ InStack(stack_top')
         /\ STACK' = SaveWord(STACK, stack_top', iregisters[Inst.r0])
<1>1. Executing /\ Inst.op = "I_PUSH" /\ Defined(Inst)
  BY DEF Push, Fetch
<1>2. WordAddress(Inst) = (stack_top + 4) % SIZE_MOD
  BY <1>1 DEF WordAddress, WORD_BYTES
<1>3. Inst.r0 \in IntReg /\ InStack(WordAddress(Inst))
  BY <1>1 DEF Defined, RegistersExist, WordR0, MemoryOps
<1>4. iregisters[Inst.r0] \in Word
  BY <1>3 DEF StackInv, IInv, TypeOK
<1> QED BY <1>1, <1>2, <1>3, <1>4 DEF Push, regs

\* A push onto the stack appends the register, a push onto a wrapped-around top
\* brings it back to the bottom.
LEMMA PushStep ==
  ASSUME StackInv, Push
  PROVE  TopInReach' /\ (OperandPromise!Push \/ OperandPromise!Repay)
<1>1. TopInReach'
  BY PushFacts DEF TopInReach
<1>2. live /\ live' /\ iregisters' = iregisters
  BY PushFacts DEF Executing, live
<1>3. ~owes'
  <2>1. InStack(stack_top')
    BY PushFacts
  <2> QED BY <2>1, OwedTop DEF owes, InStack
<1>4. CASE owes
  <2>1. stack_top' = 0
    BY <1>4, PushFacts, OwedTop DEF owes
  <2>2. StackedWords = <<>>
    BY <1>4, Depth
  <2>3. StackedWords' = <<>>
    BY <2>1 DEF StackedWords, WORD_BYTES
  <2>4. OperandPromise!Repay
    BY <1>2, <1>3, <1>4, <2>2, <2>3 DEF OperandPromise!Repay, live, owes
  <2> QED BY <1>1, <2>4
<1>5. CASE ~owes
  <2>1. PICK d \in Nat : stack_top = 4 * d /\ StackedWords = WordsUpTo(STACK, d)
    BY <1>5, Depth
  <2>2. InStack(4 * d)
    BY <1>5, <2>1, Depth
  <2>3. stack_top' = 4 * (d + 1)
    <3>1. 4 * d + 4 < SIZE_MOD \/ 4 * d + 4 = SIZE_MOD
      BY <2>2, OwedTop DEF InStack
    <3>2. stack_top' = (4 * d + 4) % SIZE_MOD
      BY <2>1, PushFacts
    <3>3. 4 * d + 4 # SIZE_MOD
      BY <2>2, OwedTop DEF InStack
    <3> QED BY <3>1, <3>2, <3>3, OwedTop
  <2> DEFINE w == iregisters[Inst.r0]
             n == d + 1
  <2>4. w \in Word /\ Inst.r0 \in IntReg
    BY PushFacts
  <2>5. /\ InStack(4 * n) /\ n \in Nat
        /\ STACK' = SaveWord(STACK, 4 * n, w)
    BY <2>3, PushFacts
  <2>6. StackedWords' = WordsUpTo(STACK', n)
    BY <2>3, <2>5, WordsAtTop DEF StackedWords
  <2>7. STACK \in [Address -> Byte]
    BY DEF StackInv, IInv, TypeOK
  <2> HIDE DEF w, n
  <2>8. LoadWord(STACK', 4 * n) = w
    BY <2>4, <2>5, <2>7, LoadSaved DEF InStack
  <2>9. ASSUME NEW k \in 1 .. d
        PROVE  LoadWord(STACK', 4 * k) = LoadWord(STACK, 4 * k)
    <3>1. InStack(4 * k)
      BY <2>2, <2>7, WordsType
    <3>2. 4 * n >= 4 * k + WORD_BYTES
      BY OwedTop DEF n
    <3> QED BY <2>4, <2>5, <2>7, <3>1, <3>2, LoadBeside DEF InStack
  <2>10. StackedWords' = Append(StackedWords, w)
    <3>1. WordsUpTo(STACK, d) \in Seq(Word) /\ Len(WordsUpTo(STACK, d)) = d
      BY <2>2, <2>7, WordsType
    <3>2. ASSUME NEW k \in 1 .. n
          PROVE  LoadWord(STACK', 4 * k) = Append(WordsUpTo(STACK, d), w)[k]
      <4>1. CASE k = n
        BY <2>8, <3>1, <4>1 DEF n
      <4>2. CASE k # n
        <5>1. k \in 1 .. d
          BY <4>2 DEF n
        <5>2. WordsUpTo(STACK, d)[k] = LoadWord(STACK, 4 * k)
          BY <5>1 DEF WordsUpTo, WORD_BYTES
        <5> QED BY <2>9, <3>1, <5>1, <5>2
      <4> QED BY <4>1, <4>2
    <3>3. WordsUpTo(STACK', n) = [k \in 1 .. n |-> Append(WordsUpTo(STACK, d), w)[k]]
      BY <3>2 DEF WordsUpTo, WORD_BYTES
    <3>4. /\ Append(WordsUpTo(STACK, d), w) \in Seq(Word)
          /\ Len(Append(WordsUpTo(STACK, d), w)) = n
      BY <2>4, <3>1 DEF n
    <3>5. Append(WordsUpTo(STACK, d), w) = [k \in 1 .. n |-> Append(WordsUpTo(STACK, d), w)[k]]
      BY <3>4, ElementsOf
    <3>6. WordsUpTo(STACK', n) = Append(WordsUpTo(STACK, d), w)
      BY <3>3, <3>5, Zenon
    <3> QED BY <2>1, <2>6, <3>6
  <2>11. OperandPromise!Push
    BY <1>2, <1>3, <1>5, <2>4, <2>10 DEF OperandPromise!Push, live, owes, w
  <2> QED BY <1>1, <2>11
<1> QED BY <1>4, <1>5

\* What a pop finds.
LEMMA PopFacts ==
  ASSUME StackInv, Pop
  PROVE  /\ Executing /\ status' = status /\ STACK' = STACK
         /\ Inst.r0 \in IntReg
         /\ InStack(stack_top) /\ LoadWord(STACK, stack_top) \in Word
         /\ stack_top' = (stack_top - 4) % SIZE_MOD
         /\ iregisters' = [iregisters EXCEPT ![Inst.r0] = LoadWord(STACK, stack_top)]
<1>1. Executing /\ Inst.op = "I_POP" /\ Defined(Inst)
  BY DEF Pop, Fetch
<1>2. WordAddress(Inst) = stack_top
  BY <1>1 DEF WordAddress
<1>3. Inst.r0 \in IntReg /\ InStack(stack_top)
  BY <1>1, <1>2 DEF Defined, RegistersExist, WordR0, MemoryOps
<1>4. LoadWord(STACK, stack_top) \in Word
  BY <1>3, LoadWordType DEF InStack, StackInv, IInv, TypeOK
<1> QED BY <1>1, <1>2, <1>3, <1>4 DEF Pop, PutWord, TopAfterPop, WORD_BYTES

\* A pop takes the last word, from the empty stack it takes some word and owes
\* it.
LEMMA PopStep ==
  ASSUME StackInv, Pop
  PROVE  TopInReach' /\ (OperandPromise!Pop \/ OperandPromise!Owe)
<1>1. live /\ live' /\ InStack(stack_top)
  BY PopFacts DEF Executing, live
<1>2. PICK d \in Nat : /\ stack_top = 4 * d
                       /\ StackedWords = WordsUpTo(STACK, d)
  BY <1>1, Depth
<1>3. ~owes /\ InStack(4 * d)
  BY <1>1, <1>2, Depth
<1>4. STACK \in [Address -> Byte]
  BY DEF StackInv, IInv, TypeOK
<1>5. /\ WordsUpTo(STACK, d) \in Seq(Word)
      /\ Len(WordsUpTo(STACK, d)) = d
      /\ \A k \in 1 .. d : WordsUpTo(STACK, d)[k] = LoadWord(STACK, 4 * k)
  BY <1>3, <1>4, WordsType
<1> DEFINE w == LoadWord(STACK, stack_top)
<1>6. /\ w \in Word /\ Inst.r0 \in IntReg
      /\ iregisters' = [iregisters EXCEPT ![Inst.r0] = w]
  BY PopFacts
<1>7. CASE d = 0
  <2>1. stack_top' = SIZE_MOD - 4
    <3>1. stack_top' = (0 - 4) % SIZE_MOD
      BY <1>2, <1>7, PopFacts
    <3>2. SIZE_MOD \in Nat /\ SIZE_MOD >= 8
      BY OwedTop
    <3> QED BY <3>1, <3>2
  <2>2. owes'
    BY <2>1 DEF owes, WORD_BYTES
  <2>3. ~InStack(stack_top')
    BY <2>1, OwedTop DEF InStack
  <2>4. StackedWords = <<>> /\ StackedWords' = <<>>
    BY <1>2, <1>7, <2>3 DEF StackedWords, WordsUpTo
  <2> HIDE DEF w
  <2>5. OperandPromise!Owe
    BY <1>1, <1>3, <1>6, <2>2, <2>4 DEF OperandPromise!Owe, live, owes
  <2> QED BY <2>2, <2>5 DEF TopInReach
<1>8. CASE d # 0
  <2>1. PICK e \in Nat : d = e + 1
    BY <1>8
  <2>2. 4 * e + 4 <= STACK_SIZE - 4
    BY <1>3, <2>1, OwedTop DEF InStack
  <2>3. stack_top' = 4 * e
    <3>1. stack_top - 4 = 4 * e
      BY <1>2, <2>1
    <3>2. stack_top' = (4 * e) % SIZE_MOD
      BY <3>1, PopFacts
    <3> QED BY <2>2, <3>2, OwedTop
  <2>4. InStack(stack_top')
    BY <2>2, <2>3, OwedTop DEF InStack
  <2>5. ~owes'
    BY <2>2, <2>3, OwedTop DEF owes
  <2>6. StackedWords' = WordsUpTo(STACK, e)
    <3>1. StackedWords' = WordsUpTo(STACK', e)
      BY <2>3, <2>4, WordsAtTop DEF StackedWords
    <3> QED BY <3>1, PopFacts
  <2>7. WordsUpTo(STACK, e) = SubSeq(WordsUpTo(STACK, d), 1, d - 1)
    <3>1. \A k \in 1 .. e : WordsUpTo(STACK, d)[k] = LoadWord(STACK, 4 * k)
      BY <1>5, <2>1
    <3>2. WordsUpTo(STACK, e) = [k \in 1 .. e |-> WordsUpTo(STACK, d)[k]]
      BY <3>1 DEF WordsUpTo, WORD_BYTES
    <3> QED BY <1>5, <2>1, <3>2
  <2>8. w = StackedWords[Len(StackedWords)]
    BY <1>2, <1>5, <2>1
  <2>9. StackedWords # <<>>
    BY <1>2, <1>5, <2>1
  <2>10. StackedWords' = SubSeq(StackedWords, 1, Len(StackedWords) - 1)
    BY <1>2, <1>5, <2>6, <2>7
  <2> HIDE DEF w
  <2>11. OperandPromise!Pop
    BY <1>1, <1>3, <1>6, <2>5, <2>8, <2>9, <2>10 DEF OperandPromise!Pop, live, owes
  <2> QED BY <2>4, <2>11 DEF TopInReach
<1> QED BY <1>7, <1>8

-----------------------------------------------------------------------------
(***************************************************************************)
(* The steps that leave the top.                                           *)
(***************************************************************************)

\* A word that is saved changes no stacked word but the two it may straddle.
LEMMA SaveStep ==
  ASSUME StackInv, Save
  PROVE  TopInReach' /\ [OperandPromise!Next]_OperandPromise!operandVars
<1>1. Executing /\ Inst.op \in {"I_DSAVE", "I_FSAVE"} /\ Defined(Inst)
  BY DEF Save, Fetch
<1>2. UNCHANGED <<stack_top, iregisters, status>>
  BY DEF Save, regs
<1>3. live /\ live' /\ owes' = owes /\ TopInReach'
  BY <1>1, <1>2 DEF Executing, live, owes, StackInv, TopInReach
<1> DEFINE a == WordAddress(Inst)
           w == IF Inst.op = "I_DSAVE" THEN iregisters[Inst.r0] ELSE fregisters[Inst.r0]
<1>4. InStack(a)
  BY <1>1 DEF Defined, MemoryOps
<1>5. w \in Word
  <2>1. CASE Inst.op = "I_DSAVE"
    BY <1>1, <2>1 DEF StackInv, IInv, TypeOK, Defined, RegistersExist, WordR0
  <2>2. CASE Inst.op = "I_FSAVE"
    BY <1>1, <2>2 DEF StackInv, IInv, TypeOK, Defined, RegistersExist, FloatR0
  <2> QED BY <1>1, <2>1, <2>2
<1>6. STACK' = SaveWord(STACK, a, w)
  BY DEF Save
<1>7. STACK \in [Address -> Byte]
  BY DEF StackInv, IInv, TypeOK
<1> HIDE DEF a, w
<1>8. a \in Nat
  BY <1>4, OwedTop DEF InStack
<1>9. STACK' \in [Address -> Byte]
  BY <1>5, <1>6, <1>7, <1>8, SaveWordType
<1>10. CASE owes
  <2>1. StackedWords = <<>> /\ ~InStack(stack_top)
    BY <1>10, Depth
  <2>2. StackedWords' = <<>>
    BY <1>2, <2>1 DEF StackedWords
  <2> QED BY <1>2, <1>3, <2>1, <2>2 DEF OperandPromise!operandVars, owes
<1>11. CASE ~owes
  <2>1. PICK d \in Nat : stack_top = 4 * d /\ StackedWords = WordsUpTo(STACK, d)
    BY <1>11, Depth
  <2>2. InStack(stack_top) /\ InStack(4 * d)
    BY <1>11, <2>1, Depth
  <2>3. StackedWords' = WordsUpTo(STACK', d)
    BY <1>2, <2>1, <2>2, WordsAtTop DEF StackedWords
  <2>4. CASE d = 0
    <3>1. StackedWords' = StackedWords
      BY <2>1, <2>3, <2>4 DEF WordsUpTo
    <3> QED BY <1>2, <1>3, <3>1 DEF OperandPromise!operandVars, owes
  <2>5. CASE d # 0
    <3>1. PICK q \in Nat : 4 * q <= a /\ a < 4 * q + 4
      <4>1. a \div 4 \in Nat /\ 4 * (a \div 4) <= a /\ a < 4 * (a \div 4) + 4
        BY <1>8
      <4> QED BY <4>1
    <3>2. ASSUME NEW j \in 1 .. d, j \notin {q, q + 1}
          PROVE  LoadWord(STACK', 4 * j) = LoadWord(STACK, 4 * j)
      <4>1. InStack(4 * j)
        BY <1>7, <2>2, WordsType
      <4>2. 4 * j >= a + WORD_BYTES \/ a >= 4 * j + WORD_BYTES
        BY <1>8, <3>1, <3>2, OwedTop
      <4> QED BY <1>4, <1>5, <1>6, <1>7, <4>1, <4>2, LoadBeside DEF InStack
    <3>3. PICK k \in 1 .. d : \A j \in 1 .. d : j \notin {k, k + 1} => j \notin {q, q + 1}
      <4>1. CASE q \in 1 .. d
        BY <4>1
      <4>2. CASE q \notin 1 .. d
        <5>1. 1 \in 1 .. d
          BY <2>5
        <5>2. \A j \in 1 .. d : j \notin {1, 1 + 1} => j \notin {q, q + 1}
          BY <4>2
        <5> QED BY <5>1, <5>2
      <4> QED BY <4>1, <4>2
    <3>4. /\ Len(StackedWords) = d
          /\ \A j \in 1 .. d : StackedWords[j] = LoadWord(STACK, 4 * j)
      BY <1>7, <2>1, <2>2, WordsType
    <3>5. /\ StackedWords' \in [1 .. d -> Word]
          /\ \A j \in 1 .. d : StackedWords'[j] = LoadWord(STACK', 4 * j)
      <4>1. ASSUME NEW j \in 1 .. d
            PROVE  LoadWord(STACK', 4 * j) \in Word
        <5>1. InStack(4 * j)
          BY <1>7, <2>2, WordsType
        <5> QED BY <1>9, <5>1, LoadWordType DEF InStack
      <4> QED BY <2>3, <4>1 DEF WordsUpTo, WORD_BYTES
    <3>6. \A j \in 1 .. d : j \notin {k, k + 1} => StackedWords'[j] = StackedWords[j]
      BY <3>2, <3>3, <3>4, <3>5
    <3>7. OperandPromise!Poke
      BY <1>2, <1>3, <3>3, <3>4, <3>5, <3>6 DEF OperandPromise!Poke, live, owes
    <3> QED BY <1>3, <3>7 DEF OperandPromise!Next
  <2> QED BY <2>4, <2>5
<1> QED BY <1>3, <1>10, <1>11

\* What a step leaves of the promise when it leaves the stack.
LEMMA StackUnchanged ==
  ASSUME StackInv, UNCHANGED stack
  PROVE  StackedWords' = StackedWords /\ owes' = owes /\ TopInReach'
<1>1. stack_top' = stack_top /\ STACK' = STACK
  BY DEF stack
<1>2. StackedWords' = StackedWords
  BY <1>1 DEF StackedWords
<1>3. owes' = owes /\ TopInReach'
  BY <1>1 DEF StackInv, TopInReach, owes
<1> QED BY <1>2, <1>3

\* The instructions that put a word in a register.
LEMMA ComputeStep ==
  ASSUME StackInv, Load \/ ComputeWord \/ CastFloat
  PROVE  TopInReach' /\ OperandPromise!Compute
<1>1. Executing /\ Defined(Inst) /\ UNCHANGED <<stack, status>>
  BY DEF Load, ComputeWord, CastFloat, Fetch
<1>2. Inst.r0 \in IntReg
  BY <1>1 DEF Load, ComputeWord, CastFloat, Fetch, Defined, RegistersExist, WordR0,
              WordOps
<1>3. TypeOK
  BY DEF StackInv, IInv
<1>4. PICK w \in Word : iregisters' = [iregisters EXCEPT ![Inst.r0] = w]
  <2>1. CASE Load
    <3>1. InStack(WordAddress(Inst))
      BY <1>1, <2>1 DEF Load, Fetch, Defined, MemoryOps
    <3>2. LoadWord(STACK, WordAddress(Inst)) \in Word
      BY <1>3, <3>1, LoadWordType DEF InStack, TypeOK
    <3> QED BY <2>1, <3>2 DEF Load, PutWord
  <2>2. CASE ComputeWord
    <3>1. WordResult \in Word
      BY <1>1, <1>3, <2>2, WordResultType DEF ComputeWord, Fetch
    <3> QED BY <2>2, <3>1 DEF ComputeWord, PutWord
  <2>3. CASE CastFloat
    <3>1. Inst.op \in FromFloatOps /\ fregisters[Inst.r1] \in Word
      BY <1>1, <1>3, <2>3
         DEF CastFloat, Fetch, TypeOK, Defined, RegistersExist, FloatR1
    <3>2. FromFloat(Inst.op, fregisters[Inst.r1]) \subseteq Word
      BY <3>1, FloatAssumption
    <3> QED BY <2>3, <3>2 DEF CastFloat, PutWord
  <2> QED BY <2>1, <2>2, <2>3
<1>5. StackedWords' = StackedWords /\ owes' = owes /\ TopInReach'
  BY <1>1, StackUnchanged
<1>6. live /\ live'
  BY <1>1 DEF Executing, live
<1> QED BY <1>2, <1>4, <1>5, <1>6 DEF OperandPromise!Compute, live, owes

\* The instructions that change neither the stack nor a word register: they go
\* on or end the machine.
LEMMA OtherStep ==
  ASSUME StackInv, Executing, UNCHANGED <<stack, iregisters>>
  PROVE  TopInReach' /\ [OperandPromise!Next]_OperandPromise!operandVars
<1>1. StackedWords' = StackedWords /\ owes' = owes /\ TopInReach'
  BY StackUnchanged
<1>2. live
  BY DEF Executing, live
<1>3. CASE live'
  BY <1>1, <1>2, <1>3 DEF OperandPromise!operandVars, live, owes
<1>4. CASE ~live'
  <2>1. OperandPromise!Stop
    BY <1>1, <1>2, <1>4 DEF OperandPromise!Stop, live, owes
  <2> QED BY <1>1, <2>1 DEF OperandPromise!Next
<1> QED BY <1>3, <1>4

-----------------------------------------------------------------------------
(***************************************************************************)
(* The refinement.                                                         *)
(***************************************************************************)

\* Every step of the machine is a step of the promise or leaves it alone.
LEMMA StackSimulation ==
  ASSUME StackInv, [Next]_vars
  PROVE  TopInReach' /\ [OperandPromise!Next]_OperandPromise!operandVars
<1>1. CASE Push
  BY <1>1, PushStep DEF OperandPromise!Next
<1>2. CASE Pop
  BY <1>2, PopStep DEF OperandPromise!Next
<1>3. CASE Save
  BY <1>3, SaveStep
<1>4. CASE Load \/ ComputeWord \/ CastFloat
  BY <1>4, ComputeStep DEF OperandPromise!Next
<1>5. CASE LoadFloat \/ Write \/ ComputeFloat \/ Idle \/ Record \/ Call \/ Return
           \/ RootReturn \/ Halt \/ Jump \/ Abort \/ Fault
  <2>1. Executing /\ UNCHANGED <<stack, iregisters>>
    BY <1>5 DEF LoadFloat, Write, ComputeFloat, Idle, Record, Call, Return,
                RootReturn, Halt, Jump, Abort, Fault, Fetch, regs
  <2> QED BY <2>1, OtherStep
<1>6. CASE Finished \/ UNCHANGED vars
  <2>1. UNCHANGED <<stack, iregisters, status>>
    BY <1>6 DEF Finished, vars, regs
  <2>2. StackedWords' = StackedWords /\ owes' = owes /\ TopInReach'
    BY <2>1, StackUnchanged
  <2> QED BY <2>1, <2>2 DEF OperandPromise!operandVars, owes
<1> QED BY <1>1, <1>2, <1>3, <1>4, <1>5, <1>6 DEF Next, Step

\* The machine starts with an empty stack.
LEMMA InitStack ==
  ASSUME Init
  PROVE  TopInReach /\ OperandPromise!Init
<1>1. stack_top = 0 /\ status = "running"
  BY DEF Init, InitMachine
<1>2. InStack(stack_top) /\ stack_top = 4 * 0 /\ ~owes
  BY <1>1, OwedTop DEF InStack, owes
<1>3. StackedWords = WordsUpTo(STACK, 0)
  BY <1>2, WordsAtTop DEF StackedWords
<1>4. StackedWords = <<>>
  BY <1>3 DEF WordsUpTo
<1>5. iregisters \in [IntReg -> Word]
  BY InitIInv DEF IInv, TypeOK
<1> QED BY <1>1, <1>2, <1>4, <1>5 DEF OperandPromise!Init, TopInReach, owes

\* Whatever the program does within what C defines, the top of the stack is the
\* address of a word of the stack or, after a pop of the empty stack, the one
\* word below it: push_decimal and pop_decimal never leave it anywhere else.
THEOREM TopStaysInReach == Spec => []TopInReach
<1>1. Init => TopInReach
  BY InitStack
<1>2. IInv /\ TopAligned /\ TopInReach /\ [Next]_vars => TopInReach'
  BY StackSimulation DEF StackInv
<1> QED BY <1>1, <1>2, InductiveInvariant, AlignmentCorrect, PTL DEF Spec

\* The bytes of the stack implement the abstract stack of words: a pop gives
\* back the word of the last push that is not popped yet, unless a save
\* instruction has gone into the stack, and nothing else moves the top.
THEOREM OperandStackImplemented == Spec => ImplementsOperandStack
<1>1. Init => OperandPromise!Init
  BY InitStack
<1>2. IInv /\ TopAligned /\ TopInReach /\ [Next]_vars
        => [OperandPromise!Next]_OperandPromise!operandVars
  BY StackSimulation DEF StackInv
<1>3. Spec => OperandPromise!Spec
  BY <1>1, <1>2, InductiveInvariant, AlignmentCorrect, TopStaysInReach, PTL
     DEF Spec, OperandPromise!Spec
<1> QED BY <1>3 DEF ImplementsOperandStack

=============================================================================
