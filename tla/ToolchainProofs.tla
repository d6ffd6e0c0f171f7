---------------------------- MODULE ToolchainProofs ----------------------------
(***************************************************************************)
(* For every source, every command line and every size of the arrays: the  *)
(* tokenizer keeps within its buffers, the passes are given well-formed    *)
(* tokens, the machine a well-formed program, a program that the machine   *)
(* runs is one that somebody has written, its calls and jumps arrive where *)
(* the source says, and the listing tells its instructions apart.          *)
(*                                                                         *)
(* The proofs about the passes and the machine are used through instances  *)
(* of their modules.                                                       *)
(***************************************************************************)
EXTENDS Toolchain, FiniteSetTheorems, SequenceTheorems, TLAPS

AP == INSTANCE AssemblerProofs
        WITH list <- tokens, program <- assembled, Sources <- {<<>>}
VP == INSTANCE SetMachineProofs WITH Programs <- {<<>>}

\* The instances of the proofs speak of the passes ...
LEMMA PassesAssumption == AP!AssemblerAssumption
BY ToolchainAssumption
   DEF A!AssemblerAssumption, AP!AssemblerAssumption, A!Token, AP!Token, A!Text, AP!Text

\* Toolchain composes the modules of the passes and of the machine, and their proofs
\* are about instances of the same definitions.
LEMMA PassesSame ==
  /\ AP!Text = A!Text
  /\ AP!TypeOK => A!TypeOK
  /\ A!Init => AP!Init
  /\ A!Step => AP!Step
<1>1. AP!Text = A!Text
  BY DEF A!Text, AP!Text
<1>2. AP!TypeOK => A!TypeOK
  BY DEF A!Text, AP!Text, A!Token, AP!Token, A!NoToken, AP!NoToken, A!Immediate,
         AP!Immediate, A!TypeOK, AP!TypeOK
<1>3. A!Init => AP!Init
  BY DEF A!Init, AP!Init, A!NoToken, AP!NoToken
<1>4. A!Step => AP!Step
  BY DEF A!Text, AP!Text, A!NoToken, AP!NoToken, A!Walking, AP!Walking, A!Type,
         AP!Type, A!Comment, AP!Comment, A!Collect, AP!Collect, A!LineEnd,
         AP!LineEnd, A!SecondIsColon, AP!SecondIsColon, A!ColonSecond,
         AP!ColonSecond, A!LooksLikeLabel, AP!LooksLikeLabel, A!IndexOneToken,
         AP!IndexOneToken, A!IndexLabel, AP!IndexLabel, A!LineCounted,
         AP!LineCounted, A!IndexLine, AP!IndexLine, A!FirstCount, AP!FirstCount,
         A!IndexDone, AP!IndexDone, A!Op, AP!Op, A!Operand, AP!Operand, A!Operands,
         AP!Operands, A!Found, AP!Found, A!AddressOf, AP!AddressOf, A!OperandValues,
         AP!OperandValues, A!LeavesValue, AP!LeavesValue, A!Registers, AP!Registers, A!Values, AP!Values,
         A!Assembled, AP!Assembled, A!Crashes, AP!Crashes, A!Overruns, AP!Overruns,
         A!Dangling, AP!Dangling, A!TokensAfterLabel, AP!TokensAfterLabel,
         A!SkipLabel, AP!SkipLabel, A!ClearedLine, AP!ClearedLine, A!AssembleLine,
         AP!AssembleLine, A!AssembleAborts, AP!AssembleAborts, A!AssembleOverruns,
         AP!AssembleOverruns, A!SkipEmptyLine, AP!SkipEmptyLine, A!AssembleDone,
         AP!AssembleDone, A!Step, AP!Step
<1> QED BY <1>1, <1>2, <1>3, <1>4

LEMMA SourcesSame ==
  /\ A!InstructionStarts = AP!InstructionStarts /\ A!LabelStarts = AP!LabelStarts
  /\ \A s : A!Above(s) = AP!Above(s)
  /\ A!WellSpaced <=> AP!WellSpaced
  /\ A!FitsArrays <=> AP!FitsArrays
  /\ \A s, name : A!RefersTo(s, name) <=> AP!RefersTo(s, name)
  /\ \A d : A!FirstOfName(d) <=> AP!FirstOfName(d)
<1>1. A!InstructionStarts = AP!InstructionStarts /\ A!LabelStarts = AP!LabelStarts
  BY DEF A!LineStarts, AP!LineStarts, A!LabelStarts, AP!LabelStarts, A!InstructionStarts,
         AP!InstructionStarts
<1>c. \A S : A!Cardinality(S) = AP!Cardinality(S)
  BY Zenon DEF A!Cardinality, AP!Cardinality
<1>2. \A s : A!Above(s) = AP!Above(s)
  BY <1>1, <1>c, Zenon DEF A!Above, AP!Above
<1>3. \A s : A!OperandsOf(s) = AP!OperandsOf(s)
  BY Zenon DEF A!OperandsOf, AP!OperandsOf
<1>4. A!WellSpaced <=> AP!WellSpaced
  BY <1>1, <1>2, Zenon DEF A!WellSpaced, AP!WellSpaced
<1>5. \A s, name : A!RefersTo(s, name) <=> AP!RefersTo(s, name)
  BY <1>3, Zenon DEF A!RefersTo, AP!RefersTo
<1>6. \A d : A!FirstOfName(d) <=> AP!FirstOfName(d)
  BY <1>1, Zenon DEF A!FirstOfName, AP!FirstOfName
<1>7. A!FitsArrays <=> AP!FitsArrays
  <2>1. A!LabelStarts \cup A!ColonStarts = AP!LabelStarts \cup AP!ColonStarts
    BY <1>1 DEF A!LineStarts, AP!LineStarts, A!ColonStarts, AP!ColonStarts
  <2> QED BY <1>1, <1>c, <2>1, Zenon DEF A!FitsArrays, AP!FitsArrays
<1> QED BY <1>1, <1>2, <1>4, <1>5, <1>6, <1>7

LEMMA MachineSame ==
  /\ \A p : VM!Loadable(p) <=> VP!Loadable(p)
  /\ VP!TypeOK => VM!TypeOK
  /\ VM!Init => VP!Init
  /\ VM!Step => VP!Step
<1>1. \A p : VM!Loadable(p) <=> VP!Loadable(p)
  BY Zenon DEF VM!UINT_MOD, VP!UINT_MOD, VM!SIZE_MOD, VP!SIZE_MOD, VM!Word, VP!Word,
         VM!IntArithOps, VP!IntArithOps, VM!IntStepOps, VP!IntStepOps, VM!LogicOps,
         VP!LogicOps, VM!FloatArithOps, VP!FloatArithOps, VM!IntCompareOps,
         VP!IntCompareOps, VM!FloatCompareOps, VP!FloatCompareOps, VM!IntCastOps,
         VP!IntCastOps, VM!ToFloatOps, VP!ToFloatOps, VM!FromFloatOps,
         VP!FromFloatOps, VM!DirectJumpOps, VP!DirectJumpOps, VM!RegJumpOps,
         VP!RegJumpOps, VM!IdleOps, VP!IdleOps, VM!Opcode, VP!Opcode,
         VM!Instruction, VP!Instruction, VM!Loadable, VP!Loadable
<1>2. VP!TypeOK => VM!TypeOK
  BY Zenon DEF VM!WORD_BYTES, VP!WORD_BYTES, VM!UINT_MOD, VP!UINT_MOD, VM!SIZE_MOD,
         VP!SIZE_MOD, VM!Byte, VP!Byte, VM!Word, VP!Word, VM!Size, VP!Size,
         VM!IntReg, VP!IntReg, VM!FltReg, VP!FltReg, VM!Address, VP!Address,
         VM!IntArithOps, VP!IntArithOps, VM!IntStepOps, VP!IntStepOps, VM!LogicOps,
         VP!LogicOps, VM!FloatArithOps, VP!FloatArithOps, VM!IntCompareOps,
         VP!IntCompareOps, VM!FloatCompareOps, VP!FloatCompareOps, VM!IntCastOps,
         VP!IntCastOps, VM!ToFloatOps, VP!ToFloatOps, VM!FromFloatOps,
         VP!FromFloatOps, VM!DirectJumpOps, VP!DirectJumpOps, VM!RegJumpOps,
         VP!RegJumpOps, VM!IdleOps, VP!IdleOps, VM!Opcode, VP!Opcode,
         VM!Instruction, VP!Instruction, VM!Loadable, VP!Loadable, VM!CallFrame,
         VP!CallFrame, VM!Slot, VP!Slot, VM!Status, VP!Status, VM!TypeOK, VP!TypeOK
<1>3. VM!Init => VP!Init
  BY Zenon DEF VM!Init, VP!Init, VM!InitMachine, VP!InitMachine, VM!InitGlobals,
         VP!InitGlobals, VM!IntReg, VP!IntReg, VM!FltReg, VP!FltReg, VM!Address,
         VP!Address, VM!Slot, VP!Slot, VM!NoFrame, VP!NoFrame, VM!NoWrite,
         VP!NoWrite
<1>4. VM!Step => VP!Step
  BY Zenon DEF VM!WORD_BYTES, VP!WORD_BYTES, VM!UINT_MOD, VP!UINT_MOD, VM!SIZE_MOD,
         VP!SIZE_MOD, VM!Byte, VP!Byte, VM!Word, VP!Word, VM!Size, VP!Size,
         VM!IntReg, VP!IntReg, VM!FltReg, VP!FltReg, VM!Address, VP!Address,
         VM!AsInt, VP!AsInt, VM!IntToSize, VP!IntToSize, VM!AsFlag, VP!AsFlag,
         VM!IntArithOps, VP!IntArithOps, VM!IntStepOps, VP!IntStepOps, VM!LogicOps,
         VP!LogicOps, VM!FloatArithOps, VP!FloatArithOps, VM!IntCompareOps,
         VP!IntCompareOps, VM!FloatCompareOps, VP!FloatCompareOps, VM!IntCastOps,
         VP!IntCastOps, VM!ToFloatOps, VP!ToFloatOps, VM!FromFloatOps,
         VP!FromFloatOps, VM!DirectJumpOps, VP!DirectJumpOps, VM!RegJumpOps,
         VP!RegJumpOps, VM!IdleOps, VP!IdleOps, VM!IntResult, VP!IntResult,
         VM!LogicResult, VP!LogicResult, VM!IntCompare, VP!IntCompare, VM!regs,
         VP!regs, VM!calls, VP!calls, VM!stack, VP!stack, VM!vars, VP!vars,
         VM!NoFrame, VP!NoFrame, VM!NoWrite, VP!NoWrite, VM!Slot, VP!Slot,
         VM!InStack, VP!InStack, VM!LoadWord, VP!LoadWord, VM!ByteOf, VP!ByteOf,
         VM!SaveWord, VP!SaveWord, VM!Executing, VP!Executing, VM!Inst, VP!Inst,
         VM!Taken, VP!Taken, VM!WordR0, VP!WordR0, VM!WordR1, VP!WordR1, VM!WordR2,
         VP!WordR2, VM!FloatR0, VP!FloatR0, VM!FloatR1, VP!FloatR1, VM!FloatR2,
         VP!FloatR2, VM!RegistersExist, VP!RegistersExist, VM!MemoryOps,
         VP!MemoryOps, VM!WordAddress, VP!WordAddress, VM!Defined, VP!Defined,
         VM!Fetch, VP!Fetch, VM!Advance, VP!Advance, VM!PutWord, VP!PutWord,
         VM!PutFloat, VP!PutFloat, VM!Word1, VP!Word1, VM!Word2, VP!Word2, VM!Push,
         VP!Push, VM!TopAfterPop, VP!TopAfterPop, VM!Pop, VP!Pop, VM!Load, VP!Load,
         VM!LoadFloat, VP!LoadFloat, VM!Save, VP!Save, VM!WriteResults,
         VP!WriteResults, VM!Write, VP!Write, VM!WordResult, VP!WordResult,
         VM!WordOps, VP!WordOps, VM!DividesByZero, VP!DividesByZero, VM!ComputeWord,
         VP!ComputeWord, VM!FloatResult, VP!FloatResult, VM!ComputeFloat,
         VP!ComputeFloat, VM!CastFloat, VP!CastFloat, VM!Idle, VP!Idle,
         VM!SlotInUse, VP!SlotInUse, VM!RecordSlot, VP!RecordSlot, VM!Record,
         VP!Record, VM!ResumePoint, VP!ResumePoint, VM!Call, VP!Call,
         VM!FramesAfterReturn, VP!FramesAfterReturn, VM!Return, VP!Return,
         VM!RootReturn, VP!RootReturn, VM!Halt, VP!Halt, VM!Jump, VP!Jump, VM!Abort,
         VP!Abort, VM!Fault, VP!Fault, VM!Step, VP!Step
<1> QED BY <1>1, <1>2, <1>3, <1>4

-----------------------------------------------------------------------------
(***************************************************************************)
(* The tokenizer.                                                          *)
(***************************************************************************)
LEMMA ReadCharType == TokenizerTypeOK /\ ReadChar => TokenizerTypeOK'
<1> SUFFICES ASSUME TokenizerTypeOK, ReadChar PROVE TokenizerTypeOK'
  OBVIOUS
<1> DEFINE Kept == Character \ {NUL, EOF_BYTE}
           c    == file[fsize + 1]
<1>1. file \in Seq(Character) /\ Len(file) \in Nat
  BY TokenizerAssumption DEF TokenizerTypeOK
<1>2. /\ fsize \in Nat /\ fsize + 1 \in 1 .. Len(file)
      /\ c \in Character \ {EOF_BYTE}
  <2>1. fsize \in Nat /\ fsize + 1 \in 1 .. Len(file) /\ c # EOF_BYTE
    BY <1>1 DEF TokenizerTypeOK, ReadChar, More
  <2> QED BY <1>1, <2>1, ElementOfSeq
<1>3. fb \in Seq(Kept) /\ Len(fb) \in Nat /\ Len(fb) + 2 <= MAX_SIZE /\ MAX_SIZE \in Nat
  BY TokenizerAssumption DEF TokenizerTypeOK, ReadChar, Fits
<1>4. /\ fb' \in Seq(Kept) /\ Len(fb') \in Nat
      /\ Len(fb') \in {Len(fb), Len(fb) + 1}
  <2>1. CASE c = NUL
    BY <1>3, <2>1 DEF ReadChar
  <2>2. CASE c # NUL
    <3>1. fb' = Append(fb, c) /\ c \in Kept
      BY <1>2, <2>2 DEF ReadChar
    <3> HIDE DEF Kept, c
    <3> QED BY <1>3, <3>1, AppendProperties
  <2> QED BY <2>1, <2>2
<1>5. Len(fb') < MAX_SIZE /\ file_pos \in 0 .. Len(fb')
  BY <1>3, <1>4 DEF TokenizerTypeOK
<1>6. /\ fsize' \in 0 .. Len(file)
      /\ phase' \in {"read", "aborted"}
  BY <1>1, <1>2 DEF ReadChar
<1>7. UNCHANGED <<file, file_pos, fresh, word_buffer, list>>
  BY DEF ReadChar
<1> QED BY <1>4, <1>5, <1>6, <1>7 DEF TokenizerTypeOK

\* A character of the buffer, and what ends it.
LEMMA Characters ==
  ASSUME TokenizerTypeOK
  PROVE  /\ Len(fb) \in Nat /\ file_pos \in Nat
         /\ \A p \in Nat : p < Len(fb) =>
              At(p) = fb[p + 1] /\ At(p) \in Character \ {NUL, EOF_BYTE}
         /\ \A p \in Nat : ~ (p < Len(fb)) => At(p) = NUL
         /\ NUL \notin WordChar /\ Follows \subseteq WordChar
<1>1. fb \in Seq(Character \ {NUL, EOF_BYTE}) /\ Len(fb) \in Nat /\ file_pos \in Nat
  BY DEF TokenizerTypeOK
<1>2. ASSUME NEW p \in Nat, p < Len(fb)
      PROVE  At(p) = fb[p + 1] /\ At(p) \in Character \ {NUL, EOF_BYTE}
  <2>1. p + 1 \in 1 .. Len(fb)
    BY <1>1, <1>2
  <2>2. fb[p + 1] \in Character \ {NUL, EOF_BYTE}
    BY <1>1, <2>1, ElementOfSeq
  <2> QED BY <1>2, <2>2 DEF At
<1> QED BY <1>1, <1>2, TokenizerAssumption DEF At, Follows, WordChar

\* A word ends, at the end of the text at the latest.
LEMMA RunLengthType ==
  ASSUME TokenizerTypeOK, Tokenizing, Current \in WordChar
  PROVE  /\ RunLength \in Nat /\ RunLength >= 1 /\ file_pos + RunLength <= Len(fb)
         /\ \A k \in Nat : k < RunLength => At(file_pos + k) \in WordChar \cap Follows
         /\ At(file_pos + RunLength) \notin Follows
<1> DEFINE rest  == Len(fb) - file_pos
           S     == {n \in Nat : n >= 1 /\ n <= rest /\ At(file_pos + n) \notin Follows}
           End(n) == /\ \A k \in 0 .. n - 1 : At(file_pos + k) \in Follows
                     /\ At(file_pos + n) \notin Follows
<1>1. rest \in Nat /\ rest >= 1 /\ file_pos + rest = Len(fb) /\ file_pos \in Nat
  BY Characters DEF Tokenizing
<1>2. rest \in S
  <2>1. At(Len(fb)) = NUL
    BY Characters
  <2>2. At(file_pos + rest) \notin Follows
    BY <1>1, <2>1, Characters
  <2> QED BY <1>1, <2>2
<1>3. PICK n \in S : \A m \in S : n <= m
  <2>1. S \subseteq Nat /\ S # {}
    BY <1>2
  <2> HIDE DEF S
  <2> QED BY <2>1, PassesAssumption, AP!Smallest
<1>4. n \in 1 .. rest
  BY <1>1, <1>3
<1>5. End(n)
  <2>1. At(file_pos) \in Follows
    BY DEF Follows, WordChar, Current
  <2>2. ASSUME NEW k \in 0 .. n - 1
        PROVE  At(file_pos + k) \in Follows
    <3>1. CASE k = 0
      BY <1>1, <2>1, <3>1
    <3>2. CASE k # 0
      <4>1. k \in Nat /\ k >= 1 /\ k <= rest /\ ~ (n <= k)
        BY <1>1, <1>4, <3>2
      <4> QED BY <1>3, <4>1
    <3> QED BY <3>1, <3>2
  <2> QED BY <1>3, <2>2
<1>6. RunLength = CHOOSE m \in 1 .. rest : End(m)
  BY DEF RunLength
<1>7. RunLength \in 1 .. rest /\ End(RunLength)
  <2> HIDE DEF End, rest
  <2> QED BY <1>4, <1>5, <1>6
<1>8. RunLength \in Nat /\ RunLength >= 1 /\ file_pos + RunLength <= Len(fb)
  BY <1>1, <1>7
<1>9. ASSUME NEW k \in Nat, k < RunLength
      PROVE  At(file_pos + k) \in WordChar \cap Follows
  <2>1. k \in 0 .. RunLength - 1
    BY <1>8, <1>9
  <2> QED BY <1>7, <2>1, Characters
<1> QED BY <1>7, <1>8, <1>9

\* The string in the array that a word was copied to: it starts with the first
\* character of the word.
LEMMA StringType ==
  ASSUME TokenizerTypeOK, Tokenizing, Current \in WordChar, Terminators(Written) # {}
  PROVE  /\ Written \in Buffer
         /\ StringIn(Written) \in Seq(WordChar)
         /\ StringIn(Written) # <<>>
         /\ StringIn(Written)[1] = Current
<1> DEFINE size == DEFAULT_LITERAL_SIZE
           T    == Terminators(Written)
           First(k) == \A j \in T : k <= j
           end  == CHOOSE k \in T : First(k)
<1>1. size \in Nat /\ size >= 1 /\ word_buffer \in [0 .. size - 1 -> WordChar \cup {NUL}]
  BY TokenizerAssumption DEF TokenizerTypeOK, Buffer
<1>2. Written \in [0 .. size - 1 -> WordChar \cup {NUL}]
  <2>1. DOMAIN word_buffer = 0 .. size - 1
    BY <1>1
  <2>2. ASSUME NEW k \in 0 .. size - 1
        PROVE  (IF k < RunLength THEN At(file_pos + k) ELSE word_buffer[k])
                 \in WordChar \cup {NUL}
    BY <1>1, <2>2, RunLengthType
  <2> HIDE DEF size
  <2> QED BY <2>1, <2>2 DEF Written
<1>3. Written[0] = Current /\ Current # NUL
  <2>1. 0 \in DOMAIN word_buffer /\ 0 < RunLength /\ file_pos + 0 = file_pos
    BY <1>1, RunLengthType, Characters
  <2>2. Written[0] = At(file_pos + 0)
    BY <2>1 DEF Written
  <2> QED BY <2>1, <2>2, Characters DEF Current
<1>4. T \subseteq 0 .. size - 1 /\ 0 \notin T
  BY <1>2, <1>3 DEF Terminators
<1>5. end \in T /\ First(end)
  <2>1. T \subseteq Nat /\ T # {}
    BY <1>4
  <2> HIDE DEF T
  <2>2. \E k \in T : First(k)
    BY <2>1, PassesAssumption, AP!Smallest
  <2> HIDE DEF First
  <2> QED BY <2>2
<1>6. end \in 1 .. size - 1
  BY <1>1, <1>4, <1>5
<1>7. StringIn(Written) = [k \in 1 .. end |-> Written[k - 1]]
  BY DEF StringIn
<1> HIDE DEF end
<1>8. ASSUME NEW k \in 1 .. end
      PROVE  Written[k - 1] \in WordChar
  <2>1. k - 1 \in 0 .. size - 1 /\ ~ (end <= k - 1)
    BY <1>1, <1>6, <1>8
  <2>2. k - 1 \notin T
    BY <1>5, <2>1
  <2>3. Written[k - 1] # NUL
    BY <1>2, <2>1, <2>2 DEF Terminators
  <2> QED BY <1>2, <2>1, <2>3
<1>9. StringIn(Written) \in Seq(WordChar) /\ Len(StringIn(Written)) = end
  <2>1. end \in Nat
    BY <1>6
  <2> QED BY <1>7, <1>8, <2>1
<1>10. StringIn(Written)[1] = Current
  BY <1>3, <1>6, <1>7
<1> QED BY <1>2, <1>6, <1>9, <1>10 DEF Buffer

\* tokens_list_append.
LEMMA AppendTokenType ==
  ASSUME TokenizerTypeOK, NEW token \in Token, NEW n \in Nat,
         file_pos + n <= Len(fb), AppendToken(token, n)
  PROVE  /\ list' \in Seq(Token) /\ Len(list') <= TOKENS_BLOCK_SIZE
         /\ file_pos' \in 0 .. Len(fb)
         /\ phase' \in {phase, "undefined"}
<1>1. /\ list \in Seq(Token) /\ Len(list) \in Nat /\ Len(list) <= TOKENS_BLOCK_SIZE
      /\ file_pos \in Nat /\ file_pos <= Len(fb) /\ Len(fb) \in Nat
      /\ TOKENS_BLOCK_SIZE \in Nat
  BY TokenizerAssumption DEF TokenizerTypeOK
<1>2. CASE Len(list) < TOKENS_BLOCK_SIZE
  <2>1. list' = Append(list, token) /\ file_pos' = file_pos + n /\ phase' = phase
    BY <1>2 DEF AppendToken
  <2> QED BY <1>1, <1>2, <2>1, AppendProperties
<1>3. CASE ~ (Len(list) < TOKENS_BLOCK_SIZE)
  BY <1>1, <1>3 DEF AppendToken
<1> QED BY <1>2, <1>3

LEMMA TakeWordType == TokenizerTypeOK /\ TakeWord => TokenizerTypeOK'
<1> SUFFICES ASSUME TokenizerTypeOK, TakeWord PROVE TokenizerTypeOK'
  OBVIOUS
<1> DEFINE token == [type     |-> IF Current \in Letter THEN "WORD" ELSE "NUMBER",
                     literall |-> StringIn(Written)]
<1>1. Tokenizing /\ Current \in WordChar /\ Terminators(Written) # {}
  BY DEF TakeWord
<1>2. token \in Token
  <2>1. /\ StringIn(Written) \in Seq(WordChar) /\ StringIn(Written) # <<>>
        /\ StringIn(Written)[1] = Current
    BY <1>1, StringType
  <2>2. Current \in Letter \/ Current \in Digit
    BY <1>1 DEF WordChar
  <2> QED BY <2>1, <2>2 DEF Token
<1>3. AppendToken(token, RunLength) /\ RunLength \in Nat /\ file_pos + RunLength <= Len(fb)
  BY <1>1, RunLengthType DEF TakeWord
<1> HIDE DEF token
<1>4. /\ list' \in Seq(Token) /\ Len(list') <= TOKENS_BLOCK_SIZE
      /\ file_pos' \in 0 .. Len(fb)
      /\ phase' \in {phase, "undefined"}
  BY <1>2, <1>3, AppendTokenType
<1>5. word_buffer' \in Buffer
  <2>1. Zeros \in Buffer
    BY DEF Zeros, Buffer
  <2> QED BY <1>1, <2>1, StringType DEF TakeWord
<1>6. UNCHANGED <<file, fsize, fb, fresh>>
  BY DEF TakeWord
<1> QED BY <1>4, <1>5, <1>6 DEF TokenizerTypeOK

LEMMA TakeSymbolType == TokenizerTypeOK /\ TakeSymbol => TokenizerTypeOK'
<1> SUFFICES ASSUME TokenizerTypeOK, TakeSymbol PROVE TokenizerTypeOK'
  OBVIOUS
<1> DEFINE twice == Current \in DOMAIN Double /\ At(file_pos + 1) = Current
           type  == IF twice THEN Double[Current]
                    ELSE IF Current \in DOMAIN Single THEN Single[Current] ELSE "NULL"
           token == [type |-> type, literall |-> <<>>]
           n     == IF twice THEN 2 ELSE 1
<1>1. AppendToken(token, n)
  BY DEF TakeSymbol
<1>2. token \in Token
  <2>1. type \in {Double[c] : c \in DOMAIN Double} \cup {Single[c] : c \in DOMAIN Single}
                 \cup {"NULL"}
    OBVIOUS
  <2> HIDE DEF type
  <2> QED BY <2>1 DEF Token
<1>3. n \in Nat /\ file_pos + n <= Len(fb)
  <2>1. file_pos < Len(fb) /\ file_pos \in Nat /\ Len(fb) \in Nat
    BY Characters DEF TakeSymbol, Tokenizing
  <2>2. Current # NUL
    BY <2>1, Characters DEF Current
  <2>3. twice => file_pos + 1 < Len(fb)
    BY <2>1, <2>2, Characters
  <2> HIDE DEF twice
  <2> QED BY <2>1, <2>3
<1> HIDE DEF token, n
<1>4. /\ list' \in Seq(Token) /\ Len(list') <= TOKENS_BLOCK_SIZE
      /\ file_pos' \in 0 .. Len(fb)
      /\ phase' \in {phase, "undefined"}
  BY <1>1, <1>2, <1>3, AppendTokenType
<1>5. UNCHANGED <<file, fsize, fb, fresh, word_buffer>>
  BY DEF TakeSymbol
<1> QED BY <1>4, <1>5 DEF TokenizerTypeOK

LEMMA TokenizerTypes ==
  TokenizerTypeOK /\ (TokenizerStep \/ UNCHANGED tokenizerVars) => TokenizerTypeOK'
<1>1. TokenizerTypeOK /\ UNCHANGED tokenizerVars => TokenizerTypeOK'
  BY DEF TokenizerTypeOK, tokenizerVars
<1>2. TokenizerTypeOK /\ (ReadOverruns \/ ReadDone \/ WordOverruns \/ TokenizeDone)
        => TokenizerTypeOK'
  BY DEF TokenizerTypeOK, ReadOverruns, ReadDone, WordOverruns, TokenizeDone
<1>3. TokenizerTypeOK /\ SkipSpace => TokenizerTypeOK'
  <2> SUFFICES ASSUME TokenizerTypeOK, SkipSpace PROVE TokenizerTypeOK'
    OBVIOUS
  <2>1. file_pos < Len(fb) /\ file_pos' = file_pos + 1
    BY Zenon DEF SkipSpace, Tokenizing
  <2>2. file_pos' \in 0 .. Len(fb)
    BY <2>1, Characters
  <2> QED BY <2>2 DEF TokenizerTypeOK, SkipSpace
<1> QED BY <1>1, <1>2, <1>3, ReadCharType, TakeWordType, TakeSymbolType DEF TokenizerStep

LEMMA TokenizerInitType == TokenizerInit => TokenizerTypeOK
<1> SUFFICES ASSUME TokenizerInit PROVE TokenizerTypeOK
  OBVIOUS
<1>1. Len(file) \in Nat /\ MAX_SIZE \in Nat /\ MAX_SIZE > 0 /\ TOKENS_BLOCK_SIZE \in Nat
  BY TokenizerAssumption DEF TokenizerInit
<1>2. word_buffer \in Buffer
  BY TokenizerAssumption DEF TokenizerInit, Zeros, Buffer
<1> QED BY <1>1, <1>2 DEF TokenizerInit, TokenizerTypeOK

-----------------------------------------------------------------------------
(***************************************************************************)
(* The encoding.                                                           *)
(***************************************************************************)
Opcodes == {Inst[k] : k \in DOMAIN Inst}

LEMMA OpcodesKnown == Opcodes \subseteq VM!Opcode
BY DEF Opcodes, Inst, VM!Opcode, VM!IntArithOps, VM!IntStepOps, VM!LogicOps, VM!FloatArithOps,
       VM!IntCompareOps, VM!FloatCompareOps, VM!IntCastOps, VM!ToFloatOps,
       VM!FromFloatOps, VM!DirectJumpOps, VM!RegJumpOps, VM!IdleOps

LEMMA KeywordOpcode ==
  ASSUME NEW word \in Keyword
  PROVE  is_keyword(word) \in Opcodes
<1>1. DOMAIN KEYWORDS = 1 .. 51 /\ DOMAIN Inst = 1 .. 51
  BY DEF KEYWORDS, Inst
<1>2. \E k \in DOMAIN KEYWORDS : KEYWORDS[k] = word
  BY DEF Keyword
<1>3. (CHOOSE k \in DOMAIN KEYWORDS : KEYWORDS[k] = word) \in DOMAIN KEYWORDS
  BY <1>2
<1> QED BY <1>1, <1>3 DEF is_keyword, Opcodes

\* The machine may be given the empty program, and its words are numbers.
LEMMA MachineAssumptions ==
  ASSUME VM!FloatAssumption
  PROVE  VP!MachineAssumption /\ VP!FloatAssumption /\ VP!ProgramsAssumption
<1>1. VP!MachineAssumption
  BY ToolchainAssumption
     DEF VM!MachineAssumption, VP!MachineAssumption, VM!UINT_MOD, VP!UINT_MOD,
         VM!WORD_BYTES, VP!WORD_BYTES
<1>2. VP!FloatAssumption
  BY DEF VM!FloatAssumption, VP!FloatAssumption, VM!Word, VP!Word, VM!UINT_MOD, VP!UINT_MOD,
         VM!FloatArithOps, VP!FloatArithOps, VM!FloatCompareOps, VP!FloatCompareOps,
         VM!FromFloatOps, VP!FromFloatOps
<1>3. VP!ProgramsAssumption
  <2>1. PROGRAM_SIZE + 2 < VP!SIZE_MOD /\ PROGRAM_SIZE \in Nat
    BY ToolchainAssumption
       DEF VM!SIZE_MOD, VP!SIZE_MOD, VM!UINT_MOD, VP!UINT_MOD, A!AssemblerAssumption
  <2>2. VP!SIZE_MOD \in Int
    <3>1. Radix \in Int
      BY <1>1 DEF VP!MachineAssumption
    <3>2. VP!UINT_MOD \in Int
      BY <3>1 DEF VP!UINT_MOD
    <3> QED BY <3>2 DEF VP!SIZE_MOD
  <2>3. <<>> \in Seq(VP!Instruction) /\ Len(<<>>) + 2 < VP!SIZE_MOD
    BY <2>1, <2>2
  <2> QED BY <2>3 DEF VP!ProgramsAssumption, VP!Loadable
<1> QED BY <1>1, <1>2, <1>3

LEMMA WordFacts ==
  ASSUME VM!FloatAssumption
  PROVE  /\ VM!Word \subseteq Nat /\ 0 \in VM!Word
         /\ \A n \in VM!Word : 0 .. n \subseteq VM!Word
         /\ VM!SIZE_MOD \in Nat
<1>1. VP!UINT_MOD \in Nat /\ VP!UINT_MOD > 1 /\ VP!SIZE_MOD \in Nat
  BY MachineAssumptions, VP!Moduli
<1>2. VM!UINT_MOD = VP!UINT_MOD /\ VM!SIZE_MOD = VP!SIZE_MOD
  BY DEF VM!SIZE_MOD, VP!SIZE_MOD, VM!UINT_MOD, VP!UINT_MOD
<1> QED BY <1>1, <1>2 DEF VM!Word

LEMMA EncodeType ==
  ASSUME NEW op \in VM!Opcode, NEW args \in Seq(Int), NEW storage \in VM!Word
  PROVE  Encode(op, args, storage) \in VM!Instruction
<1> DEFINE Reg(k) == IF k <= Len(args) THEN args[k] ELSE 0
<1>1. ASSUME NEW k \in 1 .. 3
      PROVE  Reg(k) \in Int
  <2>1. Len(args) \in Nat
    OBVIOUS
  <2> QED BY <2>1, ElementOfSeq
<1> HIDE DEF Reg
<1>2. Reg(1) \in Int /\ Reg(2) \in Int /\ Reg(3) \in Int
  BY <1>1
<1>3. [op |-> op, r0 |-> Reg(1), r1 |-> Reg(2), r2 |-> Reg(3), imm |-> storage]
        \in VM!Instruction
  BY <1>2 DEF VM!Instruction
<1> QED BY <1>3 DEF Encode, Reg

\* Whatever the operands, assemble makes an instruction of the machine of them.
LEMMA AssembleType ==
  ASSUME VM!FloatAssumption, NEW op \in Opcodes, NEW arg \in [1 .. 3 -> Nat],
         NEW fval \in VM!Word, NEW dval \in VM!Word
  PROVE  assemble(op, arg, fval, dval) \in VM!Instruction
<1> DEFINE made == assemble(op, arg, fval, dval)
<1>1. arg[1] \in Int /\ arg[2] \in Int /\ arg[3] \in Int
  OBVIOUS
<1>2. dval \in Int /\ 0 \in VM!Word
  <2>1. VM!Word \subseteq Nat /\ 0 \in VM!Word
    BY WordFacts
  <2> QED BY <2>1
<1>3. op \in VM!Opcode
  BY OpcodesKnown
<1>4. {"I_CALL", "I_JMP", "I_EJMP", "I_NEJMP", "I_HALT"} \subseteq VM!Opcode
  BY DEF VM!Opcode, VM!DirectJumpOps
<1> USE DEF OneRegister, Casts, MemoryAccesses, ThreeRegisters
<1>5. CASE op = "I_SET"
  <2>1. made = Encode(op, <<arg[1]>>, dval)
    BY <1>5 DEF assemble, SET
  <2>2. <<arg[1]>> \in Seq(Int)
    BY <1>1, <1>2
  <2> QED BY <1>2, <1>3, <2>1, <2>2, EncodeType
<1>6. CASE op = "I_FSET"
  <2>1. made = Encode(op, <<arg[1]>>, fval)
    BY <1>6 DEF assemble, FSET
  <2>2. <<arg[1]>> \in Seq(Int)
    BY <1>1, <1>2
  <2> QED BY <1>2, <1>3, <2>1, <2>2, EncodeType
<1>7. CASE op \in {"I_REC", "I_PRINT"}
  <2>1. made = Encode(op, <<>>, 0)
    BY <1>7 DEF assemble, REC, PRINT
  <2>2. <<>> \in Seq(Int)
    BY <1>1, <1>2
  <2> QED BY <1>2, <1>3, <2>1, <2>2, EncodeType
<1>8. CASE op \in {"I_CALL", "I_JMP"}
  <2>1. made = Encode(op, <<>>, dval)
    BY <1>8 DEF assemble, CALL, JMP
  <2>2. <<>> \in Seq(Int)
    BY <1>1, <1>2
  <2> QED BY <1>2, <1>3, <2>1, <2>2, EncodeType
<1>9. CASE op = "I_GETAC"
  <2>1. made = Encode("I_CALL", <<arg[1]>>, 0)
    BY <1>9 DEF assemble, GETAC
  <2>2. <<arg[1]>> \in Seq(Int)
    BY <1>1, <1>2
  <2>3. "I_CALL" \in VM!Opcode
    BY <1>4
  <2> QED BY <1>2, <2>1, <2>2, <2>3, EncodeType
<1>10. CASE op \in MemoryAccesses
  <2>1. made = Encode(op, <<arg[1], dval>>, 0)
    BY <1>10 DEF assemble, Registers
  <2>2. <<arg[1], dval>> \in Seq(Int)
    BY <1>1, <1>2
  <2> QED BY <1>2, <1>3, <2>1, <2>2, EncodeType
<1>11. CASE op \in OneRegister
  <2>1. made = Encode(op, <<arg[1]>>, 0)
    BY <1>11 DEF assemble, Registers
  <2>2. <<arg[1]>> \in Seq(Int)
    BY <1>1, <1>2
  <2> QED BY <1>2, <1>3, <2>1, <2>2, EncodeType
<1>12. CASE op \in Casts
  <2>1. made = Encode(op, <<arg[1], arg[2]>>, 0)
    BY <1>12 DEF assemble, Registers
  <2>2. <<arg[1], arg[2]>> \in Seq(Int)
    BY <1>1, <1>2
  <2> QED BY <1>2, <1>3, <2>1, <2>2, EncodeType
<1>13. CASE op \in ThreeRegisters
  <2>1. made = Encode(op, <<arg[1], arg[2], arg[3]>>, 0)
    BY <1>13 DEF assemble, Registers
  <2>2. <<arg[1], arg[2], arg[3]>> \in Seq(Int)
    BY <1>1, <1>2
  <2> QED BY <1>2, <1>3, <2>1, <2>2, EncodeType
<1>14. CASE op = "I_RJMP"
  <2>1. made = Encode("I_JMP", <<dval>>, 0)
    BY <1>14 DEF assemble, RJMP
  <2>2. <<dval>> \in Seq(Int)
    BY <1>1, <1>2
  <2>3. "I_JMP" \in VM!Opcode
    BY <1>4
  <2> QED BY <1>2, <2>1, <2>2, <2>3, EncodeType
<1>15. CASE op = "I_ERJMP"
  <2>1. made = Encode("I_EJMP", <<arg[1], arg[2], arg[3]>>, 0)
    BY <1>15 DEF assemble, ERJMP
  <2>2. <<arg[1], arg[2], arg[3]>> \in Seq(Int)
    BY <1>1, <1>2
  <2>3. "I_EJMP" \in VM!Opcode
    BY <1>4
  <2> QED BY <1>2, <2>1, <2>2, <2>3, EncodeType
<1>16. CASE op = "I_NERJMP"
  <2>1. made = Encode("I_NEJMP", <<arg[1], arg[2], arg[3]>>, 0)
    BY <1>16 DEF assemble, NERJMP
  <2>2. <<arg[1], arg[2], arg[3]>> \in Seq(Int)
    BY <1>1, <1>2
  <2>3. "I_NEJMP" \in VM!Opcode
    BY <1>4
  <2> QED BY <1>2, <2>1, <2>2, <2>3, EncodeType
<1>17. CASE op \in {"I_EJMP", "I_NEJMP"}
  <2>1. made = Encode(op, <<arg[2], arg[3]>>, dval)
    BY <1>17 DEF assemble, EJMP, NEJMP
  <2>2. <<arg[2], arg[3]>> \in Seq(Int)
    BY <1>1, <1>2
  <2> QED BY <1>2, <1>3, <2>1, <2>2, EncodeType
<1>18. CASE op \in {"I_HALT", "I_ENTRY", "I_NOP"}
  <2>1. made = Encode("I_HALT", <<>>, 0)
    BY <1>18 DEF assemble, HALT
  <2>2. <<>> \in Seq(Int)
    BY <1>1, <1>2
  <2>3. "I_HALT" \in VM!Opcode
    BY <1>4
  <2> QED BY <1>2, <2>1, <2>2, <2>3, EncodeType
<1> QED
  BY <1>5, <1>6, <1>7, <1>8, <1>9, <1>10, <1>11, <1>12, <1>13, <1>14, <1>15, <1>16, <1>17, <1>18
     DEF Opcodes, Inst

-----------------------------------------------------------------------------
(***************************************************************************)
(* The passes.  They have not begun until they are given the tokens, of    *)
(* which there are no more than the tokenizer's list has room for.         *)
(***************************************************************************)
Begun == stage \notin {"main", "source"}

PassesInv ==
  /\ AP!TypeInv
  /\ line_is_comment \in BOOLEAN
  /\ Len(tokens) <= TOKENS_BLOCK_SIZE
  /\ ~Begun => /\ pass = "index" /\ i = 1 /\ ic = 0 /\ lc = 0
               /\ labels = <<>> /\ assembled = <<>>

LEMMA InitPasses == Init => PassesInv
<1> SUFFICES ASSUME Init PROVE PassesInv
  OBVIOUS
<1>1. AP!Init
  BY PassesSame DEF Init
<1>2. AP!TypeInv
  BY <1>1, PassesAssumption, AP!InitTypeInv
<1>3. Len(tokens) <= TOKENS_BLOCK_SIZE
  <2>1. tokens = <<>> /\ TOKENS_BLOCK_SIZE \in Nat
    BY <1>1, TokenizerAssumption DEF AP!Init
  <2> QED BY <2>1
<1>4. /\ pass = "index" /\ i = 1 /\ ic = 0 /\ lc = 0
      /\ labels = <<>> /\ assembled = <<>> /\ line_is_comment = FALSE
  BY <1>1, Zenon DEF AP!Init
<1> QED BY <1>2, <1>3, <1>4 DEF PassesInv

\* The words that the tokenizer has found are words of the passes.
LEMMA PassTokenType ==
  ASSUME NEW t \in Token, HasText(t) => Named(t.literall)
  PROVE  PassToken(t) \in AP!Token
<1>1. CASE HasText(t)
  <2> DEFINE w == CHOOSE w \in DOMAIN WordSpelling : WordSpelling[w] = t.literall
  <2>1. w \in DOMAIN WordSpelling /\ WordSpelling[w] = t.literall
    BY <1>1 DEF Named
  <2>2. w \in AP!Text
    BY <2>1, PassesSame, ToolchainAssumption
  <2> HIDE DEF w
  <2>3. CASE t.type = "WORD"
    <3>1. PassToken(t) = [type |-> "WORD", literall |-> w]
      BY <1>1, <2>3 DEF PassToken, Token, w
    <3> QED BY <2>2, <3>1 DEF AP!Token
  <2>4. CASE t.type = "NUMBER"
    <3>1. PassToken(t) = [type |-> "NUMBER", literall |-> w]
      BY <1>1, <2>4 DEF PassToken, Token, w
    <3>2. t.literall[1] \in Digit
      <4>1. {Double[c] : c \in DOMAIN Double} \cup {Single[c] : c \in DOMAIN Single}
              \cup {"NULL"} \subseteq
            {"PLUSPLUS", "MINUSMINUS", "EQUAL", "EXPRESSION_END", "PLUS", "MINUS", "ASIGN",
             "PAREN_OPEN", "PAREN_CLOSE", "CURLY_OPEN", "CURLY_CLOSE", "DOT", "COLON",
             "COMMA", "HASH", "NULL"}
        BY DEF Double, Single
      <4> QED BY <2>4, <4>1 DEF Token
    <3>3. w \notin DOMAIN Arity
      BY <2>1, <3>2, ToolchainAssumption DEF Arity
    <3> QED BY <2>2, <3>1, <3>3 DEF AP!Token
  <2> QED BY <1>1, <2>3, <2>4 DEF HasText
<1>2. CASE ~HasText(t)
  BY <1>2 DEF PassToken, AP!Token
<1> QED BY <1>1, <1>2

LEMMA StartPassesInv ==
  ASSUME TokenizerTypeOK, PassesInv, StartPasses
  PROVE  PassesInv'
<1>1. CASE Readable
  <2>1. /\ list \in Seq(Token) /\ Len(list) \in Nat /\ Len(list) <= TOKENS_BLOCK_SIZE
        /\ DOMAIN list = 1 .. Len(list)
    BY DEF TokenizerTypeOK
  <2>2. tokens' = [k \in 1 .. Len(list) |-> PassToken(list[k])]
    BY <1>1, <2>1 DEF StartPasses
  <2>3. ASSUME NEW k \in 1 .. Len(list)
        PROVE  PassToken(list[k]) \in AP!Token
    <3>1. list[k] \in Token
      BY <2>1, <2>3, ElementOfSeq
    <3> QED BY <1>1, <2>1, <3>1, PassTokenType DEF Readable
  <2>4. tokens' \in Seq(AP!Token) /\ Len(tokens') = Len(list)
    BY <2>1, <2>2, <2>3
  <2>5. /\ pass = "index" /\ i = 1 /\ ic = 0 /\ lc = 0
        /\ labels = <<>> /\ assembled = <<>> /\ stage' = "passes"
    BY <1>1 DEF StartPasses, PassesInv, Begun
  <2>6. UNCHANGED <<pass, i, tk, ic, lc, line_is_comment, labels, assembled>>
    BY DEF StartPasses
  <2>7. /\ labels' \in Seq(AP!LabelEntry(Len(tokens'))) /\ Len(labels') = 0
        /\ assembled' \in Seq(AP!Instruction(Len(tokens'))) /\ Len(assembled') = 0
    BY <2>5, <2>6
  <2>8. LABELS_SIZE \in Nat /\ PROGRAM_SIZE \in Nat
    BY ToolchainAssumption DEF A!AssemblerAssumption
  <2>9. AP!TypeInv'
    BY <2>1, <2>4, <2>5, <2>6, <2>7, <2>8 DEF AP!TypeInv, PassesInv, AP!Pass
  <2> QED BY <2>1, <2>4, <2>5, <2>6, <2>9 DEF PassesInv, Begun
<1>2. CASE ~Readable
  <2>1. UNCHANGED passesVars /\ stage' = "unknown"
    BY <1>2 DEF StartPasses, passesVars
  <2> QED BY <2>1 DEF PassesInv, passesVars, AP!TypeInv, Begun
<1> QED BY <1>1, <1>2

\* The other steps leave the passes alone, or are steps of theirs.
LEMMA NextPasses == TokenizerTypeOK /\ PassesInv /\ [Next]_vars => PassesInv'
<1> SUFFICES ASSUME TokenizerTypeOK, PassesInv, [Next]_vars PROVE PassesInv'
  OBVIOUS
<1>1. ASSUME UNCHANGED passesVars, Begun => Begun'
      PROVE  PassesInv'
  BY <1>1 DEF PassesInv, passesVars, AP!TypeInv
<1>2. CASE StartPasses
  BY <1>2, StartPassesInv
<1>3. CASE Assemble
  <2>1. AP!TypeInv /\ [AP!Next]_(AP!vars) /\ Begun /\ stage' = stage
    BY <1>3, PassesSame DEF Assemble, AP!Next, PassesInv, Begun, chainVars
  <2>2. AP!TypeInv' /\ line_is_comment' \in BOOLEAN
    BY <2>1, PassesAssumption, AP!NextTypeInv, AP!NextFlag DEF PassesInv
  <2>3. tokens' = tokens
    BY <2>1, PassesAssumption, AP!ListFixed
  <2> QED BY <2>1, <2>2, <2>3 DEF PassesInv, Begun
<1>4. CASE Main \/ Tokenize
  BY <1>1, <1>4 DEF Main, Tokenize, Begun, chainVars
<1>5. CASE AssemblerDies \/ ShowProgram \/ WriteFile \/ WriteFails \/ KilledWriting
           \/ List \/ Load \/ Execute \/ ExecuteDone
  BY <1>1, <1>5
     DEF AssemblerDies, ShowProgram, WriteFile, WriteFails, KilledWriting, List, Load,
         Execute, ExecuteDone, Exit, Begun, chainVars
<1>6. CASE UNCHANGED vars
  BY <1>1, <1>6 DEF vars, passesVars, chainVars, Begun
<1> QED BY <1>2, <1>3, <1>4, <1>5, <1>6 DEF Next, Step

-----------------------------------------------------------------------------
(***************************************************************************)
(* The instruction files.                                                  *)
(***************************************************************************)

\* The lines that the passes have assembled are a program of the machine.
LEMMA EncodedLoadable ==
  ASSUME VM!FloatAssumption, PassesInv
  PROVE  /\ Len(Encoded) \in Nat
         /\ Encoded \in Seq(VM!Instruction)
         /\ VM!Loadable(Encoded)
<1>1. /\ assembled \in Seq(AP!Instruction(Len(tokens))) /\ Len(assembled) \in Nat
      /\ Len(assembled) <= PROGRAM_SIZE /\ DOMAIN assembled = 1 .. Len(assembled)
      /\ Len(tokens) \in Nat /\ Len(tokens) <= TOKENS_BLOCK_SIZE
  BY DEF PassesInv, AP!TypeInv
<1>2. ASSUME NEW k \in 1 .. Len(assembled)
      PROVE  InstructionOf(assembled[k]) \in VM!Instruction
  <2> DEFINE line == assembled[k]
  <2>1. line \in AP!Instruction(Len(tokens))
    BY <1>1, <1>2, ElementOfSeq
  <2> HIDE DEF line
  <2>2. /\ line.op \in DOMAIN Arity /\ line.regs \in [1 .. 3 -> Nat]
        /\ line.dval \in AP!Imm(Len(tokens))
    BY <2>1 DEF AP!Instruction
  <2>3. line.dval \in VM!Word
    <3>1. 0 .. TOKENS_BLOCK_SIZE \subseteq VM!Word /\ TOKENS_BLOCK_SIZE \in Nat
      BY WordFacts, ToolchainAssumption
    <3>2. 0 .. Len(tokens) \subseteq VM!Word /\ 0 \in VM!Word
      BY <1>1, <3>1
    <3> QED BY <2>2, <3>2, ToolchainAssumption DEF AP!Imm
  <2>4. ToFloat(line.dval) \in VM!Word
    BY <2>3 DEF VM!FloatAssumption
  <2>5. is_keyword(line.op) \in Opcodes
    <3>1. line.op \in Keyword
      BY <2>2 DEF Arity
    <3> QED BY <3>1, KeywordOpcode
  <2>6. assemble(is_keyword(line.op), line.regs, ToFloat(line.dval), line.dval)
          \in VM!Instruction
    BY <2>2, <2>3, <2>4, <2>5, AssembleType
  <2> QED BY <2>6 DEF InstructionOf, line
<1>3. Encoded \in Seq(VM!Instruction) /\ Len(Encoded) = Len(assembled)
  BY <1>1, <1>2 DEF Encoded
<1>4. PROGRAM_SIZE \in Nat /\ PROGRAM_SIZE + 2 < VM!SIZE_MOD /\ VM!SIZE_MOD \in Int
  <2>1. PROGRAM_SIZE \in Nat
    BY ToolchainAssumption DEF A!AssemblerAssumption
  <2>2. PROGRAM_SIZE + 2 < VM!SIZE_MOD
    BY ToolchainAssumption
  <2>3. VM!SIZE_MOD \in Nat
    BY WordFacts
  <2> QED BY <2>1, <2>2, <2>3
<1> QED BY <1>1, <1>3, <1>4 DEF VM!Loadable

FilesInv ==
  /\ argv \in CommandLines
  /\ stage \in Stage
  /\ out_path \in Paths /\ DOMAIN disk = Paths
  /\ \A p \in Paths : VM!Loadable(disk[p].instructions)

LEMMA InitFiles == Init => FilesInv
<1> SUFFICES ASSUME Init PROVE FilesInv
  OBVIOUS
<1>1. PICK earlier \in EarlierFiles : disk = [p \in Paths |-> earlier]
  BY DEF Init
<1>2. VM!Loadable(earlier.instructions)
  BY ToolchainAssumption
<1>3. argv \in CommandLines /\ stage = "main" /\ out_path = DefaultPath
  BY DEF Init
<1> QED BY <1>1, <1>2, <1>3 DEF FilesInv, Stage, Paths

\* A file that was cut short is a beginning of the program.
LEMMA CutFiles ==
  ASSUME VM!FloatAssumption, PassesInv, FilesInv,
         NEW n \in 0 .. Len(Encoded), NEW fragment, Cut(n, fragment)
  PROVE  DOMAIN disk' = Paths /\ \A p \in Paths : VM!Loadable(disk'[p].instructions)
<1> DEFINE part == SubSeq(Encoded, 1, n)
<1>1. /\ Len(Encoded) \in Nat /\ Encoded \in Seq(VM!Instruction)
      /\ Len(Encoded) + 2 < VM!SIZE_MOD /\ VM!SIZE_MOD \in Int
  <2>1. VM!SIZE_MOD \in Nat
    BY WordFacts
  <2>2. Len(Encoded) \in Nat /\ Encoded \in Seq(VM!Instruction) /\ VM!Loadable(Encoded)
    BY EncodedLoadable
  <2> HIDE DEF Encoded
  <2> QED BY <2>1, <2>2 DEF VM!Loadable
<1>2. part \in Seq(VM!Instruction) /\ Len(part) = n
  <2> HIDE DEF Encoded
  <2> QED BY <1>1, SubSeqProperties
<1>3. VM!Loadable(part)
  <2> HIDE DEF part
  <2> QED BY <1>1, <1>2 DEF VM!Loadable
<1>4. disk' = [disk EXCEPT ![out_path] = [exists |-> TRUE, instructions |-> part,
                                          fragment |-> fragment]]
  BY DEF Cut, Rewritten, InstructionFile
<1> HIDE DEF part
<1> QED BY <1>3, <1>4 DEF FilesInv

LEMMA NextFiles ==
  ASSUME VM!FloatAssumption, PassesInv, FilesInv, [Next]_vars
  PROVE  FilesInv'
<1>1. ASSUME UNCHANGED <<argv, out_path, disk>>, stage' \in Stage
      PROVE  FilesInv'
  BY <1>1 DEF FilesInv
<1>2. CASE Main
  <2>1. stage' \in Stage
    BY <1>2 DEF Main, Exit, Stage
  <2>2. out_path' \in Paths
    BY <1>2 DEF Main, OutPath, Paths, FilesInv
  <2>3. argv' = argv /\ disk' = disk
    BY <1>2 DEF Main
  <2> QED BY <2>1, <2>2, <2>3 DEF FilesInv
<1>3. CASE WriteFile \/ WriteFails \/ KilledWriting
  <2>1. argv' = argv /\ out_path' = out_path /\ stage' \in {"load", "exited"}
    BY <1>3 DEF WriteFile, WriteFails, KilledWriting, processVars, Exit
  <2>2. Len(Encoded) \in Nat
    BY EncodedLoadable
  <2>3. UNCHANGED disk \/ \E n \in 0 .. Len(Encoded), fragment \in BOOLEAN : Cut(n, fragment)
    <3> HIDE DEF Encoded
    <3>1. CASE WriteFile
      <4>1. Cut(Len(Encoded), FALSE)
        BY <3>1 DEF WriteFile
      <4>2. Len(Encoded) \in 0 .. Len(Encoded)
        BY <2>2
      <4> QED BY <4>1, <4>2
    <3>2. CASE WriteFails
      <4>1. 0 .. Len(Encoded) - 1 \subseteq 0 .. Len(Encoded)
        BY <2>2
      <4> QED BY <3>2, <4>1 DEF WriteFails
    <3>3. CASE KilledWriting
      BY <3>3 DEF KilledWriting
    <3> QED BY <1>3, <3>1, <3>2, <3>3
  <2>4. DOMAIN disk' = Paths /\ \A p \in Paths : VM!Loadable(disk'[p].instructions)
    BY <2>3, CutFiles DEF FilesInv
  <2> QED BY <2>1, <2>4 DEF FilesInv, Stage
<1>4. CASE Tokenize \/ StartPasses \/ Assemble \/ AssemblerDies \/ ShowProgram \/ List
           \/ Load \/ Execute \/ ExecuteDone
  <2>1. UNCHANGED <<argv, out_path, disk>>
    BY <1>4 DEF Tokenize, StartPasses, Assemble, AssemblerDies, ShowProgram, List, Load,
         Execute, ExecuteDone, processVars, chainVars
  <2>2. stage' \in {stage, "passes", "unknown", "exited", "write", "execute"}
    BY <1>4 DEF Tokenize, StartPasses, Assemble, AssemblerDies, ShowProgram, List, Load,
         Execute, ExecuteDone, chainVars, Exit
  <2> QED BY <1>1, <2>1, <2>2 DEF FilesInv, Stage
<1>5. CASE UNCHANGED vars
  BY <1>1, <1>5 DEF vars, processVars, chainVars, FilesInv
<1> QED BY <1>2, <1>3, <1>4, <1>5 DEF Next, Step

-----------------------------------------------------------------------------
(***************************************************************************)
(* The machine.  It has not called before it was given the program.        *)
(***************************************************************************)
MachineInv ==
  /\ VP!IInv
  /\ stage \notin {"execute", "exited"} => frames = 0

LEMMA InitMachineInv == ASSUME VM!FloatAssumption PROVE Init => MachineInv
<1>1. Init => VP!Init
  BY MachineSame DEF Init
<1>2. Init => frames = 0
  BY <1>1 DEF VP!Init, VP!InitMachine
<1> QED BY <1>1, <1>2, MachineAssumptions, VP!InitIInv DEF MachineInv

LEMMA NextMachine ==
  ASSUME VM!FloatAssumption, FilesInv, MachineInv, [Next]_vars
  PROVE  MachineInv'
<1>1. ASSUME UNCHANGED machineVars, stage \in {"execute", "exited"} => stage' \in {"execute", "exited"}
      PROVE  MachineInv'
  <2>1. UNCHANGED VP!vars /\ frames' = frames
    BY <1>1 DEF machineVars, VP!vars, VP!regs, VP!calls, VP!stack
  <2>2. [VP!Next]_(VP!vars)
    BY <2>1
  <2>3. VP!IInv'
    BY <2>2, MachineAssumptions, VP!NextIInv DEF MachineInv
  <2> QED BY <1>1, <2>1, <2>3 DEF MachineInv
<1>2. CASE Load
  <2>1. VM!Loadable(program')
    BY <1>2 DEF Load, Loaded, FilesInv
  <2>2. VP!Loadable(program')
    BY <2>1, MachineSame
  <2>3. frames = 0 /\ stage' = "execute"
    BY <1>2 DEF Load, MachineInv
  <2>4. UNCHANGED <<pc, status, iregisters, fregisters, accum_register, frames,
                    frame_memory, stack_top, STACK, wrote>>
    BY <1>2 DEF Load
  <2>5. VP!TypeOK'
    BY <2>2, <2>4 DEF MachineInv, VP!IInv, VP!TypeOK
  <2>6. VP!LiveFramesReturnToCalls' /\ VP!FreeFramesHoldNoReturn'
    BY <2>3, <2>4
       DEF MachineInv, VP!IInv, VP!LiveFramesReturnToCalls, VP!FreeFramesHoldNoReturn
  <2> QED BY <2>3, <2>5, <2>6 DEF MachineInv, VP!IInv
<1>3. CASE Execute
  <2>1. [VP!Next]_(VP!vars) /\ stage' = "execute"
    BY <1>3, MachineSame DEF Execute, VP!Next, chainVars
  <2>2. VP!IInv'
    BY <2>1, MachineAssumptions, VP!NextIInv DEF MachineInv
  <2> QED BY <2>1, <2>2 DEF MachineInv
<1>4. CASE Main \/ Tokenize \/ StartPasses \/ Assemble \/ AssemblerDies \/ ShowProgram
           \/ WriteFile \/ WriteFails \/ KilledWriting \/ List \/ ExecuteDone
  <2>1. UNCHANGED machineVars
    BY <1>4 DEF Main, Tokenize, StartPasses, Assemble, AssemblerDies, ShowProgram,
         WriteFile, WriteFails, KilledWriting, List, ExecuteDone
  <2>2. stage \in {"execute", "exited"} => stage' \in {"execute", "exited"}
    BY <1>4 DEF Main, Tokenize, StartPasses, Assemble, AssemblerDies, ShowProgram,
         WriteFile, WriteFails, KilledWriting, List, ExecuteDone, Exit, chainVars
  <2> QED BY <1>1, <2>1, <2>2
<1>5. CASE UNCHANGED vars
  BY <1>1, <1>5 DEF vars, chainVars
<1> QED BY <1>2, <1>3, <1>4, <1>5 DEF Next, Step

-----------------------------------------------------------------------------
LEMMA NextTokenizer == TokenizerTypeOK /\ [Next]_vars => TokenizerTypeOK'
<1>1. [Next]_vars => TokenizerStep \/ UNCHANGED tokenizerVars
  BY DEF Next, Step, vars, Main, Tokenize, StartPasses, Assemble, AssemblerDies, ShowProgram,
         WriteFile, WriteFails, KilledWriting, List, Load, Execute, ExecuteDone
<1> QED BY <1>1, TokenizerTypes

\* Whatever the source and the sizes: the characters, the tokens and the words keep
\* within the arrays that hold them, the passes keep to their types on the tokens
\* that the tokenizer has made, what they assemble is an instruction file that the
\* machine can load, and the machine keeps to its types on the file that it finds
\* (main_assemble, write_to_file, load_from_file, execute_program).
THEOREM TypeCorrect ==
  ASSUME VM!FloatAssumption
  PROVE  Spec => []TypeOK
<1> DEFINE Inv == TokenizerTypeOK /\ PassesInv /\ FilesInv /\ MachineInv
<1>1. Init => Inv
  BY TokenizerInitType, InitPasses, InitFiles, InitMachineInv DEF Init
<1>2. Inv /\ [Next]_vars => Inv'
  BY NextTokenizer, NextPasses, NextFiles, NextMachine
<1>3. Inv => TypeOK
  <2>1. PassesInv => A!TypeOK
    BY PassesAssumption, AP!TypesMeant, PassesSame DEF PassesInv
  <2>2. MachineInv => VM!TypeOK
    BY MachineSame DEF MachineInv, VP!IInv
  <2> QED BY <2>1, <2>2 DEF TypeOK, FilesInv
<1> HIDE DEF Inv
<1> QED BY <1>1, <1>2, <1>3, PTL DEF Spec

-----------------------------------------------------------------------------
(***************************************************************************)
(* What the machine runs.                                                  *)
(***************************************************************************)
Before == {"main", "source", "passes", "list", "write"}

OneProgram(p) ==
  \/ p = Encoded
  \/ fault /\ p \in {f.instructions : f \in EarlierFiles}
  \/ fault /\ \E n \in 0 .. Len(Encoded) : p = SubSeq(Encoded, 1, n)

\* Until the assembler writes, every file is one from before.
RunInv ==
  /\ argv \in CommandLines
  /\ out_path \in Paths /\ DOMAIN disk = Paths
  /\ stage \in Before => \A p \in Paths : disk[p] \in EarlierFiles
  /\ stage = "load" => OneProgram(disk[out_path].instructions)
  /\ stage = "execute" => OneProgram(program)

LEMMA MachineKept == VM!Step => program' = program
BY DEF VM!Step, VM!Push, VM!Pop, VM!Load, VM!LoadFloat, VM!Save, VM!Write, VM!ComputeWord,
       VM!ComputeFloat, VM!CastFloat, VM!Idle, VM!Record, VM!Call, VM!Return,
       VM!RootReturn, VM!Halt, VM!Jump, VM!Abort, VM!Fault

LEMMA EncodedWhole ==
  ASSUME PassesInv
  PROVE  Len(Encoded) \in Nat /\ SubSeq(Encoded, 1, Len(Encoded)) = Encoded
<1> DEFINE S == {InstructionOf(assembled[k]) : k \in DOMAIN assembled}
<1>1. DOMAIN assembled = 1 .. Len(assembled) /\ Len(assembled) \in Nat
  BY DEF PassesInv, AP!TypeInv
<1>2. Encoded \in Seq(S)
  BY <1>1 DEF Encoded
<1> HIDE DEF S, Encoded
<1> QED BY <1>2, SubSeqFull

LEMMA InitRun == Init => RunInv
BY DEF Init, RunInv, Paths, Before

LEMMA NextRun ==
  ASSUME PassesInv, RunInv, [Next]_vars
  PROVE  RunInv'
<1>len. Len(Encoded) \in Nat
  BY EncodedWhole
<1>1. ASSUME UNCHANGED <<argv, out_path, disk, assembled, program, fault>>,
             stage' \in Before => stage \in Before,
             stage' \in {"load", "execute"} => stage' = stage
      PROVE  RunInv'
  <2>1. Encoded' = Encoded
    BY <1>1 DEF Encoded
  <2> QED BY <1>1, <2>1 DEF RunInv, OneProgram
<1>2. CASE Main
  <2>1. out_path' \in Paths
    BY <1>2 DEF Main, OutPath, Paths, RunInv
  <2>2. /\ argv' = argv /\ disk' = disk /\ stage = "main"
        /\ stage' \in {"list", "source", "exited"}
    BY <1>2 DEF Main, Exit
  <2> QED BY <2>1, <2>2 DEF RunInv, Before
<1>3. CASE Assemble
  <2>1. UNCHANGED <<argv, out_path, disk>> /\ stage = "passes" /\ stage' = "passes"
    BY <1>3 DEF Assemble, processVars, chainVars
  <2> QED BY <2>1 DEF RunInv
<1>4. CASE WriteFile
  <2>1. /\ UNCHANGED <<argv, out_path, assembled, fault>>
        /\ stage' = "load"
        /\ Cut(Len(Encoded), FALSE)
    BY <1>4 DEF WriteFile, processVars, passesVars
  <2>2. Encoded' = Encoded
    BY <2>1 DEF Encoded
  <2>3. disk' = [disk EXCEPT ![out_path] = InstructionFile(Encoded, FALSE)]
    BY <2>1, EncodedWhole DEF Cut, Rewritten
  <2>4. DOMAIN disk' = Paths /\ disk'[out_path].instructions = Encoded
    BY <2>3 DEF RunInv, InstructionFile
  <2> QED BY <2>1, <2>2, <2>4 DEF RunInv, OneProgram, Before
<1>5. CASE WriteFails
  <2>1. /\ UNCHANGED <<argv, out_path, assembled>> /\ fault'
        /\ stage = "write" /\ stage' = "load"
    BY <1>5 DEF WriteFails, processVars, passesVars
  <2>2. Encoded' = Encoded
    BY <2>1 DEF Encoded
  <2>3. CASE UNCHANGED disk
    <3>1. disk[out_path] \in EarlierFiles
      BY <2>1 DEF RunInv, Before
    <3> QED BY <2>1, <2>3, <3>1 DEF RunInv, OneProgram, Before
  <2>4. ASSUME NEW n \in 0 .. Len(Encoded) - 1, NEW fragment \in BOOLEAN, Cut(n, fragment)
        PROVE  RunInv'
    <3>1. disk' = [disk EXCEPT ![out_path] = InstructionFile(SubSeq(Encoded, 1, n), fragment)]
      BY <2>4 DEF Cut, Rewritten
    <3>2. DOMAIN disk' = Paths /\ disk'[out_path].instructions = SubSeq(Encoded, 1, n)
      BY <3>1 DEF RunInv, InstructionFile
    <3>3. n \in 0 .. Len(Encoded)
      BY <1>len
    <3>4. OneProgram(disk[out_path].instructions)'
      BY <2>1, <2>2, <3>2, <3>3 DEF OneProgram
    <3> QED BY <2>1, <3>2, <3>4 DEF RunInv, Before
  <2> QED BY <1>5, <2>3, <2>4 DEF WriteFails
<1>6. CASE KilledWriting
  <2>1. /\ UNCHANGED <<argv, out_path, assembled>> /\ fault'
        /\ stage' \in {"exited", "load"}
    BY <1>6 DEF KilledWriting, processVars, passesVars
  <2>2. Encoded' = Encoded
    BY <2>1 DEF Encoded
  <2>3. PICK n \in 0 .. Len(Encoded), fragment \in BOOLEAN : Cut(n, fragment)
    BY <1>6 DEF KilledWriting
  <2>4. disk' = [disk EXCEPT ![out_path] = InstructionFile(SubSeq(Encoded, 1, n), fragment)]
    BY <2>3 DEF Cut, Rewritten
  <2>5. DOMAIN disk' = Paths /\ disk'[out_path].instructions = SubSeq(Encoded, 1, n)
    BY <2>4 DEF RunInv, InstructionFile
  <2>6. OneProgram(disk[out_path].instructions)'
    BY <2>1, <2>2, <2>5 DEF OneProgram
  <2> QED BY <2>1, <2>5, <2>6 DEF RunInv, Before
<1>7. CASE Load
  <2>1. /\ UNCHANGED <<argv, out_path, disk, assembled, fault>>
        /\ stage = "load" /\ stage' = "execute"
        /\ program' = disk[out_path].instructions
    BY <1>7 DEF Load, Loaded, processVars, passesVars
  <2>2. Encoded' = Encoded
    BY <2>1 DEF Encoded
  <2> QED BY <2>1, <2>2 DEF RunInv, OneProgram, Before
<1>8. CASE Execute
  <2>1. UNCHANGED <<argv, out_path, disk, assembled, fault, stage>>
    BY <1>8 DEF Execute, processVars, passesVars, chainVars
  <2>2. program' = program
    BY <1>8, MachineKept DEF Execute
  <2> QED BY <1>1, <2>1, <2>2
<1>9. CASE Tokenize \/ StartPasses \/ AssemblerDies \/ ShowProgram \/ List \/ ExecuteDone
  <2>1. UNCHANGED <<argv, out_path, disk, assembled, program, fault>>
    BY <1>9 DEF Tokenize, StartPasses, AssemblerDies, ShowProgram, List, ExecuteDone,
         passesVars, machineVars, processVars, chainVars
  <2>2. /\ stage' \in Before => stage \in Before
        /\ stage' \in {"load", "execute"} => stage' = stage
    BY <1>9 DEF Tokenize, StartPasses, AssemblerDies, ShowProgram, List, ExecuteDone,
         chainVars, Exit, Before
  <2> QED BY <1>1, <2>1, <2>2
<1>10. CASE UNCHANGED vars
  BY <1>1, <1>10 DEF vars, passesVars, machineVars, processVars, chainVars
<1> QED BY <1>2, <1>3, <1>4, <1>5, <1>6, <1>7, <1>8, <1>9, <1>10 DEF Next, Step

\* Whatever the source, the command line, the files from before and the failures of
\* the disk: a program that the machine runs is that of the source, or one from
\* before, or a beginning of the source's, and the last two only after a failure.
THEOREM RunsOneProgramCorrect == Spec => []RunsOneProgram
<1> DEFINE Inv == TokenizerTypeOK /\ PassesInv /\ RunInv
<1>2. Init => Inv
  BY InitRun, TokenizerInitType, InitPasses DEF Init
<1>3. Inv /\ [Next]_vars => Inv'
  BY NextTokenizer, NextPasses, NextRun
<1>4. Inv => RunsOneProgram
  BY DEF RunInv, OneProgram, RunsOneProgram
<1> HIDE DEF Inv
<1> QED BY <1>2, <1>3, <1>4, PTL DEF Spec

-----------------------------------------------------------------------------
(***************************************************************************)
(* What becomes of the lines of the source.  The passes start once they    *)
(* have the tokens, and are done when the program is written, which has    *)
(* been listed by then.                                                    *)
(***************************************************************************)
LinesInv ==
  /\ ~Begun => AP!Started
  /\ AP!AssembleInv /\ AP!IndexInv /\ AP!ReferencesInv /\ AP!LimitsInv
  /\ stage \in {"write", "load", "execute"} => pass = "done"
  /\ stage = "write" => listing = [k \in DOMAIN Encoded |-> Shown(Encoded[k])]

\* Before their first step the passes have assembled and indexed nothing.
LEMMA PassesStart ==
  AP!TypeInv /\ AP!Started
    => AP!AssembleInv /\ AP!IndexInv /\ AP!ReferencesInv /\ AP!LimitsInv
<1>1. AP!TypeInv /\ AP!Started => AP!IndexInv /\ AP!LimitsInv
  BY PassesAssumption, AP!InitIndexInv, AP!InitLimitsInv
<1>2. AP!Started => pass = "index"
  BY DEF AP!Started
<1>3. pass = "index" => AP!AssembleInv /\ AP!ReferencesInv
  BY DEF AP!AssembleInv, AP!ReferencesInv, AP!OnlyLoneWordsLost, AP!WellSpacedAssembled,
         AP!EveryLineAssembled
<1> QED BY <1>1, <1>2, <1>3

LEMMA PassesStartNext ==
  (AP!TypeInv /\ AP!Started
     => AP!AssembleInv /\ AP!IndexInv /\ AP!ReferencesInv /\ AP!LimitsInv)'
BY PassesStart, PTL

LEMMA InitLines == PassesInv /\ Init => LinesInv
<1> SUFFICES ASSUME PassesInv, Init PROVE LinesInv
  OBVIOUS
<1>1. AP!Init
  BY PassesSame DEF Init
<1>2. AP!Started
  BY <1>1, Zenon DEF AP!Init, AP!Started
<1>3. stage = "main"
  BY DEF Init
<1> QED BY <1>2, <1>3, PassesStart DEF PassesInv, LinesInv

\* A step of the passes, or none.
LEMMA PassesKeep ==
  ASSUME PassesInv, PassesInv', LinesInv, [AP!Next]_(AP!vars)
  PROVE  (AP!AssembleInv /\ AP!IndexInv /\ AP!ReferencesInv /\ AP!LimitsInv)'
<1>1. /\ AP!TypeInv /\ AP!TypeInv'
      /\ AP!AssembleInv /\ AP!IndexInv /\ AP!ReferencesInv /\ AP!LimitsInv
  BY DEF PassesInv, LinesInv
<1> QED BY <1>1, PassesAssumption, AP!NextAssembleInv, AP!NextIndexInv, AP!NextReferencesInv,
           AP!NextLimitsInv

LEMMA NextLines ==
  ASSUME PassesInv, PassesInv', LinesInv, [Next]_vars
  PROVE  LinesInv'
<1>1. ASSUME UNCHANGED passesVars,
             stage' = "write" => stage = "write" /\ listing' = listing,
             stage' \in {"load", "execute"} => stage \in {"write", "load", "execute"},
             Begun => Begun'
      PROVE  LinesInv'
  <2>1. [AP!Next]_(AP!vars)
    BY <1>1 DEF passesVars, AP!vars
  <2>2. AP!Started => AP!Started'
    BY <1>1 DEF passesVars, AP!Started
  <2>3. pass' = pass /\ Encoded' = Encoded
    BY <1>1 DEF passesVars, Encoded
  <2> QED BY <1>1, <2>1, <2>2, <2>3, PassesKeep DEF LinesInv
<1>2. CASE StartPasses /\ Readable
  <2>1. UNCHANGED <<pass, i, tk, ic, lc, line_is_comment, labels, assembled>>
        /\ stage' = "passes" /\ ~Begun
    BY <1>2 DEF StartPasses, Begun
  <2>2. AP!Started'
    BY <2>1 DEF LinesInv, AP!Started
  <2> QED BY <2>1, <2>2, PassesStartNext DEF PassesInv, LinesInv, Begun
<1>3. CASE StartPasses /\ ~Readable
  <2>1. UNCHANGED passesVars /\ stage' = "unknown"
    BY <1>3 DEF StartPasses, passesVars
  <2> QED BY <1>1, <2>1 DEF Begun
<1>4. CASE Assemble
  <2>1. [AP!Next]_(AP!vars) /\ stage = "passes" /\ stage' = "passes"
    BY <1>4, PassesSame DEF Assemble, AP!Next, chainVars
  <2> QED BY <2>1, PassesKeep DEF LinesInv, Begun
<1>5. CASE ShowProgram
  <2>1. /\ UNCHANGED passesVars /\ pass' = "done" /\ stage' = "write" /\ stage = "passes"
        /\ listing' = [k \in DOMAIN Encoded |-> Shown(Encoded[k])]
    BY <1>5 DEF ShowProgram, passesVars
  <2>2. [AP!Next]_(AP!vars)
    BY <2>1 DEF passesVars, AP!vars
  <2>3. Encoded' = Encoded
    BY <2>1 DEF passesVars, Encoded
  <2> QED BY <2>1, <2>2, <2>3, PassesKeep DEF LinesInv, Begun
<1>6. CASE Main \/ Tokenize \/ AssemblerDies \/ WriteFile \/ WriteFails \/ KilledWriting
           \/ List \/ Load \/ Execute \/ ExecuteDone
  <2>1. UNCHANGED passesVars
    BY <1>6 DEF Main, Tokenize, AssemblerDies, WriteFile, WriteFails, KilledWriting, List,
         Load, Execute, ExecuteDone
  <2>2. /\ stage' = "write" => stage = "write" /\ listing' = listing
        /\ stage' \in {"load", "execute"} => stage \in {"write", "load", "execute"}
        /\ Begun => Begun'
    BY <1>6 DEF Main, Tokenize, AssemblerDies, WriteFile, WriteFails, KilledWriting, List,
         Load, Execute, ExecuteDone, Exit, Begun, chainVars
  <2> QED BY <1>1, <2>1, <2>2
<1>7. CASE UNCHANGED vars
  BY <1>1, <1>7 DEF vars, chainVars, Begun
<1> QED BY <1>2, <1>3, <1>4, <1>5, <1>6, <1>7 DEF Next, Step

-----------------------------------------------------------------------------
(***************************************************************************)
(* Where calls and jumps go.                                               *)
(***************************************************************************)

\* The opcodes of the keywords that branch.
LEMMA BranchOpcodes ==
  /\ is_keyword("call") = "I_CALL" /\ is_keyword("jmp") = "I_JMP"
  /\ is_keyword("ejmp") = "I_EJMP" /\ is_keyword("nejmp") = "I_NEJMP"
<1>1. ASSUME NEW word, NEW n \in DOMAIN KEYWORDS, KEYWORDS[n] = word,
             \A k \in DOMAIN KEYWORDS : KEYWORDS[k] = word => k = n
      PROVE  is_keyword(word) = Inst[n]
  <2>1. (CHOOSE k \in DOMAIN KEYWORDS : KEYWORDS[k] = word) = n
    BY <1>1
  <2> QED BY <2>1 DEF is_keyword
<1>2. DOMAIN KEYWORDS = 1 .. 51
  BY DEF KEYWORDS
<1>3. KEYWORDS[12] = "call" /\ \A k \in 1 .. 51 : KEYWORDS[k] = "call" => k = 12
  BY DEF KEYWORDS
<1>4. KEYWORDS[42] = "jmp" /\ \A k \in 1 .. 51 : KEYWORDS[k] = "jmp" => k = 42
  BY DEF KEYWORDS
<1>5. KEYWORDS[43] = "ejmp" /\ \A k \in 1 .. 51 : KEYWORDS[k] = "ejmp" => k = 43
  BY DEF KEYWORDS
<1>6. KEYWORDS[44] = "nejmp" /\ \A k \in 1 .. 51 : KEYWORDS[k] = "nejmp" => k = 44
  BY DEF KEYWORDS
<1>7. /\ Inst[12] = "I_CALL" /\ Inst[42] = "I_JMP"
      /\ Inst[43] = "I_EJMP" /\ Inst[44] = "I_NEJMP"
  BY DEF Inst
<1>8. /\ is_keyword("call") = Inst[12] /\ is_keyword("jmp") = Inst[42]
      /\ is_keyword("ejmp") = Inst[43] /\ is_keyword("nejmp") = Inst[44]
  BY <1>1, <1>2, <1>3, <1>4, <1>5, <1>6
<1> QED BY <1>7, <1>8

\* A branch has the value of its operand in the storage.
LEMMA BranchInstruction ==
  ASSUME NEW line, line.op \in Branches
  PROVE  /\ InstructionOf(line).op = is_keyword(line.op)
         /\ InstructionOf(line).op \in {"I_CALL", "I_JMP", "I_EJMP", "I_NEJMP"}
         /\ line.op = "call" <=> InstructionOf(line).op = "I_CALL"
         /\ line.op \in ConditionalJumps <=> InstructionOf(line).op \in {"I_EJMP", "I_NEJMP"}
         /\ InstructionOf(line).imm = line.dval
<1> DEFINE made == InstructionOf(line)
<1>1. made = assemble(is_keyword(line.op), line.regs, ToFloat(line.dval), line.dval)
  BY DEF InstructionOf
<1>2. CASE line.op = "call"
  <2>1. made = CALL(line.dval)
    BY <1>1, <1>2, BranchOpcodes
       DEF assemble, MemoryAccesses, OneRegister, Casts, ThreeRegisters
  <2> QED BY <1>2, <2>1, BranchOpcodes DEF CALL, Encode, ConditionalJumps
<1>3. CASE line.op = "jmp"
  <2>1. made = JMP(line.dval)
    BY <1>1, <1>3, BranchOpcodes
       DEF assemble, MemoryAccesses, OneRegister, Casts, ThreeRegisters
  <2> QED BY <1>3, <2>1, BranchOpcodes DEF JMP, Encode, ConditionalJumps
<1>4. CASE line.op = "ejmp"
  <2>1. made = EJMP(line.dval, line.regs[2], line.regs[3])
    BY <1>1, <1>4, BranchOpcodes
       DEF assemble, MemoryAccesses, OneRegister, Casts, ThreeRegisters
  <2> QED BY <1>4, <2>1, BranchOpcodes DEF EJMP, Encode, ConditionalJumps
<1>5. CASE line.op = "nejmp"
  <2>1. made = NEJMP(line.dval, line.regs[2], line.regs[3])
    BY <1>1, <1>5, BranchOpcodes
       DEF assemble, MemoryAccesses, OneRegister, Casts, ThreeRegisters
  <2> QED BY <1>5, <2>1, BranchOpcodes DEF NEJMP, Encode, ConditionalJumps
<1> QED BY <1>2, <1>3, <1>4, <1>5 DEF Branches, ConditionalJumps

\* What the machine does with one.
LEMMA BranchStep ==
  ASSUME VM!Step, status' # "undefined",
         VM!Inst.op \in {"I_CALL", "I_JMP", "I_EJMP", "I_NEJMP"}
  PROVE  /\ VM!Inst.op = "I_CALL" => pc' = VM!IntToSize(VM!AsInt(VM!Inst.imm))
         /\ VM!Inst.op = "I_JMP" => pc' = VM!Inst.imm
         /\ VM!Inst.op \in {"I_EJMP", "I_NEJMP"} => pc' \in {pc + 1, VM!Inst.imm}
<1>1. VM!Call \/ VM!Jump
  BY DEF VM!Step, VM!Push, VM!Pop, VM!Load, VM!LoadFloat, VM!Save, VM!Write, VM!ComputeWord,
         VM!ComputeFloat, VM!CastFloat, VM!Idle, VM!Record, VM!Return, VM!RootReturn, VM!Halt,
         VM!Abort, VM!Fault, VM!Fetch, VM!WordOps, VM!IntArithOps, VM!IntStepOps,
         VM!LogicOps, VM!FloatArithOps, VM!IntCompareOps, VM!FloatCompareOps, VM!IntCastOps,
         VM!ToFloatOps, VM!FromFloatOps, VM!IdleOps
<1>2. CASE VM!Call
  BY <1>2 DEF VM!Call, VM!Fetch
<1>3. CASE VM!Jump
  BY <1>3 DEF VM!Jump, VM!Fetch, VM!Taken, VM!DirectJumpOps, VM!RegJumpOps
<1> QED BY <1>1, <1>2, <1>3

\* An address in a program is one that a call goes to.
LEMMA CallTarget ==
  ASSUME NEW address \in Nat, address <= PROGRAM_SIZE
  PROVE  VM!IntToSize(VM!AsInt(address)) = address
<1>1. PROGRAM_SIZE \in Nat /\ PROGRAM_SIZE + 2 < VM!SIZE_MOD
      /\ PROGRAM_SIZE < VM!UINT_MOD \div 2
  BY ToolchainAssumption DEF A!AssemblerAssumption
<1>2. VM!UINT_MOD \in Nat /\ VM!SIZE_MOD \in Nat
  <2>1. Radix \in Nat
    BY ToolchainAssumption DEF VM!MachineAssumption
  <2>2. VM!UINT_MOD \in Nat
    BY <2>1 DEF VM!UINT_MOD
  <2> QED BY <2>2 DEF VM!SIZE_MOD
<1>3. VM!UINT_MOD \div 2 \in Int
  BY <1>2
<1>4. VM!AsInt(address) = address
  BY <1>1, <1>3 DEF VM!AsInt
<1>5. address % VM!SIZE_MOD = address
  BY <1>1, <1>2
<1> QED BY <1>4, <1>5 DEF VM!IntToSize

\* The instruction of a line, and where the label is.
LEMMA LineOfBranch ==
  ASSUME PassesInv, LinesInv, stage = "execute", A!WellSpaced,
         NEW s \in A!InstructionStarts, NEW d \in A!LabelStarts,
         A!RefersTo(s, tokens[d].literall), A!FirstOfName(d)
  PROVE  /\ assembled[A!Above(s) + 1].op = tokens[s].literall
         /\ assembled[A!Above(s) + 1].dval \in Garbage \cup {A!Above(d)}
         /\ A!Above(d) \in Nat /\ A!Above(d) <= PROGRAM_SIZE
<1>1. pass = "done" /\ AP!TypeInv /\ AP!AssembleInv /\ AP!IndexInv /\ AP!ReferencesInv
  BY DEF PassesInv, LinesInv
<1>2. AP!WellSpaced /\ s \in AP!InstructionStarts /\ d \in AP!LabelStarts
      /\ AP!RefersTo(s, tokens[d].literall) /\ AP!FirstOfName(d)
  BY SourcesSame
<1>3. AP!WellSpacedResolved
  BY <1>1, PassesAssumption, AP!ResolvedMeant
<1>4. assembled[AP!Above(s) + 1].dval \in Garbage \cup {AP!Above(d)}
  BY <1>1, <1>2, <1>3 DEF AP!WellSpacedResolved
<1>5. AP!EveryLineAssembled
  BY <1>1, <1>2 DEF AP!AssembleInv, AP!WellSpacedAssembled
<1>6. /\ assembled[AP!Above(s) + 1].op = tokens[s].literall
      /\ Len(assembled) = AP!Cardinality(AP!InstructionStarts)
  BY <1>1, <1>2, <1>5 DEF AP!EveryLineAssembled
<1>7. /\ AP!Above(d) \in Nat /\ AP!Above(d) <= AP!Cardinality(AP!InstructionStarts)
      /\ AP!Cardinality(AP!InstructionStarts) \in Nat
  BY <1>1, PassesAssumption, AP!AboveBounded
<1>8. Len(assembled) <= PROGRAM_SIZE /\ PROGRAM_SIZE \in Nat
  BY <1>1, ToolchainAssumption DEF AP!TypeInv, A!AssemblerAssumption
<1> QED BY <1>4, <1>6, <1>7, <1>8, SourcesSame

LEMMA BranchReaches ==
  ASSUME PassesInv, LinesInv, RunInv, [Next]_vars,
         stage = "execute", VM!Executing, status' # "undefined", ~fault, A!WellSpaced,
         NEW s \in A!InstructionStarts, NEW d \in A!LabelStarts,
         A!Above(s) = pc, tokens[s].literall \in Branches,
         A!RefersTo(s, tokens[d].literall), A!FirstOfName(d),
         assembled[pc + 1].dval \notin Garbage,
         tokens[s].literall \in ConditionalJumps => pc' # pc + 1,
         ~ UNCHANGED vars
  PROVE  pc' = A!Above(d)
<1> DEFINE line == assembled[pc + 1]
<1>1. VM!Step
  BY DEF Next, Step, Main, Tokenize, StartPasses, Assemble, AssemblerDies, ShowProgram,
         WriteFile, WriteFails, KilledWriting, List, Load, Execute, ExecuteDone
<1>2. line.op = tokens[s].literall /\ line.dval = A!Above(d)
      /\ A!Above(d) \in Nat /\ A!Above(d) <= PROGRAM_SIZE
  BY LineOfBranch
<1>3. VM!Inst = InstructionOf(line)
  <2>1. program = Encoded
    BY DEF RunInv, OneProgram
  <2>2. DOMAIN Encoded = DOMAIN assembled /\ pc + 1 \in DOMAIN assembled
    <3>1. DOMAIN assembled = 1 .. Len(assembled) /\ Len(assembled) \in Nat
      BY DEF PassesInv, AP!TypeInv
    <3>2. Len(Encoded) = Len(assembled)
      BY <3>1 DEF Encoded
    <3>3. pc < Len(assembled)
      BY <2>1, <3>2 DEF VM!Executing
    <3>4. pc \in Nat
      BY PassesAssumption, SourcesSame, AP!AboveBounded DEF PassesInv
    <3> QED BY <3>1, <3>3, <3>4 DEF Encoded
  <2>3. Encoded[pc + 1] = InstructionOf(line)
    BY <2>2 DEF Encoded
  <2> QED BY <2>1, <2>3 DEF VM!Inst
<1> HIDE DEF line
<1>4. CASE line.op = "call"
  <2>1. pc' = VM!IntToSize(VM!AsInt(A!Above(d)))
    BY <1>1, <1>2, <1>3, <1>4, BranchInstruction, BranchStep
  <2> QED BY <1>2, <2>1, CallTarget
<1>5. CASE line.op # "call"
  BY <1>1, <1>2, <1>3, <1>5, BranchInstruction, BranchStep
<1> QED BY <1>4, <1>5

\* Whatever the source and the command line, a call or a jump that the machine takes
\* arrives at the first instruction below the label that its line names: tokenizer,
\* passes, encoding, the file and the machine agree about the address.
THEOREM BranchesCorrect == Spec => BranchesReachLabels
<1> DEFINE Inv == TokenizerTypeOK /\ PassesInv /\ LinesInv /\ RunInv
<1>1. Init => Inv
  BY TokenizerInitType, InitPasses, InitLines, InitRun DEF Init
<1>2. Inv /\ [Next]_vars => Inv'
  BY NextTokenizer, NextPasses, NextLines, NextRun
<1> DEFINE Reaches ==
      stage = "execute" /\ VM!Executing /\ status' # "undefined" /\ ~fault /\ A!WellSpaced =>
        \A s \in A!InstructionStarts, d \in A!LabelStarts :
          /\ A!Above(s) = pc
          /\ tokens[s].literall \in Branches
          /\ A!RefersTo(s, tokens[d].literall) /\ A!FirstOfName(d)
          /\ assembled[pc + 1].dval \notin Garbage
          /\ tokens[s].literall \in ConditionalJumps => pc' # pc + 1
          => pc' = A!Above(d)
<1>3. Inv /\ [Next]_vars => [Reaches]_vars
  BY BranchReaches
<1>4. BranchesReachLabels <=> [][Reaches]_vars
  BY PTL DEF BranchesReachLabels
<1> HIDE DEF Inv, Reaches
<1> QED BY <1>1, <1>2, <1>3, <1>4, PTL DEF Spec

-----------------------------------------------------------------------------
(***************************************************************************)
(* What the listing shows.                                                 *)
(***************************************************************************)

\* The keywords of the macros that make an instruction of another name.
LEMMA OtherMacroOpcodes ==
  ASSUME NEW word \in Keyword \ OtherMacro
  PROVE  is_keyword(word) \in Opcodes \ ({"I_GETAC"} \cup NotShown)
<1> DEFINE k == CHOOSE k \in DOMAIN KEYWORDS : KEYWORDS[k] = word
<1>1. k \in DOMAIN KEYWORDS /\ KEYWORDS[k] = word
  BY DEF Keyword
<1>2. is_keyword(word) = Inst[k] /\ is_keyword(word) \in Opcodes
  BY KeywordOpcode DEF is_keyword
<1> HIDE DEF k
<1>3. k \in 1 .. 51
  <2>1. DOMAIN KEYWORDS = 1 .. 51
    BY DEF KEYWORDS
  <2> QED BY <1>1, <2>1
<1>4. k \notin {13, 45, 46, 47}
  <2>1. \A n \in {13, 45, 46, 47} : KEYWORDS[n] \in OtherMacro
    <3>1. /\ KEYWORDS[13] = "getac" /\ KEYWORDS[45] = "rjmp"
          /\ KEYWORDS[46] = "erjmp" /\ KEYWORDS[47] = "nerjmp"
      BY DEF KEYWORDS
    <3> QED BY <3>1 DEF OtherMacro
  <2> QED BY <1>1, <2>1
<1>5. \A n \in 1 .. 51 : Inst[n] \in {"I_GETAC"} \cup NotShown => n \in {13, 45, 46, 47}
  BY DEF Inst, NotShown
<1> QED BY <1>2, <1>3, <1>4, <1>5

\* An instruction of which what is not shown is zero.
ShownWhole(inst) ==
  /\ inst = [op |-> inst.op, r0 |-> inst.r0, r1 |-> inst.r1, r2 |-> inst.r2,
             imm |-> inst.imm]
  /\ inst.op \notin NotShown
  /\ ShownRegisters(inst.op) \in 0 .. 3
  /\ ShownRegisters(inst.op) < 1 => inst.r0 = 0
  /\ ShownRegisters(inst.op) < 2 => inst.r1 = 0
  /\ ShownRegisters(inst.op) < 3 => inst.r2 = 0
  /\ inst.op \notin ShowsStorage => inst.imm = 0

LEMMA ShownWholeApart ==
  ASSUME NEW x, NEW y, ShownWhole(x), ShownWhole(y), Shown(x) = Shown(y)
  PROVE  x = y
<1>1. x.op = y.op
  <2>1. Shown(x).op = x.op /\ Shown(y).op = y.op
    BY DEF Shown, ShownWhole
  <2> QED BY <2>1
<1> DEFINE n == ShownRegisters(x.op)
           rx == <<x.r0, x.r1, x.r2>>
           ry == <<y.r0, y.r1, y.r2>>
<1>2. n \in 0 .. 3 /\ n = ShownRegisters(y.op)
  BY <1>1 DEF ShownWhole
<1>3. [k \in 1 .. n |-> rx[k]] = [k \in 1 .. n |-> ry[k]]
  <2>1. Shown(x).regs = [k \in 1 .. n |-> rx[k]]
    BY DEF Shown
  <2>2. Shown(y).regs = [k \in 1 .. ShownRegisters(y.op) |-> ry[k]]
    BY DEF Shown
  <2> HIDE DEF n, rx, ry
  <2> QED BY <1>2, <2>1, <2>2
<1>4. \A k \in 1 .. n : rx[k] = ry[k]
  <2> HIDE DEF n, rx, ry
  <2>1. \A k \in 1 .. n : [j \in 1 .. n |-> rx[j]][k] = rx[k] /\ [j \in 1 .. n |-> ry[j]][k] = ry[k]
    OBVIOUS
  <2> QED BY <1>3, <2>1
<1>5. /\ rx[1] = x.r0 /\ rx[2] = x.r1 /\ rx[3] = x.r2
      /\ ry[1] = y.r0 /\ ry[2] = y.r1 /\ ry[3] = y.r2
  OBVIOUS
<1>6. /\ n < 1 => x.r0 = 0 /\ y.r0 = 0
      /\ n < 2 => x.r1 = 0 /\ y.r1 = 0
      /\ n < 3 => x.r2 = 0 /\ y.r2 = 0
  BY <1>2 DEF ShownWhole
<1>7. x.r0 = y.r0 /\ x.r1 = y.r1 /\ x.r2 = y.r2
  <2> HIDE DEF n, rx, ry
  <2>1. x.r0 = y.r0
    BY <1>2, <1>4, <1>5, <1>6
  <2>2. x.r1 = y.r1
    BY <1>2, <1>4, <1>5, <1>6
  <2>3. x.r2 = y.r2
    BY <1>2, <1>4, <1>5, <1>6
  <2> QED BY <2>1, <2>2, <2>3
<1>8. x.imm = y.imm
  <2>1. CASE x.op \in ShowsStorage
    <3>1. Shown(x).imm = x.imm /\ Shown(y).imm = y.imm
      BY <1>1, <2>1 DEF Shown
    <3> QED BY <3>1
  <2>2. CASE x.op \notin ShowsStorage
    BY <1>1, <2>2 DEF ShownWhole
  <2> QED BY <2>1, <2>2
<1>9. /\ x = [op |-> x.op, r0 |-> x.r0, r1 |-> x.r1, r2 |-> x.r2, imm |-> x.imm]
      /\ y = [op |-> y.op, r0 |-> y.r0, r1 |-> y.r1, r2 |-> y.r2, imm |-> y.imm]
  BY DEF ShownWhole
<1> QED BY <1>1, <1>7, <1>8, <1>9

LEMMA EncodedParts ==
  ASSUME NEW op, NEW args, NEW storage
  PROVE  Encode(op, args, storage) =
           [op |-> op, r0 |-> IF 1 <= Len(args) THEN args[1] ELSE 0,
            r1 |-> IF 2 <= Len(args) THEN args[2] ELSE 0,
            r2 |-> IF 3 <= Len(args) THEN args[3] ELSE 0, imm |-> storage]
BY DEF Encode

\* assemble fills nothing that the listing leaves out.
LEMMA AssembledShownWhole ==
  ASSUME NEW line, line.op \in Keyword \ OtherMacro
  PROVE  ShownWhole(InstructionOf(line))
<1> DEFINE op   == is_keyword(line.op)
           arg  == line.regs
           fval == ToFloat(line.dval)
           dval == line.dval
           made == assemble(op, arg, fval, dval)
<1>1. op \in Opcodes /\ op \notin {"I_GETAC"} \cup NotShown
  BY OtherMacroOpcodes
<1>2. InstructionOf(line) = made
  BY DEF InstructionOf
<1> HIDE DEF op, arg, fval, dval
<1>3. ASSUME NEW o \in Opcodes, NEW args, NEW storage, o \notin NotShown,
             ShownRegisters(o) \in 0 .. 3, Len(args) = ShownRegisters(o),
             o \notin ShowsStorage => storage = 0
      PROVE  ShownWhole(Encode(o, args, storage))
  <2> DEFINE e == Encode(o, args, storage)
  <2>1. /\ e = [op |-> e.op, r0 |-> e.r0, r1 |-> e.r1, r2 |-> e.r2, imm |-> e.imm]
        /\ e.op = o /\ e.imm = storage
        /\ ~ (1 <= Len(args)) => e.r0 = 0
        /\ ~ (2 <= Len(args)) => e.r1 = 0
        /\ ~ (3 <= Len(args)) => e.r2 = 0
    BY EncodedParts
  <2> HIDE DEF e
  <2>2. ShownRegisters(e.op) = Len(args) /\ Len(args) \in 0 .. 3
    BY <1>3, <2>1
  <2>3. /\ Len(args) < 1 => e.r0 = 0
        /\ Len(args) < 2 => e.r1 = 0
        /\ Len(args) < 3 => e.r2 = 0
    BY <2>1, <2>2
  <2>4. e.op \notin NotShown /\ (e.op \notin ShowsStorage => e.imm = 0)
    BY <1>3, <2>1
  <2>5. ShownWhole(e)
    BY <2>1, <2>2, <2>3, <2>4, Zenon DEF ShownWhole
  <2> QED BY <2>5 DEF e
<1>4. ASSUME NEW o \in {"I_REC", "I_CALL", "I_JMP", "I_PRINT", "I_HALT"}
      PROVE  o \in Opcodes /\ ShownRegisters(o) = 0 /\ o \notin NotShown
  BY DEF Opcodes, Inst, ShownRegisters, NotShown, OneRegister, Casts, MemoryAccesses,
         ThreeRegisters
<1>5. CASE op \in {"I_SET", "I_FSET"}
  <2> DEFINE args == <<arg[1]>>
  <2>1. made = Encode(op, args, dval) \/ made = Encode(op, args, fval)
    BY <1>5 DEF assemble, SET, FSET, MemoryAccesses, OneRegister, Casts, ThreeRegisters
  <2>2. ShownRegisters(op) = 1 /\ op \in ShowsStorage
    BY <1>5 DEF ShownRegisters, ShowsStorage, MemoryAccesses, OneRegister, Casts, ThreeRegisters
  <2>3. Len(args) = 1
    OBVIOUS
  <2> HIDE DEF args
  <2>4. ShownWhole(Encode(op, args, dval)) /\ ShownWhole(Encode(op, args, fval))
    <3>1. op \in Opcodes /\ op \notin NotShown
      BY <1>1
    <3>2. ShownRegisters(op) \in 0 .. 3 /\ Len(args) = ShownRegisters(op)
      BY <2>2, <2>3
    <3> QED BY <1>3, <2>2, <3>1, <3>2
  <2> QED BY <1>2, <2>1, <2>4
<1>6. CASE op \in {"I_REC", "I_PRINT"}
  <2>1. made = Encode(op, <<>>, 0)
    BY <1>6 DEF assemble, REC, PRINT, MemoryAccesses, OneRegister, Casts, ThreeRegisters
  <2> QED BY <1>1, <1>2, <1>3, <1>4, <1>6, <2>1
<1>7. CASE op \in {"I_CALL", "I_JMP"}
  <2>1. made = Encode(op, <<>>, dval)
    BY <1>7 DEF assemble, CALL, JMP, MemoryAccesses, OneRegister, Casts, ThreeRegisters
  <2>2. op \in ShowsStorage
    BY <1>7 DEF ShowsStorage
  <2> QED BY <1>1, <1>2, <1>3, <1>4, <1>7, <2>1, <2>2
<1>8. CASE op \in {"I_HALT", "I_ENTRY", "I_NOP"}
  <2>1. made = Encode("I_HALT", <<>>, 0)
    BY <1>8 DEF assemble, HALT, MemoryAccesses, OneRegister, Casts, ThreeRegisters
  <2> QED BY <1>2, <1>3, <1>4, <2>1
<1>9. CASE op \in MemoryAccesses
  <2> DEFINE args == <<arg[1], dval>>
  <2>1. made = Encode(op, args, 0)
    BY <1>9 DEF assemble, Registers, MemoryAccesses, OneRegister, Casts, ThreeRegisters
  <2>2. ShownRegisters(op) = 2
    BY <1>9 DEF ShownRegisters, MemoryAccesses, OneRegister, Casts, ThreeRegisters
  <2>3. Len(args) = 2
    OBVIOUS
  <2> HIDE DEF args
  <2>4. ShownWhole(Encode(op, args, 0))
    <3>1. op \in Opcodes /\ op \notin NotShown
      BY <1>1
    <3>2. ShownRegisters(op) \in 0 .. 3 /\ Len(args) = ShownRegisters(op)
      BY <2>2, <2>3
    <3> QED BY <1>3, <2>2, <3>1, <3>2
  <2> QED BY <1>2, <2>1, <2>4
<1>10. CASE op \in OneRegister
  <2> DEFINE args == <<arg[1]>>
  <2>1. made = Encode(op, args, 0)
    BY <1>10 DEF assemble, Registers, MemoryAccesses, OneRegister, Casts, ThreeRegisters
  <2>2. ShownRegisters(op) = 1
    BY <1>10 DEF ShownRegisters, MemoryAccesses, OneRegister, Casts, ThreeRegisters
  <2>3. Len(args) = 1
    OBVIOUS
  <2> HIDE DEF args
  <2>4. ShownWhole(Encode(op, args, 0))
    <3>1. op \in Opcodes /\ op \notin NotShown
      BY <1>1
    <3>2. ShownRegisters(op) \in 0 .. 3 /\ Len(args) = ShownRegisters(op)
      BY <2>2, <2>3
    <3> QED BY <1>3, <2>2, <3>1, <3>2
  <2> QED BY <1>2, <2>1, <2>4
<1>11. CASE op \in Casts
  <2> DEFINE args == <<arg[1], arg[2]>>
  <2>1. made = Encode(op, args, 0)
    BY <1>11 DEF assemble, Registers, MemoryAccesses, OneRegister, Casts, ThreeRegisters
  <2>2. ShownRegisters(op) = 2
    BY <1>11 DEF ShownRegisters, MemoryAccesses, OneRegister, Casts, ThreeRegisters
  <2>3. Len(args) = 2
    OBVIOUS
  <2> HIDE DEF args
  <2>4. ShownWhole(Encode(op, args, 0))
    <3>1. op \in Opcodes /\ op \notin NotShown
      BY <1>1
    <3>2. ShownRegisters(op) \in 0 .. 3 /\ Len(args) = ShownRegisters(op)
      BY <2>2, <2>3
    <3> QED BY <1>3, <2>2, <3>1, <3>2
  <2> QED BY <1>2, <2>1, <2>4
<1>12. CASE op \in ThreeRegisters
  <2> DEFINE args == <<arg[1], arg[2], arg[3]>>
  <2>1. made = Encode(op, args, 0)
    BY <1>12 DEF assemble, Registers, MemoryAccesses, OneRegister, Casts, ThreeRegisters
  <2>2. ShownRegisters(op) = 3
    BY <1>12 DEF ShownRegisters, MemoryAccesses, OneRegister, Casts, ThreeRegisters
  <2>3. Len(args) = 3
    OBVIOUS
  <2> HIDE DEF args
  <2>4. ShownWhole(Encode(op, args, 0))
    <3>1. op \in Opcodes /\ op \notin NotShown
      BY <1>1
    <3>2. ShownRegisters(op) \in 0 .. 3 /\ Len(args) = ShownRegisters(op)
      BY <2>2, <2>3
    <3> QED BY <1>3, <2>2, <3>1, <3>2
  <2> QED BY <1>2, <2>1, <2>4
<1>13. CASE op \in {"I_EJMP", "I_NEJMP"}
  <2> DEFINE args == <<arg[2], arg[3]>>
  <2>1. made = Encode(op, args, dval)
    BY <1>13 DEF assemble, EJMP, NEJMP, MemoryAccesses, OneRegister, Casts, ThreeRegisters
  <2>2. ShownRegisters(op) = 2 /\ op \in ShowsStorage
    BY <1>13 DEF ShownRegisters, ShowsStorage, MemoryAccesses, OneRegister, Casts, ThreeRegisters
  <2>3. Len(args) = 2
    OBVIOUS
  <2> HIDE DEF args
  <2>4. ShownWhole(Encode(op, args, dval))
    <3>1. op \in Opcodes /\ op \notin NotShown
      BY <1>1
    <3>2. ShownRegisters(op) \in 0 .. 3 /\ Len(args) = ShownRegisters(op)
      BY <2>2, <2>3
    <3> QED BY <1>3, <2>2, <3>1, <3>2
  <2> QED BY <1>2, <2>1, <2>4
<1>14. op \in {"I_SET", "I_FSET"} \cup {"I_REC", "I_PRINT"} \cup {"I_CALL", "I_JMP"}
             \cup {"I_HALT", "I_ENTRY", "I_NOP"} \cup MemoryAccesses \cup OneRegister
             \cup Casts \cup ThreeRegisters \cup {"I_EJMP", "I_NEJMP"}
  BY <1>1 DEF Opcodes, Inst, NotShown, MemoryAccesses, OneRegister, Casts, ThreeRegisters
<1> QED BY <1>5, <1>6, <1>7, <1>8, <1>9, <1>10, <1>11, <1>12, <1>13, <1>14

\* Whatever the source, the listing tells its instructions apart, those of the four
\* macros aside.
THEOREM ListingCorrect == Spec => []ListingTellsApart
<1> DEFINE Inv == TokenizerTypeOK /\ PassesInv /\ LinesInv
<1>1. Init => Inv
  BY TokenizerInitType, InitPasses, InitLines DEF Init
<1>2. Inv /\ [Next]_vars => Inv'
  BY NextTokenizer, NextPasses, NextLines
<1>3. Inv => ListingTellsApart
  <2>1. SUFFICES ASSUME PassesInv, LinesInv, NEW j \in DOMAIN listing, NEW k \in DOMAIN listing,
                        stage = "write", listing[j] = listing[k],
                        assembled[j].op \notin OtherMacro, assembled[k].op \notin OtherMacro
                 PROVE  Encoded[j] = Encoded[k]
    BY DEF ListingTellsApart
  <2>2. listing = [n \in DOMAIN assembled |-> Shown(Encoded[n])]
    BY <2>1 DEF LinesInv, Encoded
  <2>3. ASSUME NEW n \in DOMAIN assembled, assembled[n].op \notin OtherMacro
        PROVE  ShownWhole(Encoded[n])
    <3>1. Encoded[n] = InstructionOf(assembled[n])
      BY <2>3 DEF Encoded
    <3>2. assembled[n].op \in Keyword
      <4>1. DOMAIN assembled = 1 .. Len(assembled) /\ assembled \in Seq(AP!Instruction(Len(tokens)))
        BY <2>1 DEF PassesInv, AP!TypeInv
      <4>2. assembled[n] \in AP!Instruction(Len(tokens))
        BY <2>3, <4>1, ElementOfSeq
      <4> QED BY <4>2 DEF AP!Instruction, Arity
    <3> QED BY <2>3, <3>1, <3>2, AssembledShownWhole
  <2>4. j \in DOMAIN assembled /\ k \in DOMAIN assembled
        /\ Shown(Encoded[j]) = Shown(Encoded[k])
    BY <2>1, <2>2
  <2> QED BY <2>1, <2>3, <2>4, ShownWholeApart
<1> HIDE DEF Inv
<1> QED BY <1>1, <1>2, <1>3, PTL DEF Spec

-----------------------------------------------------------------------------
(***************************************************************************)
(* The limits of the arrays.  The tokenizer stands between two words, and  *)
(* has made as many tokens as start up to there.  Whatever a frame has     *)
(* been left with, the copied words have left its last byte alone.         *)
(***************************************************************************)
StartsUpTo(k) == Cardinality({t \in TokenStarts : t <= k})

LastByte == word_buffer[DEFAULT_LITERAL_SIZE - 1]

\* What follows the place k, if anything, belongs to no token that starts further up.
Between(k) == k < Len(fb) => ~InWord(k + 1) /\ ~SecondOfTwo(k + 1)

Taking == phase \in {"tokenize", "done"}

WordsInv ==
  /\ Len(fb) <= fsize
  /\ fresh => word_buffer = Zeros
  /\ phase = "read" => /\ file_pos = 0 /\ list = <<>>
                       /\ fresh \/ word_buffer \in StackGarbage
  /\ Taking => /\ Between(file_pos)
               /\ Len(list) = StartsUpTo(file_pos)
               /\ FitsBuffers => LastByte = NUL
  /\ phase = "done" => file_pos = Len(fb)
  /\ phase = "undefined" => ~FitsBuffers

LEMMA TextFixed ==
  ASSUME fb' = fb, file' = file, fresh' = fresh
  PROVE  /\ TokenStarts' = TokenStarts /\ WordStarts' = WordStarts
         /\ FitsBuffers' = FitsBuffers /\ WordsGrow' = WordsGrow
         /\ \A k : Between(k)' = Between(k)
         /\ \A k : StartsUpTo(k)' = StartsUpTo(k)
         /\ \A k : WordFrom(k)' = WordFrom(k)
         /\ \A k : TokenFrom(k)' = TokenFrom(k)
<1>1. \A k : InWord(k)' = InWord(k)
  BY DEF InWord
<1>2. \A k : SecondOfTwo(k)' = SecondOfTwo(k)
  BY DEF SecondOfTwo
<1>3. TokenStarts' = TokenStarts /\ WordStarts' = WordStarts
  BY <1>1, <1>2 DEF TokenStarts, WordStarts
<1>4. \A k : WordFrom(k)' = WordFrom(k)
  BY DEF WordFrom
<1>5. \A k : StartsUpTo(k)' = StartsUpTo(k)
  BY <1>3 DEF StartsUpTo
<1>6. FitsBuffers' = FitsBuffers
  BY <1>3, <1>4 DEF FitsBuffers
<1>7. WordsGrow' = WordsGrow
  BY <1>3, <1>4 DEF WordsGrow
<1>8. \A k : Between(k)' = Between(k)
  BY <1>1, <1>2 DEF Between
<1>9. \A k : TokenFrom(k)' = TokenFrom(k)
  BY <1>2, <1>4 DEF TokenFrom
<1> QED BY <1>3, <1>4, <1>5, <1>6, <1>7, <1>8, <1>9

\* No word goes on behind a character of none.
LEMMA BehindNoWord ==
  ASSUME NEW k \in Nat, k >= 1, fb[k] \notin WordChar
  PROVE  ~InWord(k + 1)
<1>1. ASSUME NEW j \in 1 .. k, \A m \in j .. k + 1 : fb[m] \in WordChar
      PROVE  FALSE
  <2>1. k \in j .. k + 1
    BY <1>1
  <2> QED BY <1>1, <2>1
<1>2. k + 1 - 1 = k
  OBVIOUS
<1> QED BY <1>1, <1>2 DEF InWord, WordChar

\* No symbol is the second of two behind another character, behind one that never
\* comes twice, and behind a second.
LEMMA BehindNoTwo ==
  ASSUME NEW k \in Nat, k >= 1,
         \/ fb[k] # fb[k + 1]
         \/ fb[k] \notin DOMAIN Double
         \/ SecondOfTwo(k)
  PROVE  ~SecondOfTwo(k + 1)
<1> SUFFICES ASSUME fb[k + 1] \in DOMAIN Double, NEW s \in 1 .. k, (k + 1 - s) % 2 = 1,
                    \A m \in s .. k + 1 : fb[m] = fb[k + 1],
                    s > 1 => fb[s - 1] # fb[k + 1]
             PROVE  FALSE
  BY DEF SecondOfTwo
<1>1. k \in s .. k + 1 /\ fb[k] = fb[k + 1]
  <2>1. k \in s .. k + 1
    OBVIOUS
  <2> QED BY <2>1
<1>2. SecondOfTwo(k)
  BY <1>1
<1>3. PICK r \in 1 .. k - 1 : /\ (k - r) % 2 = 1
                              /\ \A m \in r .. k : fb[m] = fb[k]
                              /\ r > 1 => fb[r - 1] # fb[k]
  BY <1>2 DEF SecondOfTwo
<1>4. CASE r = s
  BY <1>3, <1>4
<1>5. CASE r < s
  <2>1. s - 1 \in r .. k /\ s > 1
    BY <1>5
  <2> QED BY <1>1, <1>3, <2>1
<1>6. CASE r > s
  <2>1. r - 1 \in s .. k + 1 /\ r > 1
    BY <1>6
  <2> QED BY <1>1, <1>3, <2>1
<1> QED BY <1>4, <1>5, <1>6

\* A symbol that comes twice is the first of two or the second.
LEMMA FirstOrSecond ==
  ASSUME NEW k \in Nat, k >= 1, fb[k] \in DOMAIN Double, fb[k + 1] = fb[k],
         ~SecondOfTwo(k)
  PROVE  SecondOfTwo(k + 1)
<1> DEFINE Run(s) == \A m \in s .. k : fb[m] = fb[k]
           S      == {s \in Nat : s >= 1 /\ s <= k /\ Run(s)}
<1>1. PICK s \in S : \A r \in S : s <= r
  <2>1. k \in S /\ S \subseteq Nat
    OBVIOUS
  <2> HIDE DEF S
  <2> QED BY <2>1, PassesAssumption, AP!Smallest
<1>2. s \in 1 .. k /\ Run(s)
  OBVIOUS
<1>3. s > 1 => fb[s - 1] # fb[k]
  <2> SUFFICES ASSUME s > 1, fb[s - 1] = fb[k] PROVE FALSE
    OBVIOUS
  <2>1. s - 1 \in Nat /\ s - 1 >= 1 /\ s - 1 <= k
    BY <1>2
  <2>2. ASSUME NEW m \in s - 1 .. k PROVE fb[m] = fb[k]
    <3>1. m = s - 1 \/ m \in s .. k
      BY <1>2, <2>2
    <3> QED BY <1>2, <3>1
  <2>3. s - 1 \in S /\ ~ (s <= s - 1)
    BY <1>2, <2>1, <2>2
  <2> QED BY <1>1, <2>3
<1>4. (k + 1 - s) % 2 = 1
  <2>1. ~ ((k - s) % 2 = 1)
    <3>1. s = k => (k - s) % 2 = 0
      BY <1>2
    <3>2. s # k => s \in 1 .. k - 1
      BY <1>2
    <3> HIDE DEF S
    <3> QED BY <1>2, <1>3, <3>1, <3>2 DEF SecondOfTwo
  <2> QED BY <1>2, <2>1
<1>5. ASSUME NEW m \in s .. k + 1 PROVE fb[m] = fb[k + 1]
  <2>1. m = k + 1 \/ m \in s .. k
    BY <1>2, <1>5
  <2> QED BY <1>2, <2>1
<1> HIDE DEF S, Run
<1>6. s \in 1 .. (k + 1) - 1
  BY <1>2
<1> QED BY <1>3, <1>4, <1>5, <1>6 DEF SecondOfTwo

\* The starts of tokens are counted by numbers, and more of them further down.
LEMMA StartsCounted ==
  ASSUME TokenizerTypeOK, NEW j \in Nat, NEW k \in Nat, j <= k
  PROVE  /\ StartsUpTo(j) \in Nat /\ StartsUpTo(k) \in Nat
         /\ StartsUpTo(j) <= StartsUpTo(k) /\ StartsUpTo(k) <= Cardinality(TokenStarts)
         /\ Cardinality(TokenStarts) \in Nat
         /\ (\A t \in j + 1 .. k : t \notin TokenStarts) => StartsUpTo(k) = StartsUpTo(j)
         /\ j < k /\ j + 1 \in TokenStarts =>
              /\ StartsUpTo(j) < StartsUpTo(k)
              /\ (\A t \in j + 2 .. k : t \notin TokenStarts) =>
                   StartsUpTo(k) = StartsUpTo(j) + 1
<1> DEFINE S == {t \in TokenStarts : t <= j}
           T == {t \in TokenStarts : t <= k}
<1>1. IsFiniteSet(TokenStarts) /\ TokenStarts \subseteq Nat
  <2>1. Len(fb) \in Nat
    BY Characters
  <2>2. IsFiniteSet(1 .. Len(fb)) /\ TokenStarts \subseteq 1 .. Len(fb)
    BY <2>1, FS_Interval DEF TokenStarts
  <2>3. IsFiniteSet(TokenStarts)
    BY <2>2, FS_Subset
  <2> QED BY <2>1, <2>2, <2>3
<1>2. S \subseteq T /\ T \subseteq TokenStarts
  <2>1. ASSUME NEW t \in S PROVE t \in T
    <3>1. t \in Nat /\ t \in TokenStarts /\ t <= j
      BY <1>1, <2>1
    <3>2. t <= k
      BY <3>1
    <3> QED BY <3>1, <3>2
  <2>2. T \subseteq TokenStarts
    OBVIOUS
  <2> HIDE DEF S, T
  <2> QED BY <2>1, <2>2
<1>3. j < k /\ j + 1 \in TokenStarts => j + 1 \in T /\ j + 1 \notin S
  OBVIOUS
<1>4. StartsUpTo(j) = Cardinality(S) /\ StartsUpTo(k) = Cardinality(T)
  BY DEF StartsUpTo
<1>5. (\A t \in j + 1 .. k : t \notin TokenStarts) => T = S
  <2> SUFFICES ASSUME \A t \in j + 1 .. k : t \notin TokenStarts, NEW t \in T
               PROVE  t \in S
    BY <1>2
  <2>1. t \in Nat /\ t <= k /\ t \notin j + 1 .. k /\ t \in TokenStarts
    BY <1>1
  <2> QED BY <2>1
<1>6. j < k /\ j + 1 \in TokenStarts /\ (\A t \in j + 2 .. k : t \notin TokenStarts)
        => T = S \cup {j + 1}
  <2> SUFFICES ASSUME j < k, j + 1 \in TokenStarts, \A t \in j + 2 .. k : t \notin TokenStarts,
                      NEW t \in T
               PROVE  t \in S \cup {j + 1}
    BY <1>2, <1>3
  <2>1. t \in Nat /\ t <= k /\ t \notin j + 2 .. k /\ t \in TokenStarts
    BY <1>1
  <2>2. t <= j \/ t = j + 1
    BY <2>1
  <2> QED BY <2>1, <2>2
<1> HIDE DEF S, T
<1>7. IsFiniteSet(T) /\ Cardinality(T) \in Nat /\ Cardinality(T) <= Cardinality(TokenStarts)
      /\ Cardinality(TokenStarts) \in Nat
  BY <1>1, <1>2, FS_Subset, FS_CardinalityType
<1>8. IsFiniteSet(S) /\ Cardinality(S) \in Nat /\ Cardinality(S) <= Cardinality(T)
      /\ (S # T => Cardinality(S) < Cardinality(T))
  BY <1>2, <1>7, FS_Subset, FS_CardinalityType
<1>9. j + 1 \notin S => Cardinality(S \cup {j + 1}) = Cardinality(S) + 1
  BY <1>8, FS_AddElement
<1> QED BY <1>3, <1>4, <1>5, <1>6, <1>7, <1>8, <1>9

LEMMA PlacesCounted ==
  ASSUME NEW k \in Nat, NEW n \in Nat, n >= 1
  PROVE  Cardinality(k + 1 .. k + n) = n
<1> DEFINE a == k + 1
           b == k + n
<1>1. a \in Int /\ b \in Int /\ b - a + 1 = n /\ ~ (a > b)
  OBVIOUS
<1>2. Cardinality(a .. b) = IF a > b THEN 0 ELSE b - a + 1
  <2> HIDE DEF a, b
  <2> QED BY <1>1, FS_Interval
<1> QED BY <1>1, <1>2

\* The word at the position: its start, its places, and what is behind it.
LEMMA WordAt ==
  ASSUME TokenizerTypeOK, Tokenizing, Current \in WordChar, ~InWord(file_pos + 1)
  PROVE  /\ file_pos + 1 \in WordStarts
         /\ WordFrom(file_pos + 1) = file_pos + 1 .. file_pos + RunLength
         /\ Cardinality(WordFrom(file_pos + 1)) = RunLength
         /\ \A m \in file_pos + 1 .. file_pos + RunLength : fb[m] \in WordChar
         /\ \A m \in file_pos + 2 .. file_pos + RunLength : InWord(m)
         /\ Between(file_pos + RunLength)
<1> DEFINE p == file_pos + 1
           r == RunLength
<1>1. /\ file_pos \in Nat /\ Len(fb) \in Nat /\ file_pos < Len(fb)
      /\ r \in Nat /\ r >= 1 /\ file_pos + r <= Len(fb) /\ p \in 1 .. Len(fb)
  BY Characters, RunLengthType DEF Tokenizing
<1>2. fb[p] = Current
  BY <1>1, Characters DEF Current
<1>3. ASSUME NEW m \in p .. p + r - 1
      PROVE  fb[m] \in WordChar \cap Follows
  <2>1. m - p \in Nat /\ m - p < r /\ file_pos + (m - p) = m - 1 /\ m - 1 \in Nat
        /\ m - 1 < Len(fb)
    BY <1>1
  <2>2. At(m - 1) = fb[m]
    BY <2>1, Characters
  <2> QED BY <2>1, <2>2, RunLengthType
<1>4. p \in WordStarts
  BY <1>1, <1>2 DEF WordStarts
<1>5. fb[p] \in Digit => Follows = Digit
  BY <1>2, TokenizerAssumption DEF Follows
<1>6. p .. p + r - 1 \subseteq WordFrom(p)
  <2> SUFFICES ASSUME NEW m \in p .. p + r - 1 PROVE m \in WordFrom(p)
    OBVIOUS
  <2>1. m \in p .. Len(fb) /\ \A j \in p .. m : j \in p .. p + r - 1
    BY <1>1
  <2> QED BY <1>3, <1>5, <2>1 DEF WordFrom
<1>7. WordFrom(p) = p .. p + r - 1
  <2> SUFFICES ASSUME NEW m \in WordFrom(p), m \notin p .. p + r - 1 PROVE FALSE
    BY <1>6
  <2>1. /\ m \in p .. Len(fb)
        /\ \A j \in p .. m : fb[j] \in WordChar
        /\ fb[p] \in Digit => \A j \in p .. m : fb[j] \in Digit
    BY DEF WordFrom
  <2>2. p + r \in p .. m /\ file_pos + r < Len(fb)
    BY <1>1, <2>1
  <2>3. At(file_pos + r) = fb[p + r]
    <3>1. file_pos + r \in Nat /\ file_pos + r + 1 = p + r
      BY <1>1
    <3> QED BY <2>2, <3>1, Characters
  <2>4. fb[p + r] \in Follows
    BY <1>2, <2>1, <2>2 DEF Follows, WordChar
  <2> QED BY <2>3, <2>4, RunLengthType
<1>8. Cardinality(p .. p + r - 1) = r
  <2>1. p + r - 1 = file_pos + r
    BY <1>1
  <2> QED BY <1>1, <2>1, PlacesCounted
<1>9. ASSUME file_pos + r < Len(fb)
      PROVE  ~InWord(file_pos + r + 1) /\ ~SecondOfTwo(file_pos + r + 1)
  <2> DEFINE q == file_pos + r + 1
  <2>1. q \in Nat /\ q = p + r /\ q - 1 \in p .. p + r - 1 /\ q > 1
    BY <1>1
  <2>2. fb[q] \notin Follows
    <3>1. At(file_pos + r) = fb[q]
      BY <1>1, <1>9, Characters
    <3> QED BY <3>1, RunLengthType
  <2>3. fb[q - 1] \in Follows
    BY <1>3, <2>1
  <2>4. ~SecondOfTwo(q)
    <3>1. q - 1 \in Nat /\ q - 1 >= 1 /\ q - 1 + 1 = q
      BY <2>1
    <3>2. fb[q - 1] # fb[q]
      BY <2>2, <2>3
    <3> HIDE DEF q
    <3>3. ~SecondOfTwo(q - 1 + 1)
      BY <3>1, <3>2, BehindNoTwo
    <3> QED BY <3>1, <3>3
  <2>5. CASE Current \in Letter
    <3>1. fb[q] \notin WordChar
      BY <2>2, <2>5 DEF Follows
    <3>2. \A j \in 1 .. q - 1 : q \in j .. q
      BY <2>1
    <3>3. fb[q] \notin Digit
      BY <3>1 DEF WordChar
    <3> QED BY <2>4, <3>1, <3>2, <3>3 DEF InWord
  <2>6. CASE Current \notin Letter
    <3>1. Follows = Digit
      BY <2>6 DEF Follows
    <3>2. ASSUME NEW j \in 1 .. q - 1, fb[j] \in Letter, \A m \in j .. q : fb[m] \in WordChar
          PROVE  FALSE
      <4>1. CASE j >= p
        <5>1. j \in p .. p + r - 1
          BY <1>1, <2>1, <4>1
        <5>2. fb[j] \in Digit
          BY <1>3, <3>1, <5>1
        <5> QED BY <3>2, <5>2, TokenizerAssumption
      <4>2. CASE ~ (j >= p)
        <5>1. j \in 1 .. p - 1 /\ \A m \in j .. p : m \in j .. q
          BY <1>1, <2>1, <4>2
        <5>2. InWord(p)
          BY <3>2, <5>1 DEF InWord
        <5> QED BY <5>2
      <4> QED BY <4>1, <4>2
    <3>3. fb[q] \notin Digit
      BY <2>2, <3>1
    <3> QED BY <2>4, <3>2, <3>3 DEF InWord
  <2> QED BY <2>5, <2>6
<1>10. ASSUME NEW m \in p + 1 .. p + r - 1 PROVE InWord(m)
  <2>1. /\ p \in 1 .. m - 1 /\ m > 1
        /\ m \in p .. p + r - 1 /\ m - 1 \in p .. p + r - 1
        /\ \A j \in p .. m : j \in p .. p + r - 1
    BY <1>1, <1>10
  <2>2. CASE Current \in Letter
    BY <1>2, <1>3, <2>1, <2>2 DEF InWord
  <2>3. CASE Current \notin Letter
    BY <1>3, <2>1, <2>3 DEF InWord, Follows
  <2> QED BY <2>2, <2>3
<1>11. p + r - 1 = file_pos + r /\ p + 1 = file_pos + 2
  BY <1>1
<1> HIDE DEF p
<1> QED BY <1>3, <1>4, <1>7, <1>8, <1>9, <1>10, <1>11 DEF Between, p

\* The symbol at the position: its length, its places, and what is behind it.
LEMMA SymbolAt ==
  ASSUME TokenizerTypeOK, Tokenizing, Current \notin WordChar, Between(file_pos),
         NEW n \in Nat,
         n = IF Current \in DOMAIN Double /\ At(file_pos + 1) = Current THEN 2 ELSE 1
  PROVE  /\ n >= 1 /\ file_pos + n <= Len(fb)
         /\ \A m \in file_pos + 2 .. file_pos + n : SecondOfTwo(m)
         /\ Between(file_pos + n)
         /\ \A m \in file_pos + 1 .. file_pos + n : fb[m] = Current
         /\ TokenFrom(file_pos + 1) = file_pos + 1 .. file_pos + n
<1> DEFINE p == file_pos + 1
<1>1. /\ file_pos \in Nat /\ Len(fb) \in Nat /\ file_pos < Len(fb)
      /\ p \in Nat /\ p >= 1 /\ p <= Len(fb)
  BY Characters DEF Tokenizing
<1>2. Current = fb[p] /\ Current # NUL
  BY <1>1, Characters DEF Current
<1>3. ~SecondOfTwo(p)
  BY <1>1 DEF Between
<1>4. CASE Current \in DOMAIN Double /\ At(p) = Current
  <2>1. p < Len(fb) /\ fb[p + 1] = Current /\ n = 2
    <3> HIDE DEF p
    <3> QED BY <1>1, <1>2, <1>4, Characters DEF p
  <2>2. SecondOfTwo(p + 1)
    <3> HIDE DEF p
    <3> QED BY <1>1, <1>2, <1>3, <1>4, <2>1, FirstOrSecond
  <2>3. p + 1 \in Nat /\ p + 1 >= 1
    BY <1>1
  <2>4. ~InWord(p + 1 + 1) /\ ~SecondOfTwo(p + 1 + 1)
    <3> HIDE DEF p
    <3> QED BY <2>1, <2>2, <2>3, BehindNoWord, BehindNoTwo
  <2>5. /\ file_pos + n = p + 1 /\ file_pos + 2 .. file_pos + n = {p + 1}
        /\ file_pos + 1 .. file_pos + n = {p, p + 1}
    BY <1>1, <2>1
  <2>6. TokenFrom(p) = {p, p + 1}
    <3>1. p + 1 <= Len(fb)
      BY <1>1, <2>1
    <3> HIDE DEF p
    <3> QED BY <1>2, <2>2, <3>1 DEF TokenFrom
  <2>7. file_pos + n <= Len(fb) /\ n >= 1
    BY <1>1, <2>1
  <2>8. Between(file_pos + n)
    <3> HIDE DEF p
    <3> QED BY <2>4, <2>5 DEF Between
  <2> HIDE DEF p
  <2> QED BY <1>2, <2>1, <2>2, <2>5, <2>6, <2>7, <2>8 DEF p
<1>5. CASE ~ (Current \in DOMAIN Double /\ At(p) = Current)
  <2>1. n = 1
    BY <1>5
  <2>2. ASSUME p < Len(fb)
        PROVE  ~InWord(p + 1) /\ ~SecondOfTwo(p + 1)
    <3>1. At(p) = fb[p + 1]
      <4> HIDE DEF p
      <4> QED BY <1>1, <2>2, Characters
    <3>2. fb[p] \notin DOMAIN Double \/ fb[p] # fb[p + 1]
      <4> HIDE DEF p
      <4> QED BY <1>2, <1>5, <3>1
    <3> HIDE DEF p
    <3> QED BY <1>1, <1>2, <3>2, BehindNoWord, BehindNoTwo
  <2>3. /\ file_pos + n = p /\ file_pos + 2 .. file_pos + n = {}
        /\ file_pos + 1 .. file_pos + n = {p}
    BY <1>1, <2>1
  <2>4. TokenFrom(p) = {p}
    <3>1. ~ (p + 1 <= Len(fb) /\ SecondOfTwo(p + 1))
      BY <1>1, <2>2
    <3> HIDE DEF p
    <3> QED BY <1>2, <3>1 DEF TokenFrom
  <2>5. Between(file_pos + n)
    <3> HIDE DEF p
    <3> QED BY <2>2, <2>3 DEF Between
  <2>6. n >= 1 /\ file_pos + n <= Len(fb)
    BY <1>1, <2>1
  <2>7. \A m \in file_pos + 1 .. file_pos + n : fb[m] = Current
    BY <1>2, <2>3
  <2> HIDE DEF p
  <2> QED BY <2>3, <2>4, <2>5, <2>6, <2>7 DEF p
<1> QED BY <1>4, <1>5


\* The space at the position: no token starts there, and none goes on behind it.
LEMMA BehindSpace ==
  ASSUME TokenizerTypeOK, file_pos < Len(fb), Current \in Space
  PROVE  fb[file_pos + 1] \in Space /\ Between(file_pos + 1)
<1>1. file_pos \in Nat /\ file_pos + 1 \in Nat /\ file_pos + 1 >= 1
  BY Characters
<1>2. fb[file_pos + 1] \in Space
  BY <1>1, Characters DEF Current
<1>3. fb[file_pos + 1] \notin WordChar
  BY <1>2, TokenizerAssumption
<1>4. fb[file_pos + 1] \notin DOMAIN Double
  BY <1>2, Zenon DEF Double, Space
<1> QED BY <1>1, <1>2, <1>3, <1>4, BehindNoWord, BehindNoTwo DEF Between

LEMMA SpaceCounted ==
  ASSUME TokenizerTypeOK, file_pos < Len(fb), Current \in Space
  PROVE  StartsUpTo(file_pos + 1) = StartsUpTo(file_pos)
<1>1. file_pos \in Nat /\ file_pos + 1 \in Nat /\ file_pos + 1 .. file_pos + 1 = {file_pos + 1}
  BY Characters
<1>2. file_pos + 1 \notin TokenStarts
  BY BehindSpace DEF TokenStarts
<1> QED BY <1>1, <1>2, StartsCounted

\* Another token, from the position to the next one.
LEMMA TokenAppended ==
  ASSUME TokenizerTypeOK, WordsInv, Tokenizing, NEW token, NEW n \in Nat, n >= 1,
         file_pos + n <= Len(fb), AppendToken(token, n), Current \notin Space,
         fb' = fb, file' = file, fresh' = fresh,
         \A m \in file_pos + 2 .. file_pos + n : m \notin TokenStarts
  PROVE  /\ phase' = "undefined" => ~FitsBuffers
         /\ phase' = "tokenize" => /\ file_pos' = file_pos + n
                                  /\ list' = Append(list, token)
                                  /\ Len(list') = StartsUpTo(file_pos + n)
         /\ phase' \in {"tokenize", "undefined"}
         /\ file_pos + 1 \in TokenStarts
<1>1. /\ file_pos \in Nat /\ file_pos < Len(fb) /\ Len(fb) \in Nat /\ phase = "tokenize"
      /\ TOKENS_BLOCK_SIZE \in Nat /\ list \in Seq(Token) /\ Len(list) \in Nat
  BY Characters, TokenizerAssumption DEF Tokenizing, TokenizerTypeOK
<1>2. file_pos + 1 \in TokenStarts
  <2>1. fb[file_pos + 1] = Current
    BY <1>1, Characters DEF Current
  <2> QED BY <1>1, <2>1 DEF TokenStarts, WordsInv, Between, Taking
<1>3. /\ StartsUpTo(file_pos) \in Nat
      /\ StartsUpTo(file_pos + n) = StartsUpTo(file_pos) + 1
      /\ StartsUpTo(file_pos + n) <= Cardinality(TokenStarts)
      /\ Cardinality(TokenStarts) \in Nat
  <2>1. file_pos + n \in Nat /\ file_pos < file_pos + n
    BY <1>1
  <2> QED BY <1>1, <1>2, <2>1, StartsCounted
<1>4. Len(list) = StartsUpTo(file_pos)
  BY <1>1 DEF WordsInv, Taking
<1>5. CASE Len(list) < TOKENS_BLOCK_SIZE
  <2>1. list' = Append(list, token) /\ file_pos' = file_pos + n /\ phase' = phase
    BY <1>5 DEF AppendToken
  <2>2. Len(list') = Len(list) + 1
    BY <1>1, <2>1
  <2> QED BY <1>1, <1>2, <1>3, <1>4, <2>1, <2>2
<1>6. CASE ~ (Len(list) < TOKENS_BLOCK_SIZE)
  <2>1. phase' = "undefined"
    BY <1>6 DEF AppendToken
  <2>2. ~ (Cardinality(TokenStarts) <= TOKENS_BLOCK_SIZE)
    BY <1>1, <1>3, <1>4, <1>6
  <2> QED BY <1>2, <2>1, <2>2 DEF FitsBuffers
<1> QED BY <1>2, <1>5, <1>6

\* A word that fits leaves the last byte of the array alone.
LEMMA LastByteKept ==
  ASSUME TokenizerTypeOK, WordsInv, Tokenizing, Current \in WordChar, FitsBuffers
  PROVE  /\ RunLength < DEFAULT_LITERAL_SIZE
         /\ Written[DEFAULT_LITERAL_SIZE - 1] = NUL
         /\ Terminators(Written) # {}
<1> DEFINE last == DEFAULT_LITERAL_SIZE - 1
<1>1. /\ phase = "tokenize" /\ ~InWord(file_pos + 1) /\ word_buffer[last] = NUL
      /\ DEFAULT_LITERAL_SIZE \in Nat \ {0}
      /\ word_buffer \in [0 .. last -> WordChar \cup {NUL}]
  BY TokenizerAssumption
     DEF Tokenizing, WordsInv, LastByte, TokenizerTypeOK, Buffer, Between, Taking
<1>2. RunLength \in Nat /\ RunLength < DEFAULT_LITERAL_SIZE
  BY <1>1, WordAt, RunLengthType DEF FitsBuffers
<1>3. last \in DOMAIN word_buffer /\ ~ (last < RunLength)
  BY <1>1, <1>2
<1>4. DOMAIN Written = DOMAIN word_buffer /\ Written[last] = NUL
  BY <1>1, <1>3 DEF Written
<1> QED BY <1>2, <1>3, <1>4 DEF Terminators

LEMMA TakeWordWords == TokenizerTypeOK /\ WordsInv /\ TakeWord => WordsInv'
<1> SUFFICES ASSUME TokenizerTypeOK, WordsInv, TakeWord PROVE WordsInv'
  OBVIOUS
<1> DEFINE token == [type     |-> IF Current \in Letter THEN "WORD" ELSE "NUMBER",
                     literall |-> StringIn(Written)]
<1>1. /\ Tokenizing /\ Current \in WordChar /\ UNCHANGED <<file, fsize, fb, fresh>>
      /\ word_buffer' = IF fresh THEN Zeros ELSE Written
      /\ AppendToken(token, RunLength)
  BY DEF TakeWord
<1> HIDE DEF token
<1>2. RunLength \in Nat /\ RunLength >= 1 /\ file_pos + RunLength <= Len(fb)
  BY <1>1, RunLengthType
<1>3. Current \notin Space
  BY <1>1, TokenizerAssumption
<1>4. /\ \A m \in file_pos + 2 .. file_pos + RunLength : m \notin TokenStarts
      /\ Between(file_pos + RunLength)
  <2>1. ~InWord(file_pos + 1)
    BY <1>1 DEF Tokenizing, WordsInv, Between, Taking
  <2> QED BY <1>1, <2>1, WordAt DEF TokenStarts
<1>5. /\ phase' = "undefined" => ~FitsBuffers
      /\ phase' = "tokenize" => /\ file_pos' = file_pos + RunLength
                               /\ Len(list') = StartsUpTo(file_pos + RunLength)
      /\ phase' \in {"tokenize", "undefined"}
  BY <1>1, <1>2, <1>3, <1>4, TokenAppended
<1>6. FitsBuffers => LastByte' = NUL
  <2> SUFFICES ASSUME FitsBuffers PROVE LastByte' = NUL
    OBVIOUS
  <2>1. Written[DEFAULT_LITERAL_SIZE - 1] = NUL
    BY <1>1, LastByteKept
  <2>2. Zeros[DEFAULT_LITERAL_SIZE - 1] = NUL
    BY TokenizerAssumption DEF Zeros
  <2> QED BY <1>1, <2>1, <2>2 DEF LastByte
<1>7. phase' = "tokenize" => Between(file_pos)' /\ (Len(list) = StartsUpTo(file_pos))'
  BY <1>1, <1>4, <1>5 DEF Between, InWord, SecondOfTwo, StartsUpTo, TokenStarts
<1> QED BY <1>1, <1>5, <1>6, <1>7, TextFixed DEF WordsInv, Taking

LEMMA TakeSymbolWords == TokenizerTypeOK /\ WordsInv /\ TakeSymbol => WordsInv'
<1> SUFFICES ASSUME TokenizerTypeOK, WordsInv, TakeSymbol PROVE WordsInv'
  OBVIOUS
<1> DEFINE twice == Current \in DOMAIN Double /\ At(file_pos + 1) = Current
           type  == IF twice THEN Double[Current]
                    ELSE IF Current \in DOMAIN Single THEN Single[Current] ELSE "NULL"
           token == [type |-> type, literall |-> <<>>]
           n     == IF twice THEN 2 ELSE 1
<1>1. /\ Tokenizing /\ Current \notin WordChar /\ Current \notin Space
      /\ UNCHANGED <<file, fsize, fb, fresh, word_buffer>> /\ AppendToken(token, n)
  BY DEF TakeSymbol
<1>2. phase = "tokenize" /\ Between(file_pos)
  BY <1>1 DEF Tokenizing, WordsInv, Taking
<1>3. n \in Nat /\ n = IF Current \in DOMAIN Double /\ At(file_pos + 1) = Current
                       THEN 2 ELSE 1
  OBVIOUS
<1> HIDE DEF token, n
<1>4. /\ n >= 1 /\ file_pos + n <= Len(fb)
      /\ \A m \in file_pos + 2 .. file_pos + n : m \notin TokenStarts
      /\ Between(file_pos + n)
  BY <1>1, <1>2, <1>3, SymbolAt DEF TokenStarts
<1>5. /\ phase' = "undefined" => ~FitsBuffers
      /\ phase' = "tokenize" => /\ file_pos' = file_pos + n
                               /\ Len(list') = StartsUpTo(file_pos + n)
      /\ phase' \in {"tokenize", "undefined"}
  BY <1>1, <1>3, <1>4, TokenAppended
<1>6. FitsBuffers => LastByte' = NUL
  BY <1>1, <1>2 DEF WordsInv, LastByte, Taking
<1>7. phase' = "tokenize" => Between(file_pos)' /\ (Len(list) = StartsUpTo(file_pos))'
  BY <1>1, <1>4, <1>5 DEF Between, InWord, SecondOfTwo, StartsUpTo, TokenStarts
<1> QED BY <1>1, <1>2, <1>5, <1>6, <1>7, TextFixed DEF WordsInv, Taking

LEMMA TokenizerWords ==
  TokenizerTypeOK /\ WordsInv /\ (TokenizerStep \/ UNCHANGED tokenizerVars) => WordsInv'
<1> SUFFICES ASSUME TokenizerTypeOK, WordsInv, TokenizerStep \/ UNCHANGED tokenizerVars
             PROVE  WordsInv'
  OBVIOUS
<1>1. /\ file_pos \in Nat /\ Len(fb) \in Nat /\ fsize \in Nat /\ Len(file) \in Nat
      /\ MAX_SIZE \in Nat /\ DEFAULT_LITERAL_SIZE \in Nat \ {0}
  BY TokenizerAssumption, Characters DEF TokenizerTypeOK
<1>2. CASE UNCHANGED tokenizerVars
  <2>1. UNCHANGED <<phase, fsize, file_pos, word_buffer, list, fb, file, fresh>>
    BY <1>2 DEF tokenizerVars
  <2>2. /\ Between(file_pos)' <=> Between(file_pos)
        /\ (Len(list) = StartsUpTo(file_pos))' <=> Len(list) = StartsUpTo(file_pos)
    BY <2>1 DEF Between, InWord, SecondOfTwo, StartsUpTo, TokenStarts
  <2> QED BY <2>1, <2>2, TextFixed DEF WordsInv, LastByte, Taking
<1>3. CASE ReadChar
  <2>1. /\ phase = "read" /\ phase' \in {"read", "aborted"}
        /\ UNCHANGED <<file, file_pos, fresh, word_buffer, list>>
    BY <1>3 DEF ReadChar
  <2>2. Len(fb') <= fsize'
    <3>1. Len(fb) <= fsize /\ Len(fb) + 2 <= MAX_SIZE
      BY <1>3 DEF WordsInv, ReadChar, Fits
    <3>2. Len(fb') \in {Len(fb), Len(fb) + 1}
      <4>1. fb \in Seq(Character \ {NUL, EOF_BYTE})
        BY DEF TokenizerTypeOK
      <4> QED BY <1>3, <4>1 DEF ReadChar
    <3>3. fsize < Len(file)
      BY <1>3 DEF ReadChar, More
    <3>4. fsize' = fsize + 1 \/ (fsize' = fsize /\ ~ (fsize < MAX_SIZE))
      BY <1>3 DEF ReadChar
    <3> QED BY <1>1, <3>1, <3>2, <3>3, <3>4
  <2> QED BY <2>1, <2>2 DEF WordsInv, Taking
<1>4. CASE ReadOverruns
  <2>1. UNCHANGED <<file, fsize, fb, file_pos, fresh, word_buffer, list>> /\ phase' = "undefined"
    BY <1>4 DEF ReadOverruns
  <2>2. ~FitsBuffers
    <3>1. fsize < Len(file) /\ ~ (Len(fb) + 2 <= MAX_SIZE) /\ Len(fb) <= fsize
      BY <1>4 DEF ReadOverruns, More, Fits, WordsInv
    <3>2. ~ (Len(file) < MAX_SIZE)
      BY <1>1, <3>1
    <3> QED BY <3>2 DEF FitsBuffers
  <2> QED BY <2>1, <2>2, TextFixed DEF WordsInv, Taking
<1>5. CASE ReadDone
  <2>1. /\ UNCHANGED <<file, fsize, fb, file_pos, fresh, word_buffer, list>>
        /\ phase = "read" /\ phase' = "tokenize"
    BY <1>5 DEF ReadDone
  <2>2. file_pos = 0 /\ Len(list) = 0 /\ (fresh \/ word_buffer \in StackGarbage)
    BY <2>1 DEF WordsInv
  <2>3. FitsBuffers => LastByte = NUL
    <3>1. Zeros[DEFAULT_LITERAL_SIZE - 1] = NUL
      BY <1>1 DEF Zeros
    <3> QED BY <2>2, <3>1 DEF WordsInv, LastByte, FitsBuffers
  <2>4. Between(0)
    BY DEF Between, InWord, SecondOfTwo
  <2>5. StartsUpTo(0) = 0
    <3>1. {t \in TokenStarts : t <= 0} = {}
      BY <1>1 DEF TokenStarts
    <3> QED BY <3>1, FS_EmptySet DEF StartsUpTo
  <2>6. Between(file_pos)' /\ (Len(list) = StartsUpTo(file_pos))'
    BY <2>1, <2>2, <2>4, <2>5 DEF Between, InWord, SecondOfTwo, StartsUpTo, TokenStarts
  <2> QED BY <2>1, <2>3, <2>6, TextFixed DEF WordsInv, LastByte
<1>6. CASE SkipSpace
  <2>1. /\ UNCHANGED <<file, phase, fsize, fb, fresh, word_buffer, list>>
        /\ phase = "tokenize" /\ file_pos < Len(fb) /\ file_pos' = file_pos + 1
        /\ Current \in Space
    BY <1>6, Zenon DEF SkipSpace, Tokenizing
  <2>2. Between(file_pos + 1)
    BY <1>1, <2>1, BehindSpace
  <2>3. StartsUpTo(file_pos + 1) = StartsUpTo(file_pos)
    BY <1>1, <2>1, SpaceCounted
  <2>4. Len(list) = StartsUpTo(file_pos) /\ (FitsBuffers => LastByte = NUL)
    BY <2>1 DEF WordsInv, Taking
  <2>5. Between(file_pos)' /\ (Len(list) = StartsUpTo(file_pos))'
    BY <2>1, <2>2, <2>3, <2>4 DEF Between, InWord, SecondOfTwo, StartsUpTo, TokenStarts
  <2> QED BY <2>1, <2>4, <2>5, TextFixed DEF WordsInv, LastByte
<1>7. CASE WordOverruns
  <2>1. /\ UNCHANGED <<file, fsize, fb, file_pos, fresh, word_buffer, list>>
        /\ phase' = "undefined" /\ Tokenizing /\ Current \in WordChar
        /\ RunLength > DEFAULT_LITERAL_SIZE \/ Terminators(Written) = {}
    BY <1>7 DEF WordOverruns
  <2>2. ~FitsBuffers
    BY <1>1, <2>1, LastByteKept, RunLengthType
  <2> QED BY <2>1, <2>2, TextFixed DEF WordsInv, Taking
<1>8. CASE TokenizeDone
  <2>1. /\ UNCHANGED <<file, fsize, fb, file_pos, fresh, word_buffer, list>>
        /\ phase = "tokenize" /\ phase' = "done" /\ file_pos >= Len(fb)
    BY <1>8 DEF TokenizeDone
  <2>2. file_pos = Len(fb)
    BY <1>1, <2>1 DEF TokenizerTypeOK
  <2>3. Between(file_pos)' /\ (Len(list) = StartsUpTo(file_pos))'
    BY <2>1 DEF WordsInv, Taking, Between, InWord, SecondOfTwo, StartsUpTo, TokenStarts
  <2> QED BY <2>1, <2>2, <2>3, TextFixed DEF WordsInv, Taking, LastByte
<1> QED BY <1>2, <1>3, <1>4, <1>5, <1>6, <1>7, <1>8, TakeWordWords, TakeSymbolWords
        DEF TokenizerStep

LEMMA InitWords == TokenizerInit => WordsInv
BY DEF TokenizerInit, WordsInv, Taking

LEMMA NextIsTokenizers == [Next]_vars => TokenizerStep \/ UNCHANGED tokenizerVars
BY DEF Next, Step, vars, Main, Tokenize, StartPasses, Assemble, AssemblerDies, ShowProgram,
       WriteFile, WriteFails, KilledWriting, List, Load, Execute, ExecuteDone

LEMMA NextWords == TokenizerTypeOK /\ WordsInv /\ [Next]_vars => WordsInv'
BY NextIsTokenizers, TokenizerWords

-----------------------------------------------------------------------------
(***************************************************************************)
(* The spelling.  The tokens made so far are those of the text, and the    *)
(* array holds nothing that a word still to come would not overwrite, or   *)
(* no terminator at all, and then there is no word to come.                *)
(***************************************************************************)
\* The tokens made of the symbols.
LEMMA DoubleIs == 
   /\ DOMAIN Double = {"+", "-", "="}
   /\ Double["+"] = "PLUSPLUS" /\ Double["-"] = "MINUSMINUS" /\ Double["="] = "EQUAL"
BY DEF Double
LEMMA SingleIs ==
  /\ DOMAIN Single = {"\n", ";", "+", "-", "=", "(", ")", "{", "}", ".", ":", ",", "#"}
  /\ Single["\n"] = "EXPRESSION_END" /\ Single[";"] = "EXPRESSION_END"
  /\ Single["+"] = "PLUS" /\ Single["-"] = "MINUS" /\ Single["="] = "ASIGN"
  /\ Single["("] = "PAREN_OPEN" /\ Single[")"] = "PAREN_CLOSE" /\ Single["{"] = "CURLY_OPEN"
  /\ Single["}"] = "CURLY_CLOSE" /\ Single["."] = "DOT" /\ Single[":"] = "COLON"
  /\ Single[","] = "COMMA" /\ Single["#"] = "HASH"
<1>1. DOMAIN Single = {"\n", ";", "+", "-", "=", "(", ")", "{", "}", ".", ":", ",", "#"}
  BY DEF Single
<1>2. Single["\n"] = "EXPRESSION_END"
  BY Zenon DEF Single
<1>3. Single[";"] = "EXPRESSION_END"
  BY Zenon DEF Single
<1>4. Single["+"] = "PLUS"
  BY Zenon DEF Single
<1>5. Single["-"] = "MINUS"
  BY Zenon DEF Single
<1>6. Single["#"] = "HASH"
  BY Zenon DEF Single
<1>7. Single["="] = "ASIGN"
  BY Zenon DEF Single
<1>8. Single["("] = "PAREN_OPEN"
  BY Zenon DEF Single
<1>9. Single[")"] = "PAREN_CLOSE"
  BY Zenon DEF Single
<1>10. Single["{"] = "CURLY_OPEN"
  BY Zenon DEF Single
<1>11. Single["}"] = "CURLY_CLOSE"
  BY Zenon DEF Single
<1>12. Single["."] = "DOT"
  BY Zenon DEF Single
<1>13. Single[":"] = "COLON"
  BY Zenon DEF Single
<1>14. Single[","] = "COMMA"
  BY Zenon DEF Single
<1> QED BY Zenon, <1>1, <1>2, <1>3, <1>4, <1>5, <1>6, <1>7, <1>8, <1>9, <1>10, <1>11, <1>12, <1>13, <1>14

\* The symbols, and the tokens made of them, are different from each other.
LEMMA SymbolsApart ==
  /\ \A b, c \in DOMAIN Double : Double[b] = Double[c] => b = c
  /\ \A c \in DOMAIN Double : /\ Double[c] \notin {"WORD", "NUMBER", "NULL", "EXPRESSION_END"}
                              /\ c \in DOMAIN Single /\ c # ";"
  /\ \A b \in DOMAIN Double, c \in DOMAIN Single : Double[b] # Single[c]
  /\ \A c \in DOMAIN Single : Single[c] \notin {"WORD", "NUMBER", "NULL"}
  /\ \A c \in DOMAIN Single : Single[c] = "EXPRESSION_END" => c = "\n" \/ c = ";"
  /\ \A b, c \in DOMAIN Single :
       Single[b] = Single[c] /\ Single[c] # "EXPRESSION_END" => b = c
<1>1. \A b, c \in DOMAIN Double : Double[b] = Double[c] => b = c
  BY DoubleIs
<1>2. \A c \in DOMAIN Double : /\ Double[c] \notin {"WORD", "NUMBER", "NULL", "EXPRESSION_END"}
                              /\ c \in DOMAIN Single /\ c # ";"
  BY DoubleIs, SingleIs
<1>3. \A c \in DOMAIN Single : Single[c] \notin {"WORD", "NUMBER", "NULL"}
  BY SingleIs
<1>4. \A c \in DOMAIN Single : Single[c] \notin {"PLUSPLUS", "MINUSMINUS", "EQUAL"}
  BY SingleIs
<1>5. \A c \in DOMAIN Double : Double[c] \in {"PLUSPLUS", "MINUSMINUS", "EQUAL"}
  BY DoubleIs
<1>6. \A c \in DOMAIN Single : Single[c] = "EXPRESSION_END" => c = "\n" \/ c = ";"
  BY SingleIs
<1>7. ASSUME NEW b \in DOMAIN Single, NEW c \in DOMAIN Single,
             Single[b] = Single[c], Single[c] # "EXPRESSION_END"
      PROVE  b = c
  <2>1. ASSUME NEW d \in DOMAIN Single, Single[d] # "EXPRESSION_END"
        PROVE  d = CASE Single[d] = "PLUS" -> "+"       [] Single[d] = "MINUS" -> "-"
                     [] Single[d] = "ASIGN" -> "="      [] Single[d] = "PAREN_OPEN" -> "("
                     [] Single[d] = "PAREN_CLOSE" -> ")" [] Single[d] = "CURLY_OPEN" -> "{"
                     [] Single[d] = "CURLY_CLOSE" -> "}" [] Single[d] = "DOT" -> "."
                     [] Single[d] = "COLON" -> ":"      [] Single[d] = "COMMA" -> ","
                     [] Single[d] = "HASH" -> "#"
    BY SingleIs, <2>1, Zenon
  <2> QED BY <1>7, <2>1, Zenon
<1> QED BY <1>1, <1>2, <1>3, <1>4, <1>5, <1>6, <1>7

\* What a token spells.
LEMMA DoubleSpelled ==
  ASSUME NEW c \in DOMAIN Double
  PROVE  Spelling([type |-> Double[c], literall |-> <<>>]) = <<c, c>>
<1> DEFINE t == [type |-> Double[c], literall |-> <<>>]
<1>1. t.type = Double[c]
  OBVIOUS
<1>2. t.type \notin {"WORD", "NUMBER"} /\ t.type # "NULL" /\ t.type # "EXPRESSION_END"
  BY <1>1, SymbolsApart
<1>3. (CHOOSE b \in DOMAIN Double : Double[b] = t.type) = c
  BY <1>1, SymbolsApart
<1>4. \E b \in DOMAIN Double : Double[b] = t.type
  BY <1>1
<1> HIDE DEF t
<1> QED BY Zenon, <1>2, <1>3, <1>4 DEF Spelling, t

LEMMA SingleSpelled ==
  ASSUME NEW c \in DOMAIN Single, Single[c] # "EXPRESSION_END"
  PROVE  Spelling([type |-> Single[c], literall |-> <<>>]) = <<c>>
<1> DEFINE t == [type |-> Single[c], literall |-> <<>>]
<1>1. t.type = Single[c]
  OBVIOUS
<1>2. t.type \notin {"WORD", "NUMBER"} /\ t.type # "NULL" /\ t.type # "EXPRESSION_END"
  BY <1>1, SymbolsApart
<1>3. (CHOOSE b \in DOMAIN Single : Single[b] = t.type) = c
  BY <1>1, SymbolsApart
<1>4. ~ \E b \in DOMAIN Double : Double[b] = t.type
  BY <1>1, SymbolsApart
<1> HIDE DEF t
<1> QED BY Zenon, <1>2, <1>3, <1>4 DEF Spelling, t

LEMMA OthersSpelled ==
  /\ Spelling([type |-> "NULL", literall |-> <<>>]) = <<"?">>
  /\ Spelling([type |-> "EXPRESSION_END", literall |-> <<>>]) = <<"\n">>
  /\ \A t : t.type \in {"WORD", "NUMBER"} => Spelling(t) = t.literall
<1>1. ASSUME NEW t, t.type = "NULL" PROVE Spelling(t) = <<"?">>
  <2>1. /\ t.type \notin {"WORD", "NUMBER"} /\ t.type # "EXPRESSION_END"
        /\ ~ \E b \in DOMAIN Double : Double[b] = t.type
    BY <1>1, SymbolsApart
  <2> QED BY Zenon, <1>1, <2>1 DEF Spelling
<1>2. ASSUME NEW t, t.type = "EXPRESSION_END" PROVE Spelling(t) = <<"\n">>
  <2>1. /\ t.type \notin {"WORD", "NUMBER"} /\ t.type # "NULL"
        /\ ~ \E b \in DOMAIN Double : Double[b] = t.type
    BY <1>2, SymbolsApart
  <2> QED BY Zenon, <1>2, <2>1 DEF Spelling
<1>3. ASSUME NEW t, t.type \in {"WORD", "NUMBER"} PROVE Spelling(t) = t.literall
  BY Zenon, <1>3 DEF Spelling
<1> QED BY <1>1, <1>2, <1>3

Clean ==
  \/ Terminators(word_buffer) = {}
  \/ \A k \in WordStarts : k > file_pos =>
       \A n \in DOMAIN word_buffer :
         word_buffer[n] # NUL => n < Cardinality(WordFrom(k))

SpellInv ==
  Taking /\ (fresh \/ WordsGrow) =>
    /\ Clean
    /\ \A k \in TokenStarts : k <= file_pos => Spelled(StartsUpTo(k), k)

\* A clean array stays clean further on.
LEMMA CleanGoesOn ==
  ASSUME TokenizerTypeOK, Clean, NEW n \in Nat, file_pos' = file_pos + n,
         UNCHANGED <<file, fb, fresh, word_buffer>>
  PROVE  Clean'
<1>1. WordStarts' = WordStarts /\ \A k : WordFrom(k)' = WordFrom(k)
  BY TextFixed
<1>2. \A k \in WordStarts : k > file_pos + n => k > file_pos
  <2>1. file_pos \in Nat /\ \A k \in WordStarts : k \in Nat
    BY Characters DEF WordStarts
  <2> QED BY <2>1
<1> QED BY <1>1, <1>2 DEF Clean, Terminators

\* In a clean array the string is the word that was copied to its start, and only
\* the word is left in it.
LEMMA StringWritten ==
  ASSUME TokenizerTypeOK, Tokenizing, Current \in WordChar, ~InWord(file_pos + 1), Clean,
         Terminators(Written) # {}
  PROVE  /\ StringIn(Written) = [j \in 1 .. RunLength |-> fb[file_pos + j]]
         /\ Terminators(word_buffer) # {}
         /\ \A n \in DOMAIN Written : Written[n] # NUL => n < RunLength
<1> DEFINE size == DEFAULT_LITERAL_SIZE
           T    == Terminators(Written)
           r    == RunLength
<1>1. /\ size \in Nat /\ size >= 1 /\ word_buffer \in [0 .. size - 1 -> WordChar \cup {NUL}]
      /\ Written \in [0 .. size - 1 -> WordChar \cup {NUL}]
      /\ r \in Nat /\ r >= 1 /\ file_pos + r <= Len(fb) /\ file_pos \in Nat /\ Len(fb) \in Nat
  BY TokenizerAssumption, StringType, RunLengthType, Characters DEF TokenizerTypeOK, Buffer
<1>2. ASSUME NEW n \in 0 .. size - 1, n < r
      PROVE  Written[n] = fb[file_pos + n + 1] /\ Written[n] # NUL
  <2>1. Written[n] = At(file_pos + n)
    BY <1>1, <1>2 DEF Written
  <2>2. file_pos + n \in Nat /\ file_pos + n < Len(fb) /\ n \in Nat
    BY <1>1, <1>2
  <2> QED BY <1>2, <2>1, <2>2, Characters, RunLengthType
<1>3. ASSUME NEW n \in 0 .. size - 1, ~ (n < r)
      PROVE  Written[n] = word_buffer[n]
  BY <1>1, <1>3 DEF Written
<1>4. PICK t \in 0 .. size - 1 : Written[t] = NUL
  BY <1>1 DEF Terminators
<1>5. ~ (t < r) /\ word_buffer[t] = NUL
  BY <1>2, <1>3, <1>4
<1>6. Terminators(word_buffer) # {}
  BY <1>1, <1>5 DEF Terminators
<1>7. ASSUME NEW n \in 0 .. size - 1, ~ (n < r)
      PROVE  Written[n] = NUL
  <2>1. /\ file_pos + 1 \in WordStarts /\ Cardinality(WordFrom(file_pos + 1)) = r
        /\ file_pos + 1 > file_pos
    BY <1>1, WordAt
  <2>2. word_buffer[n] # NUL => n < r
    BY <1>1, <1>6, <2>1 DEF Clean
  <2> QED BY <1>3, <1>7, <2>2
<1>8. r \in 0 .. size - 1 /\ r \in T /\ \A n \in T : r <= n
  <2>1. r \in 0 .. size - 1
    BY <1>1, <1>5
  <2>2. r \in T
    BY <1>1, <1>7, <2>1 DEF Terminators
  <2>3. ASSUME NEW n \in T PROVE r <= n
    <3>1. n \in 0 .. size - 1 /\ Written[n] = NUL
      BY <1>1 DEF Terminators
    <3>2. ~ (n < r)
      BY <1>2, <3>1
    <3> QED BY <1>1, <3>1, <3>2
  <2> QED BY <2>1, <2>2, <2>3
<1>9. ASSUME NEW e \in T, \A n \in T : e <= n
      PROVE  e = r
  <2>1. e \in Nat
    BY <1>1 DEF Terminators
  <2>2. e <= r /\ r <= e
    BY <1>8, <1>9
  <2> QED BY <1>1, <2>1, <2>2
<1>10. (CHOOSE e \in T : \A n \in T : e <= n) = r
  <2> HIDE DEF T, r
  <2> QED BY <1>8, <1>9
<1>11. StringIn(Written) = [j \in 1 .. r |-> Written[j - 1]]
  <2> HIDE DEF r
  <2> QED BY <1>10 DEF StringIn
<1>12. ASSUME NEW j \in 1 .. r PROVE Written[j - 1] = fb[file_pos + j]
  <2>1. j - 1 \in 0 .. size - 1 /\ j - 1 < r /\ file_pos + (j - 1) + 1 = file_pos + j
    BY <1>1, <1>8
  <2> QED BY <1>2, <2>1
<1>13. StringIn(Written) = [j \in 1 .. r |-> fb[file_pos + j]]
  <2> HIDE DEF r
  <2> QED BY <1>11, <1>12
<1> QED BY <1>1, <1>6, <1>7, <1>13

\* The token of a word, and that of a symbol, spell their places.
LEMMA WordSpelled ==
  ASSUME TokenizerTypeOK, Tokenizing, Current \in WordChar, ~InWord(file_pos + 1), Clean,
         Terminators(Written) # {}, NEW kind \in {"WORD", "NUMBER"}
  PROVE  Spelling([type |-> kind, literall |-> StringIn(Written)]) =
           [j \in 1 .. Cardinality(TokenFrom(file_pos + 1)) |-> Told(fb[file_pos + 1 + j - 1])]
<1>1. /\ file_pos \in Nat /\ Len(fb) \in Nat /\ file_pos < Len(fb)
      /\ RunLength \in Nat /\ RunLength >= 1
  BY Characters, RunLengthType DEF Tokenizing
<1>2. TokenFrom(file_pos + 1) = WordFrom(file_pos + 1)
  <2>1. fb[file_pos + 1] = Current
    BY <1>1, Characters DEF Current
  <2> QED BY <2>1 DEF TokenFrom
<1>3. Cardinality(TokenFrom(file_pos + 1)) = RunLength
  BY <1>2, WordAt
<1>4. Spelling([type |-> kind, literall |-> StringIn(Written)]) =
        [j \in 1 .. RunLength |-> fb[file_pos + j]]
  <2>1. Spelling([type |-> kind, literall |-> StringIn(Written)]) = StringIn(Written)
    <3> DEFINE t == [type |-> kind, literall |-> StringIn(Written)]
    <3>1. t.type \in {"WORD", "NUMBER"} /\ t.literall = StringIn(Written)
      OBVIOUS
    <3> HIDE DEF t
    <3>2. Spelling(t) = t.literall
      BY <3>1, OthersSpelled
    <3> QED BY <3>1, <3>2 DEF t
  <2> QED BY <2>1, StringWritten
<1>5. ASSUME NEW j \in 1 .. RunLength
      PROVE  fb[file_pos + j] = Told(fb[file_pos + 1 + j - 1])
  <2>1. file_pos + 1 + j - 1 = file_pos + j
        /\ file_pos + j \in file_pos + 1 .. file_pos + RunLength
    BY <1>1
  <2>2. fb[file_pos + j] \in WordChar
    BY <2>1, WordAt
  <2> QED BY <2>1, <2>2 DEF Told
<1> HIDE DEF RunLength
<1> QED BY <1>3, <1>4, <1>5

LEMMA SymbolSpelled ==
  ASSUME TokenizerTypeOK, Tokenizing, Current \notin WordChar, Between(file_pos),
         NEW n \in Nat,
         n = IF Current \in DOMAIN Double /\ At(file_pos + 1) = Current THEN 2 ELSE 1,
         NEW type,
         type = IF Current \in DOMAIN Double /\ At(file_pos + 1) = Current
                THEN Double[Current]
                ELSE IF Current \in DOMAIN Single THEN Single[Current] ELSE "NULL"
  PROVE  Spelling([type |-> type, literall |-> <<>>]) =
           [j \in 1 .. Cardinality(TokenFrom(file_pos + 1)) |-> Told(fb[file_pos + 1 + j - 1])]
<1> DEFINE c == Current
           spelt == Spelling([type |-> type, literall |-> <<>>])
<1>1. file_pos \in Nat /\ n \in {1, 2}
  BY Characters
<1>2. Cardinality(TokenFrom(file_pos + 1)) = n
  <2>1. TokenFrom(file_pos + 1) = file_pos + 1 .. file_pos + n
    BY SymbolAt
  <2>2. Cardinality(file_pos + 1 .. file_pos + n) = n
    BY <1>1, PlacesCounted
  <2> QED BY <2>1, <2>2
<1>3. ASSUME NEW j \in 1 .. n PROVE fb[file_pos + 1 + j - 1] = c
  <2>1. file_pos + 1 + j - 1 \in file_pos + 1 .. file_pos + n
    BY <1>1
  <2> QED BY <2>1, SymbolAt
<1>4. spelt = [j \in 1 .. n |-> Told(c)]
  <2>1. CASE c \in DOMAIN Double /\ At(file_pos + 1) = c
    <3>1. n = 2 /\ type = Double[c]
      BY <2>1
    <3>2. spelt = <<c, c>>
      BY <2>1, <3>1, DoubleSpelled
    <3>3. Told(c) = c
      BY <2>1, SymbolsApart DEF Told
    <3> HIDE DEF c, spelt
    <3> QED BY <3>1, <3>2, <3>3
  <2>2. CASE ~ (c \in DOMAIN Double /\ At(file_pos + 1) = c) /\ c \in DOMAIN Single
    <3>1. n = 1 /\ type = Single[c]
      BY <2>2
    <3>2. CASE Single[c] = "EXPRESSION_END"
      <4>1. spelt = <<"\n">>
        BY <3>1, <3>2, OthersSpelled
      <4>2. c = ";" \/ c = "\n"
        BY <2>2, <3>2, SymbolsApart
      <4>3. Told(c) = "\n"
        BY <2>2, <4>2, Zenon DEF Told
      <4> HIDE DEF c, spelt
      <4> QED BY <3>1, <4>1, <4>3
    <3>3. CASE Single[c] # "EXPRESSION_END"
      <4>1. spelt = <<c>>
        BY <2>2, <3>1, <3>3, SingleSpelled
      <4>2. c # ";"
        BY <3>3, SingleIs
      <4>3. Told(c) = c
        BY <2>2, <4>2 DEF Told
      <4> HIDE DEF c, spelt
      <4> QED BY <3>1, <4>1, <4>3
    <3> QED BY <3>2, <3>3
  <2>3. CASE c \notin DOMAIN Single
    <3>1. c \notin DOMAIN Double
      BY <2>3, SymbolsApart
    <3>2. n = 1 /\ type = "NULL"
      BY <2>3, <3>1
    <3>3. spelt = <<"?">>
      BY <3>2, OthersSpelled
    <3>4. c # ";"
      BY <2>3, SingleIs
    <3>5. Told(c) = "?"
      BY <2>3, <3>4 DEF Told
    <3> HIDE DEF c, spelt
    <3> QED BY <3>2, <3>3, <3>5
  <2> QED BY <2>1, <2>2, <2>3
<1> HIDE DEF c, spelt
<1> QED BY <1>2, <1>3, <1>4 DEF spelt

\* Another token keeps the earlier ones, and is that of its place.
LEMMA TokenSpelled ==
  ASSUME TokenizerTypeOK, WordsInv, Tokenizing, NEW token, NEW n \in Nat, n >= 1,
         file_pos + n <= Len(fb), list' = Append(list, token), fb' = fb,
         file_pos + 1 \in TokenStarts,
         \A m \in file_pos + 2 .. file_pos + n : m \notin TokenStarts,
         \A k \in TokenStarts : k <= file_pos => Spelled(StartsUpTo(k), k),
         Spelling(token) = [j \in 1 .. Cardinality(TokenFrom(file_pos + 1)) |->
                              Told(fb[file_pos + 1 + j - 1])],
         NEW k \in TokenStarts, k <= file_pos + n
  PROVE  Spelled(StartsUpTo(k), k)'
<1>1. /\ file_pos \in Nat /\ Len(fb) \in Nat /\ phase = "tokenize"
      /\ list \in Seq(Token) /\ Len(list) \in Nat /\ Len(list) = StartsUpTo(file_pos)
      /\ k \in Nat /\ k >= 1
  BY Characters DEF Tokenizing, TokenizerTypeOK, WordsInv, Taking, TokenStarts
<1>2. StartsUpTo(k)' = StartsUpTo(k) /\ TokenFrom(k)' = TokenFrom(k)
  BY DEF StartsUpTo, TokenStarts, TokenFrom, WordFrom, InWord, SecondOfTwo
<1>3. CASE k <= file_pos
  <2>1. /\ k - 1 \in Nat /\ k - 1 < k /\ k - 1 + 1 = k
    BY <1>1
  <2>2. StartsUpTo(k - 1) \in Nat /\ StartsUpTo(k) \in Nat
        /\ StartsUpTo(k - 1) < StartsUpTo(k)
    <3> DEFINE j == k - 1
    <3>1. j \in Nat /\ j < k /\ j <= k /\ j + 1 \in TokenStarts
      BY <2>1
    <3> HIDE DEF j
    <3>2. /\ StartsUpTo(j) \in Nat /\ StartsUpTo(k) \in Nat
          /\ StartsUpTo(j) < StartsUpTo(k)
      BY <1>1, <3>1, StartsCounted
    <3> QED BY <3>2 DEF j
  <2>3. StartsUpTo(k) <= StartsUpTo(file_pos)
    BY <1>1, <1>3, StartsCounted
  <2>4. StartsUpTo(k) \in 1 .. Len(list)
    BY <1>1, <2>2, <2>3
  <2>5. list'[StartsUpTo(k)] = list[StartsUpTo(k)]
    BY <1>1, <2>4
  <2>6. Spelled(StartsUpTo(k), k)
    BY <1>3
  <2> QED BY <1>2, <2>5, <2>6 DEF Spelled
<1>4. CASE ~ (k <= file_pos)
  <2>1. k = file_pos + 1
    BY <1>1, <1>4
  <2>2. StartsUpTo(file_pos + 1) = StartsUpTo(file_pos) + 1
    <3>1. file_pos + 1 \in Nat /\ file_pos < file_pos + 1 /\ file_pos + 2 .. file_pos + 1 = {}
      BY <1>1
    <3> QED BY <1>1, <3>1, StartsCounted
  <2>3. list'[StartsUpTo(k)] = token
    BY <1>1, <2>1, <2>2
  <2> QED BY <1>2, <2>1, <2>3 DEF Spelled
<1> QED BY <1>3, <1>4

LEMMA SpelledFixed ==
  ASSUME fb' = fb, file' = file, fresh' = fresh, list' = list
  PROVE  \A k : Spelled(StartsUpTo(k), k)' <=> Spelled(StartsUpTo(k), k)
<1> SUFFICES ASSUME NEW k
             PROVE  Spelled(StartsUpTo(k), k)' <=> Spelled(StartsUpTo(k), k)
  OBVIOUS
<1>1. StartsUpTo(k)' = StartsUpTo(k) /\ TokenFrom(k)' = TokenFrom(k)
  BY TextFixed
<1> QED BY <1>1 DEF Spelled

LEMMA TakeWordSpells == TokenizerTypeOK /\ WordsInv /\ SpellInv /\ TakeWord => SpellInv'
<1> SUFFICES ASSUME TokenizerTypeOK, WordsInv, SpellInv, TakeWord,
                    Taking', (fresh \/ WordsGrow)'
             PROVE  /\ Clean'
                    /\ \A k \in TokenStarts' : k <= file_pos' => Spelled(StartsUpTo(k), k)'
  BY DEF SpellInv
<1> DEFINE kind  == IF Current \in Letter THEN "WORD" ELSE "NUMBER"
           token == [type |-> kind, literall |-> StringIn(Written)]
           r     == RunLength
<1>1. /\ Tokenizing /\ Current \in WordChar /\ UNCHANGED <<file, fsize, fb, fresh>>
      /\ word_buffer' = IF fresh THEN Zeros ELSE Written
      /\ AppendToken(token, r) /\ Terminators(Written) # {}
  BY DEF TakeWord
<1>2. /\ r \in Nat /\ r >= 1 /\ file_pos + r <= Len(fb)
      /\ file_pos \in Nat /\ Len(fb) \in Nat /\ file_pos < Len(fb)
  BY <1>1, RunLengthType, Characters DEF Tokenizing
<1>3. Current \notin Space
  BY <1>1, TokenizerAssumption
<1>4. ~InWord(file_pos + 1)
  BY <1>1 DEF Tokenizing, WordsInv, Between, Taking
<1>5. \A m \in file_pos + 2 .. file_pos + r : m \notin TokenStarts
  BY <1>1, <1>4, WordAt DEF TokenStarts
<1>6. (fresh \/ WordsGrow) /\ Taking
  BY <1>1, TextFixed DEF Tokenizing, Taking
<1>7. Clean /\ \A k \in TokenStarts : k <= file_pos => Spelled(StartsUpTo(k), k)
  BY <1>6 DEF SpellInv
<1>8. /\ phase' = "tokenize" /\ file_pos' = file_pos + r /\ list' = Append(list, token)
      /\ file_pos + 1 \in TokenStarts
  <2> HIDE DEF token, r
  <2> QED BY <1>1, <1>2, <1>3, <1>5, TokenAppended DEF Taking, r
<1>9. Spelling(token) = [j \in 1 .. Cardinality(TokenFrom(file_pos + 1)) |->
                            Told(fb[file_pos + 1 + j - 1])]
  <2>1. kind \in {"WORD", "NUMBER"}
    OBVIOUS
  <2> HIDE DEF kind
  <2> QED BY <1>1, <1>4, <1>7, <2>1, WordSpelled
<1>10. \A k \in TokenStarts' : k <= file_pos' => Spelled(StartsUpTo(k), k)'
  <2>1. TokenStarts' = TokenStarts
    BY <1>1, TextFixed
  <2> HIDE DEF token, r
  <2>2. ASSUME NEW k \in TokenStarts, k <= file_pos + r
        PROVE  Spelled(StartsUpTo(k), k)'
    BY <1>1, <1>2, <1>5, <1>7, <1>8, <1>9, <2>2, TokenSpelled
  <2> QED BY <1>8, <2>1, <2>2
<1>11. Clean'
  <2>1. CASE fresh
    <3>1. word_buffer' = Zeros /\ DOMAIN Zeros = 0 .. DEFAULT_LITERAL_SIZE - 1
          /\ \A n \in DOMAIN Zeros : Zeros[n] = NUL
      BY <1>1, <2>1 DEF Zeros
    <3> QED BY <3>1 DEF Clean
  <2>2. CASE ~fresh
    <3>1. word_buffer' = Written /\ WordsGrow
      BY <1>1, <1>6, <2>2
    <3>2. \A n \in DOMAIN Written : Written[n] # NUL => n < r
      BY <1>1, <1>4, <1>7, StringWritten
    <3>3. file_pos + 1 \in WordStarts /\ Cardinality(WordFrom(file_pos + 1)) = r
      BY <1>1, <1>4, WordAt
    <3>4. ASSUME NEW k \in WordStarts, k > file_pos + r,
                 NEW n \in DOMAIN Written, Written[n] # NUL
          PROVE  n < Cardinality(WordFrom(k))
      <4>1. file_pos + 1 < k /\ k \in Nat
        BY <1>2, <3>4 DEF WordStarts
      <4>2. r <= Cardinality(WordFrom(k))
        BY <3>1, <3>3, <4>1 DEF WordsGrow
      <4>3. n < r /\ n \in Int
        <5>1. DOMAIN Written \subseteq Int
          BY <1>1, TokenizerAssumption, StringType DEF Buffer
        <5> QED BY <3>2, <3>4, <5>1
      <4>4. Cardinality(WordFrom(k)) \in Nat
        <5>1. WordFrom(k) \subseteq k .. Len(fb)
          BY DEF WordFrom
        <5>2. IsFiniteSet(k .. Len(fb))
          BY <1>2, <4>1, FS_Interval
        <5> QED BY <5>1, <5>2, FS_Subset, FS_CardinalityType
      <4> QED BY <1>2, <4>2, <4>3, <4>4
    <3>5. WordStarts' = WordStarts /\ \A k : WordFrom(k)' = WordFrom(k)
      BY <1>1, TextFixed
    <3> HIDE DEF r
    <3> QED BY <1>8, <3>1, <3>4, <3>5 DEF Clean
  <2> QED BY <2>1, <2>2
<1> QED BY <1>10, <1>11

LEMMA TakeSymbolSpells == TokenizerTypeOK /\ WordsInv /\ SpellInv /\ TakeSymbol => SpellInv'
<1> SUFFICES ASSUME TokenizerTypeOK, WordsInv, SpellInv, TakeSymbol,
                    Taking', (fresh \/ WordsGrow)'
             PROVE  /\ Clean'
                    /\ \A k \in TokenStarts' : k <= file_pos' => Spelled(StartsUpTo(k), k)'
  BY DEF SpellInv
<1> DEFINE twice == Current \in DOMAIN Double /\ At(file_pos + 1) = Current
           type  == IF twice THEN Double[Current]
                    ELSE IF Current \in DOMAIN Single THEN Single[Current] ELSE "NULL"
           token == [type |-> type, literall |-> <<>>]
           n     == IF twice THEN 2 ELSE 1
<1>1. /\ Tokenizing /\ Current \notin WordChar /\ Current \notin Space
      /\ UNCHANGED <<file, fsize, fb, fresh, word_buffer>> /\ AppendToken(token, n)
  BY DEF TakeSymbol
<1>2. phase = "tokenize" /\ Between(file_pos) /\ Taking
  BY <1>1 DEF Tokenizing, WordsInv, Taking
<1>3. n \in Nat /\ n = IF Current \in DOMAIN Double /\ At(file_pos + 1) = Current
                       THEN 2 ELSE 1
  OBVIOUS
<1>4. Spelling(token) = [j \in 1 .. Cardinality(TokenFrom(file_pos + 1)) |->
                           Told(fb[file_pos + 1 + j - 1])]
  <2>1. type = IF Current \in DOMAIN Double /\ At(file_pos + 1) = Current
               THEN Double[Current]
               ELSE IF Current \in DOMAIN Single THEN Single[Current] ELSE "NULL"
    OBVIOUS
  <2> HIDE DEF type, n
  <2> QED BY <1>1, <1>2, <1>3, <2>1, SymbolSpelled
<1> HIDE DEF token, n
<1>5. /\ n >= 1 /\ file_pos + n <= Len(fb)
      /\ \A m \in file_pos + 2 .. file_pos + n : m \notin TokenStarts
  BY <1>1, <1>2, <1>3, SymbolAt DEF TokenStarts
<1>6. /\ phase' = "tokenize" /\ file_pos' = file_pos + n /\ list' = Append(list, token)
      /\ file_pos + 1 \in TokenStarts
  BY <1>1, <1>3, <1>5, TokenAppended DEF Taking
<1>7. Clean /\ \A k \in TokenStarts : k <= file_pos => Spelled(StartsUpTo(k), k)
  BY <1>1, <1>2, TextFixed DEF SpellInv
<1>8. \A k \in TokenStarts' : k <= file_pos' => Spelled(StartsUpTo(k), k)'
  <2>1. TokenStarts' = TokenStarts
    BY <1>1, TextFixed
  <2>2. ASSUME NEW k \in TokenStarts, k <= file_pos + n
        PROVE  Spelled(StartsUpTo(k), k)'
    BY <1>1, <1>3, <1>4, <1>5, <1>6, <1>7, <2>2, TokenSpelled
  <2> QED BY <1>6, <2>1, <2>2
<1>9. Clean'
  BY <1>1, <1>3, <1>6, <1>7, CleanGoesOn
<1> QED BY <1>8, <1>9

LEMMA TokenizerSpells ==
  TokenizerTypeOK /\ WordsInv /\ SpellInv /\ (TokenizerStep \/ UNCHANGED tokenizerVars)
    => SpellInv'
<1> SUFFICES ASSUME TokenizerTypeOK, WordsInv, SpellInv,
                    TokenizerStep \/ UNCHANGED tokenizerVars
             PROVE  SpellInv'
  OBVIOUS
<1>1. CASE UNCHANGED tokenizerVars
  <2>1. UNCHANGED <<phase, file_pos, word_buffer, list, fb, file, fresh>>
    BY <1>1 DEF tokenizerVars
  <2>2. Taking' = Taking /\ Clean' = Clean
    BY <2>1, TextFixed DEF Taking, Clean, Terminators
  <2>3. \A k : Spelled(StartsUpTo(k), k)' <=> Spelled(StartsUpTo(k), k)
    BY <2>1, SpelledFixed
  <2> QED BY <2>1, <2>2, <2>3, TextFixed DEF SpellInv
<1>2. CASE ReadChar \/ ReadOverruns \/ WordOverruns
  <2>1. ~Taking'
    BY <1>2 DEF ReadChar, ReadOverruns, WordOverruns, Taking
  <2> QED BY <2>1 DEF SpellInv
<1>3. CASE ReadDone
  <2>1. /\ UNCHANGED <<file, fsize, fb, file_pos, fresh, word_buffer, list>>
        /\ phase = "read" /\ phase' = "tokenize"
    BY <1>3 DEF ReadDone
  <2>2. /\ file_pos = 0 /\ (fresh \/ word_buffer \in StackGarbage)
        /\ (fresh => word_buffer = Zeros)
    BY <2>1 DEF WordsInv
  <2>3. ASSUME fresh \/ WordsGrow PROVE Clean
    <3>1. CASE fresh
      BY <2>2, <3>1 DEF Clean, Zeros
    <3>2. CASE ~fresh
      <4>1. word_buffer \in StackGarbage /\ WordsGrow
        BY <2>2, <2>3, <3>2
      <4> QED BY <4>1 DEF Clean, WordsGrow
    <3> QED BY <3>1, <3>2
  <2>4. \A k \in TokenStarts : ~ (k <= 0)
    BY Characters DEF TokenStarts
  <2>5. /\ Clean' = Clean /\ (fresh \/ WordsGrow)' = (fresh \/ WordsGrow)
        /\ TokenStarts' = TokenStarts
    BY <2>1, TextFixed DEF Clean, Terminators
  <2> QED BY <2>1, <2>2, <2>3, <2>4, <2>5 DEF SpellInv
<1>4. CASE SkipSpace
  <2>1. /\ UNCHANGED <<file, phase, fsize, fb, fresh, word_buffer, list>>
        /\ phase = "tokenize" /\ file_pos < Len(fb) /\ file_pos' = file_pos + 1
        /\ Current \in Space
    BY <1>4, Zenon DEF SkipSpace, Tokenizing
  <2>2. file_pos \in Nat /\ file_pos + 1 \notin TokenStarts
    BY <2>1, Characters, BehindSpace DEF TokenStarts
  <2>3. \A k \in TokenStarts : k <= file_pos + 1 => k <= file_pos
    <3>1. \A k \in TokenStarts : k \in Nat
      BY Characters DEF TokenStarts
    <3> QED BY <2>2, <3>1
  <2>4. Clean => Clean'
    <3>1. 1 \in Nat /\ file_pos' = file_pos + 1
      BY <2>1
    <3> QED BY <2>1, <3>1, CleanGoesOn
  <2>5. \A k : Spelled(StartsUpTo(k), k)' <=> Spelled(StartsUpTo(k), k)
    BY <2>1, SpelledFixed
  <2> QED BY <2>1, <2>3, <2>4, <2>5, TextFixed DEF SpellInv, Taking
<1>5. CASE TokenizeDone
  <2>1. UNCHANGED <<file, fsize, fb, file_pos, fresh, word_buffer, list>> /\ phase = "tokenize"
    BY <1>5 DEF TokenizeDone
  <2>2. \A k : Spelled(StartsUpTo(k), k)' <=> Spelled(StartsUpTo(k), k)
    BY <2>1, SpelledFixed
  <2>3. Clean => Clean'
    BY <2>1, TextFixed DEF Clean, Terminators
  <2> QED BY <2>1, <2>2, <2>3, TextFixed DEF SpellInv, Taking
<1> QED BY <1>1, <1>2, <1>3, <1>4, <1>5, TakeWordSpells, TakeSymbolSpells DEF TokenizerStep

-----------------------------------------------------------------------------
(***************************************************************************)
(* What is read.  The buffer holds the characters read so far but for the  *)
(* NULs; none of them was the byte 255, and the reading has stopped at one *)
(* or at the end of the file.                                              *)
(***************************************************************************)
TextUpTo(k)  == {j \in 1 .. k : file[j] # NUL}
CharsUpTo(k) == Cardinality(TextUpTo(k))

ReadInv ==
  phase \in {"read", "tokenize", "done"} =>
    /\ \A j \in 1 .. fsize : file[j] # EOF_BYTE
    /\ Len(fb) = CharsUpTo(fsize)
    /\ \A j \in TextUpTo(fsize) : fb[CharsUpTo(j)] = file[j]
    /\ phase # "read" => ~More

\* A place of the text is a place of the buffer.
LEMMA TextPlaces ==
  ASSUME NEW k \in Nat
  PROVE  /\ CharsUpTo(k) \in Nat /\ IsFiniteSet(TextUpTo(k))
         /\ \A j \in TextUpTo(k) : CharsUpTo(j) \in 1 .. CharsUpTo(k)
<1>1. \A n \in Nat : IsFiniteSet(TextUpTo(n)) /\ CharsUpTo(n) \in Nat
  <2> SUFFICES ASSUME NEW n \in Nat PROVE IsFiniteSet(TextUpTo(n)) /\ CharsUpTo(n) \in Nat
    OBVIOUS
  <2>1. IsFiniteSet(1 .. n) /\ TextUpTo(n) \subseteq 1 .. n
    BY FS_Interval DEF TextUpTo
  <2>2. IsFiniteSet(TextUpTo(n))
    BY <2>1, FS_Subset
  <2> QED BY <2>2, FS_CardinalityType DEF CharsUpTo
<1>2. ASSUME NEW j \in TextUpTo(k)
      PROVE  CharsUpTo(j) \in 1 .. CharsUpTo(k)
  <2>1. j \in Nat /\ j \in TextUpTo(j) /\ TextUpTo(j) \subseteq TextUpTo(k)
    BY DEF TextUpTo
  <2>2. CharsUpTo(j) <= CharsUpTo(k)
    BY <1>1, <2>1, FS_Subset DEF CharsUpTo
  <2>3. CharsUpTo(j) # 0
    BY <1>1, <2>1, FS_EmptySet DEF CharsUpTo
  <2> QED BY <1>1, <2>1, <2>2, <2>3
<1> QED BY <1>1, <1>2

LEMMA ReadCharReads == TokenizerTypeOK /\ ReadInv /\ ReadChar => ReadInv'
<1> SUFFICES ASSUME TokenizerTypeOK, ReadInv, ReadChar, phase' # "aborted" PROVE ReadInv'
  BY DEF ReadInv
<1> DEFINE n == fsize + 1
<1>1. /\ file' = file /\ phase = "read" /\ phase' = "read" /\ fsize' = n
      /\ file[n] # EOF_BYTE
      /\ fb' = IF file[n] = NUL THEN fb ELSE Append(fb, file[n])
  BY DEF ReadChar, More
<1>2. /\ fsize \in Nat /\ n \in Nat /\ 1 .. n = (1 .. fsize) \cup {n} /\ n \notin 1 .. fsize
      /\ fb \in Seq(Character \ {NUL, EOF_BYTE}) /\ Len(fb) \in Nat
  BY DEF TokenizerTypeOK
<1>3. \A k : TextUpTo(k)' = TextUpTo(k) /\ CharsUpTo(k)' = CharsUpTo(k)
  BY <1>1 DEF TextUpTo, CharsUpTo
<1>4. /\ \A j \in 1 .. fsize : file[j] # EOF_BYTE
      /\ Len(fb) = CharsUpTo(fsize)
      /\ \A j \in TextUpTo(fsize) : fb[CharsUpTo(j)] = file[j]
  BY <1>1 DEF ReadInv
<1> HIDE DEF n
<1>5. \A j \in 1 .. n : file'[j] # EOF_BYTE
  BY <1>1, <1>2, <1>4
<1>6. CASE file[n] = NUL
  <2>1. TextUpTo(n) = TextUpTo(fsize)
    BY <1>2, <1>6 DEF TextUpTo
  <2>2. CharsUpTo(n) = CharsUpTo(fsize) /\ fb' = fb
    BY <1>1, <1>6, <2>1 DEF CharsUpTo
  <2> QED BY <1>1, <1>3, <1>4, <1>5, <2>1, <2>2 DEF ReadInv
<1>7. CASE file[n] # NUL
  <2>1. TextUpTo(n) = TextUpTo(fsize) \cup {n} /\ n \notin TextUpTo(fsize)
    BY <1>2, <1>7 DEF TextUpTo
  <2>2. CharsUpTo(n) = Len(fb) + 1
    <3> DEFINE S == TextUpTo(fsize)
    <3>1. IsFiniteSet(S) /\ Cardinality(S) = Len(fb) /\ n \notin S
      BY <1>2, <1>4, <2>1, TextPlaces DEF CharsUpTo
    <3> HIDE DEF S
    <3>2. Cardinality(S \cup {n}) = Cardinality(S) + 1
      BY <3>1, FS_AddElement
    <3> QED BY <2>1, <3>1, <3>2 DEF CharsUpTo, S
  <2>3. /\ fb' = Append(fb, file[n]) /\ Len(fb') = Len(fb) + 1
        /\ fb'[Len(fb) + 1] = file[n]
        /\ \A k \in 1 .. Len(fb) : fb'[k] = fb[k]
    BY <1>1, <1>2, <1>7
  <2>4. \A j \in TextUpTo(fsize) : CharsUpTo(j) \in 1 .. Len(fb)
    BY <1>2, <1>4, TextPlaces
  <2>5. \A j \in TextUpTo(n) : fb'[CharsUpTo(j)] = file[j]
    BY <1>4, <2>1, <2>2, <2>3, <2>4
  <2> QED BY <1>1, <1>3, <1>5, <2>2, <2>3, <2>5 DEF ReadInv
<1> QED BY <1>6, <1>7

LEMMA TokenizerReads ==
  TokenizerTypeOK /\ ReadInv /\ (TokenizerStep \/ UNCHANGED tokenizerVars) => ReadInv'
<1> SUFFICES ASSUME TokenizerTypeOK, ReadInv, TokenizerStep \/ UNCHANGED tokenizerVars
             PROVE  ReadInv'
  OBVIOUS
<1>1. CASE UNCHANGED <<file, fsize, fb>> /\ (phase' \in {"tokenize", "done"} =>
             phase \in {"tokenize", "done"} \/ (phase = "read" /\ ~More))
           /\ (phase' = "read" => phase = "read")
  BY <1>1 DEF ReadInv, More, TextUpTo, CharsUpTo
<1>2. CASE SkipSpace \/ TakeWord \/ WordOverruns \/ TakeSymbol \/ TokenizeDone
  BY <1>1, <1>2, Zenon DEF SkipSpace, TakeWord, WordOverruns, TakeSymbol, TokenizeDone,
       AppendToken, Tokenizing
<1>3. CASE ReadOverruns \/ ReadDone
  BY <1>1, <1>3 DEF ReadOverruns, ReadDone
<1>4. CASE UNCHANGED tokenizerVars
  BY <1>1, <1>4 DEF tokenizerVars, TokenizerTypeOK, ReadInv, More, TextUpTo, CharsUpTo
<1> QED BY <1>2, <1>3, <1>4, ReadCharReads DEF TokenizerStep

\* When it is done, that is all of the text.
LEMMA TextRead ==
  ASSUME TokenizerTypeOK, ReadInv, phase = "done"
  PROVE  FileRead
<1>1. /\ fsize \in 0 .. Len(file) /\ Len(file) \in Nat /\ DOMAIN file = 1 .. Len(file)
      /\ \A j \in 1 .. fsize : file[j] # EOF_BYTE
      /\ Len(fb) = CharsUpTo(fsize)
      /\ \A j \in TextUpTo(fsize) : fb[CharsUpTo(j)] = file[j]
      /\ ~More
  BY TokenizerAssumption DEF ReadInv, TokenizerTypeOK
<1>2. ASSUME NEW k \in InText
      PROVE  k \in TextUpTo(fsize)
  <2>1. k \in 1 .. Len(file) /\ file[k] # NUL /\ \A j \in 1 .. k : file[j] # EOF_BYTE
    BY <1>1 DEF InText
  <2>2. CASE k > fsize
    <3>1. fsize < Len(file) /\ fsize + 1 \in 1 .. k
      BY <1>1, <2>1, <2>2
    <3> QED BY <1>1, <2>1, <3>1 DEF More
  <2>3. CASE ~ (k > fsize)
    BY <1>1, <2>1, <2>3 DEF TextUpTo
  <2> QED BY <2>2, <2>3
<1>3. ASSUME NEW k \in TextUpTo(fsize)
      PROVE  k \in InText
  <2>1. k \in 1 .. fsize /\ file[k] # NUL /\ \A j \in 1 .. k : j \in 1 .. fsize
    BY <1>1 DEF TextUpTo
  <2> QED BY <1>1, <2>1 DEF InText
<1>4. InText = TextUpTo(fsize)
  BY <1>2, <1>3
<1>5. ASSUME NEW k \in InText
      PROVE  {j \in InText : j <= k} = TextUpTo(k)
  <2>1. k \in 1 .. fsize
    BY <1>2, <1>5 DEF TextUpTo
  <2> QED BY <1>1, <1>4, <2>1 DEF TextUpTo
<1> QED BY <1>1, <1>4, <1>5 DEF FileRead, CharsUpTo

\* Every text is that of its file, as far as the first byte 255 and but for the NULs;
\* and its tokens spell it, one by one and character by character, if the frames of
\* token_next are fresh or the words grow - whatever the frames held.
THEOREM TokensCorrect == Spec => []TokensSpellText
<1> DEFINE Inv == TokenizerTypeOK /\ WordsInv /\ SpellInv /\ ReadInv
<1>1. Init => Inv
  <2>1. TokenizerInit => SpellInv
    BY DEF TokenizerInit, SpellInv, Taking
  <2>2. TokenizerInit => ReadInv
    BY FS_EmptySet DEF TokenizerInit, ReadInv, TextUpTo, CharsUpTo
  <2> QED BY <2>1, <2>2, TokenizerInitType, InitWords DEF Init
<1>2. Inv /\ [Next]_vars => Inv'
  BY NextTokenizer, NextWords, NextIsTokenizers, TokenizerSpells, TokenizerReads
<1>3. Inv => TokensSpellText
  <2> SUFFICES ASSUME Inv, phase = "done", fresh \/ WordsGrow PROVE ListSpellsText
    BY TextRead DEF TokensSpellText
  <2>1. /\ file_pos = Len(fb) /\ Len(list) = StartsUpTo(Len(fb)) /\ Len(fb) \in Nat
        /\ \A k \in TokenStarts : k <= Len(fb) => Spelled(StartsUpTo(k), k)
    BY Characters DEF WordsInv, SpellInv, Taking
  <2>2. TokenStarts \subseteq 1 .. Len(fb)
    BY DEF TokenStarts
  <2>3. {t \in TokenStarts : t <= Len(fb)} = TokenStarts
    <3>1. \A t \in TokenStarts : t <= Len(fb)
      BY <2>1, <2>2
    <3> HIDE DEF Inv
    <3> QED BY <3>1
  <2>4. \A k \in TokenStarts : Spelled(StartsUpTo(k), k)
    BY <2>1, <2>2
  <2> QED BY <2>1, <2>3, <2>4 DEF ListSpellsText, StartsUpTo
<1> HIDE DEF Inv
<1> QED BY <1>1, <1>2, <1>3, PTL DEF Spec

\* Whatever the sizes of the arrays, nothing is written or read beyond one by the
\* assembler unless the source, its words, tokens, lines, labels, instructions or
\* operands are too many or too long for them, or token_next finds a reused frame
\* without a terminator.
THEOREM SmallSourcesCorrect == Spec => []SmallSourcesDefined
<1> DEFINE Inv == TokenizerTypeOK /\ PassesInv /\ LinesInv /\ WordsInv
<1>1. Init => Inv
  BY TokenizerInitType, InitPasses, InitLines, InitWords DEF Init
<1>2. Inv /\ [Next]_vars => Inv'
  BY NextTokenizer, NextPasses, NextLines, NextWords
<1>3. Inv => SmallSourcesDefined
  BY SourcesSame
     DEF LinesInv, WordsInv, AP!LimitsInv, AP!FittingSourcesDefined, SmallSourcesDefined
<1> HIDE DEF Inv
<1> QED BY <1>1, <1>2, <1>3, PTL DEF Spec

=============================================================================
