----------------------------- MODULE WordPrograms -----------------------------
(***************************************************************************)
(* Straight programs that compute, in two ways, something that is to come  *)
(* out the same, and return whether it has, or that store and load again:  *)
(* laws of the machine's arithmetic and memory (execute_op, save_decimal,  *)
(* save_float, load_decimal) as its programs see them.                     *)
(***************************************************************************)
EXTENDS SetMachine, SetMacros

Ops(op, args) == Registers(op, args)

Given(a, b) == <<SET(0, a), SET(1, b)>>
RETURN(r)   == Ops("I_RET", <<r>>)

\* (a + b) - b = a, and the same with a step of one, across the wrap at the
\* end of the word.
SumProgram(a, b) ==
  <<SET(0, a), SET(1, b), Ops("I_ADD", <<2, 0, 1>>), Ops("I_INC", <<2>>),
    Ops("I_SUB", <<2, 2, 1>>), Ops("I_DEC", <<2>>), Ops("I_CMPE", <<2, 2, 0>>),
    RETURN(2)>>

\* a - (a / b) * b < b.
QuotientProgram(a, b) ==
  <<SET(0, a), SET(1, b), Ops("I_DIV", <<2, 0, 1>>), Ops("I_MUL", <<2, 2, 1>>),
    Ops("I_SUB", <<2, 0, 2>>), Ops("I_CMPL", <<2, 2, 1>>), RETURN(2)>>

\* Of two comparisons that are each other's negation, exactly one holds.
OrderProgram(a, b, op1, op2) ==
  <<SET(0, a), SET(1, b), Ops(op1, <<2, 0, 1>>), Ops(op2, <<0, 0, 1>>), SET(1, 1),
    Ops("I_ADD", <<2, 2, 0>>), Ops("I_CMPE", <<2, 2, 1>>), RETURN(2)>>

\* A word is stored at a, a float at b, which may overlap, and a word is loaded
\* from c.
StoreStoreLoad(w, a, v, b, c) ==
  <<SET(0, w), SET(1, a), Ops("I_DSAVE", <<0, 1>>), FSET(0, v), SET(1, b),
    Ops("I_FSAVE", <<0, 1>>), SET(1, c), Ops("I_DLOAD", <<2, 1>>), RETURN(2)>>

WordAddresses == 0 .. STACK_SIZE - WORD_BYTES

SumPrograms      == {SumProgram(a, b) : a \in Word, b \in Word}
QuotientPrograms == {QuotientProgram(a, b) : a \in Word, b \in Word}
OrderPrograms    == {OrderProgram(a, b, "I_CMPEG", "I_CMPL") : a \in Word, b \in Word}
                    \cup {OrderProgram(a, b, "I_CMPEL", "I_CMPG") : a \in Word, b \in Word}
MemoryPrograms   == {StoreStoreLoad(w, a, v, b, c) :
                       w \in Word, v \in Word,
                       a \in WordAddresses, b \in WordAddresses, c \in WordAddresses}

-----------------------------------------------------------------------------
ReturnsTrue == status = "halted" /\ accum_register = 1

\* Increments undo decrements and subtractions undo additions, modulo 2^32.
SubtractionUndoesAddition == (program \in SumPrograms /\ ~Executing) => ReturnsTrue

\* The quotient of two words leaves a remainder below the divisor; the machine
\* dies of a division only when the divisor is zero.
RemainderBelowDivisor ==
  (program \in QuotientPrograms /\ ~Executing)
    => IF program[2].imm = 0 THEN status = "aborted" ELSE ReturnsTrue

\* The comparisons order the words totally.
ComparisonsComplement == (program \in OrderPrograms /\ ~Executing) => ReturnsTrue

\* What memory holds at address x once the word w has been stored at a and the
\* word v at b.
Expected(w, a, v, b, x) ==
  IF x \in b .. b + 3 THEN ByteOf(v, x - b)
  ELSE IF x \in a .. a + 3 THEN ByteOf(w, x - a)
  ELSE 0

\* A load returns, byte for byte, what the last store to each byte left there,
\* whether it came as a word or as a float (save_decimal, save_float and
\* load_decimal).
LastStoreWins ==
  program \in MemoryPrograms /\ ~Executing =>
    /\ status = "halted"
    /\ \A k \in 0 .. 3 :
         ByteOf(accum_register, k) =
           Expected(program[1].imm, program[2].imm, program[4].imm,
                    program[5].imm, program[7].imm + k)

=============================================================================
