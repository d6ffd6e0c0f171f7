------------------------- MODULE SetMachineRefinement -------------------------
(***************************************************************************)
(* What the frames and the stack of the machine stand for: the machine     *)
(* implements CallStack and OperandStack.                                  *)
(***************************************************************************)
EXTENDS SetMachine

\* The frames in use, as the addresses their calls return to.
ReturnAddresses == [k \in 1 .. frames |-> frame_memory[k - 1].rip - 1]

CallPromise ==
  INSTANCE CallStack WITH
    Addr     <- Size,
    MaxDepth <- FRAME_COUNT,
    at       <- pc,
    returns  <- ReturnAddresses,
    live     <- status = "running"

\* Every return resumes the program right after the call it answers, whatever
\* calls, records, returns and jumps came between (call, record and the case
\* I_RET of set.c).
ImplementsCallStack == CallPromise!Spec

\* The words between the bottom of the stack and its top.  The first one is at
\* address WORD_BYTES; a wrapped-around top leaves none.
StackedWords ==
  LET depth == IF InStack(stack_top) THEN stack_top \div WORD_BYTES ELSE 0
  IN  [k \in 1 .. depth |-> LoadWord(STACK, WORD_BYTES * k)]

OperandPromise ==
  INSTANCE OperandStack WITH
    Register <- IntReg,
    operands <- StackedWords,
    owed     <- stack_top = SIZE_MOD - WORD_BYTES,
    register <- iregisters,
    live     <- status = "running"

\* A pop takes out the word of the last push not yet popped, save instructions
\* into the stack aside; and only push and pop move the top (push_decimal,
\* pop_decimal and save_decimal of set.c).
ImplementsOperandStack == OperandPromise!Spec

=============================================================================
