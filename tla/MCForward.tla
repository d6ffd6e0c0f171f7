------------------------------ MODULE MCForward ------------------------------
(***************************************************************************)
(* Programs without a way back but returns: every short program of forward *)
(* jumps and calls, and straight ones that compute, in two ways, something *)
(* that is to come out the same - on every pair of four-bit words, with    *)
(* bytes of one bit.                                                       *)
(***************************************************************************)
EXTENDS MCFloats, WordPrograms

-----------------------------------------------------------------------------
ForwardInstructions ==
  { CALL(2), CALL(3), CALL(4), CALL(UINT_MOD - 1), Ops("I_RET", <<0>>),
    Ops("I_INC", <<0>>), REC, JMP(4), Encode("I_NEJMP", <<0, 0, 1>>, 3) }

ForwardPrograms ==
  {p \in UNION {[1 .. k -> ForwardInstructions] : k \in 1 .. 5} : GoesForward(p)}

-----------------------------------------------------------------------------
\* The memory programs on some words only: bits 0110, 1001, 1110 and 0001.
Samples == {6, 9, 14, 1}

SampledMemory ==
  {StoreStoreLoad(w, a, v, b, c) :
     w \in Samples, v \in Samples,
     a \in WordAddresses, b \in WordAddresses, c \in WordAddresses}

MCPrograms ==
  ForwardPrograms \cup SumPrograms \cup QuotientPrograms \cup OrderPrograms
  \cup SampledMemory

-----------------------------------------------------------------------------
\* A program whose jumps and calls all go forward comes to an end although its
\* returns all go back: execute_program leaves its loop.
ForwardProgramsEnd == GoesForward(program) => <>(~Executing)

=============================================================================
