----------------------------- MODULE NativeTests -----------------------------
(***************************************************************************)
(* The programs of src/testing/test_list.c and what each is to return.     *)
(*                                                                         *)
(* The text the print test writes stands for "lol\n": four bytes, least    *)
(* significant first.  The float 10.5 is a parameter.                      *)
(***************************************************************************)
EXTENDS SetMachine, SetMacros

CONSTANT TenAndAHalf     \* pattern of the float 10.5

Text == <<3, 2, 3, 1>>

TextWord == LoadWord([k \in 0 .. 3 |-> Text[k + 1]], 0)

simple_loop == <<
  SET(0, 0), SET(1, 1), SET(2, 10), SET(3, 4),
  Registers("I_REG_DUMP", <<0>>),
  Registers("I_ADD", <<0, 0, 1>>),
  NEJMP(3, 0, 2),
  Registers("I_RET", <<0>>) >>

and_or == <<
  SET(1, 0), SET(2, 1),
  Registers("I_OR", <<0, 1, 2>>), Registers("I_REG_DUMP", <<0>>),
  Registers("I_AND", <<0, 1, 2>>), Registers("I_REG_DUMP", <<0>>),
  Registers("I_RET", <<0>>) >>

inc_dec ==
  LET INC  == Registers("I_INC", <<0>>)
      DEC  == Registers("I_DEC", <<0>>)
      DUMP == Registers("I_REG_DUMP", <<0>>)
  IN  <<INC, INC, INC, INC, DUMP, DEC, DEC, DUMP, Registers("I_RET", <<0>>)>>

print == <<
  SET(0, 0), SET(1, TextWord), Registers("I_DSAVE", <<1, 0>>),
  SET(0, 1), SET(1, 0), SET(2, 4),
  PRINT,
  Registers("I_RET", <<1>>) >>

function_call == <<
  SET(0, 44), SET(1, 22), REC,
  Registers("I_PUSH", <<0>>), Registers("I_PUSH", <<1>>),
  CALL(7),
  Registers("I_RET", <<>>),
  Registers("I_POP", <<0>>), Registers("I_POP", <<1>>),
  Registers("I_ADD", <<0, 0, 1>>), Registers("I_REG_DUMP", <<0>>),
  Registers("I_RET", <<0>>) >>

recursive_function_call == <<
  SET(0, 0), REC, Registers("I_PUSH", <<0>>), CALL(5),
  Registers("I_RET", <<0>>),
  Registers("I_POP", <<>>), SET(1, 1), SET(2, 5),
  Registers("I_ADD", <<0, 0, 1>>), Registers("I_REG_DUMP", <<0>>),
  NEJMP(12, 0, 2),
  Registers("I_RET", <<0>>),
  REC, Registers("I_PUSH", <<0>>), CALL(5),
  Registers("I_RET", <<0>>) >>

casting_float_to_int == <<
  FSET(0, TenAndAHalf), FSET(1, TenAndAHalf),
  Registers("I_FADD", <<0, 0, 1>>), Registers("I_CF2I", <<1, 0>>),
  Registers("I_RET", <<1>>) >>

TestUnit(p, r) == [program |-> p, desired_return |-> r]

TESTS_LIST == <<
  TestUnit(simple_loop, 10),
  TestUnit(and_or, 0),
  TestUnit(inc_dec, 2),
  TestUnit(print, 0),
  TestUnit(function_call, 66),
  TestUnit(recursive_function_call, 5),
  TestUnit(casting_float_to_int, 21) >>

Tests == {TESTS_LIST[k] : k \in DOMAIN TESTS_LIST}

-----------------------------------------------------------------------------
(***************************************************************************)
(* What the tests expect of the machine: a word holds their numbers and a  *)
(* byte those of the text, there are the registers they name, a frame for  *)
(* each of five nested calls and, above the unused first word, two words   *)
(* of stack; and twice 10.5 makes 21.                                      *)
(***************************************************************************)
ASSUME NativeTestsAssumption ==
  /\ Radix >= 4
  /\ INT_REG_COUNT >= 4 /\ FLT_REG_COUNT >= 2
  /\ FRAME_COUNT >= 5
  /\ STACK_SIZE >= 3 * WORD_BYTES
  /\ FromFloat("I_CF2I", FloatArith("I_FADD", TenAndAHalf, TenAndAHalf)) = {21}

=============================================================================
