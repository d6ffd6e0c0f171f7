------------------------------ MODULE SetMacros ------------------------------
(***************************************************************************)
(* The instruction-building macros of src/vm/set.h, with which the native  *)
(* tests are written and through which the assembler encodes.              *)
(*                                                                         *)
(* An initializer { __VA_ARGS__ } fills argument_reg from the left and     *)
(* leaves the rest, and the storage, zero.                                 *)
(***************************************************************************)
EXTENDS Integers, Sequences

Encode(operation, args, storage) ==
  LET Reg(k) == IF k <= Len(args) THEN args[k] ELSE 0
  IN  [op |-> operation, r0 |-> Reg(1), r1 |-> Reg(2), r2 |-> Reg(3),
       imm |-> storage]

\* PUSH, POP, INC, ADD, CMPE, FSUB, CI2F, RET, ...: the opcode of their name.
Registers(operation, args) == Encode(operation, args, 0)

SET(r, s)        == Encode("I_SET",  <<r>>, s)
FSET(r, s)       == Encode("I_FSET", <<r>>, s)
REC              == Encode("I_REC",  <<>>, 0)
CALL(addr)       == Encode("I_CALL", <<>>, addr)
PRINT            == Encode("I_PRINT", <<>>, 0)
HALT             == Encode("I_HALT", <<>>, 0)

\* Four macros whose operation is not the one of their name.
GETAC(r)           == Encode("I_CALL",  <<r>>, 0)
RJMP(r)            == Encode("I_JMP",   <<r>>, 0)
ERJMP(r, ra, rb)   == Encode("I_EJMP",  <<r, ra, rb>>, 0)
NERJMP(r, ra, rb)  == Encode("I_NEJMP", <<r, ra, rb>>, 0)

JMP(s)           == Encode("I_JMP",   <<>>, s)
EJMP(a, ra, rb)  == Encode("I_EJMP",  <<ra, rb>>, a)
NEJMP(a, ra, rb) == Encode("I_NEJMP", <<ra, rb>>, a)

=============================================================================
