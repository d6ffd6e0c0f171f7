-------------------------------- MODULE Encoding --------------------------------
(***************************************************************************)
(* The instruction set as the assembler knows it: keywords, opcodes,       *)
(* operand counts, and assemble, which builds an instruction with the      *)
(* macros of set.h (src/assembler/basic_assembler.c).  Also what the       *)
(* disassembler shows of an instruction.                                   *)
(***************************************************************************)
EXTENDS SetMacros

\* The table of keywords.  One of them ends with a space, and no word does.
KEYWORDS ==
  << "halt", "entry", "dload", "fload", "dsave", "fsave", "set", "fset", "push",
     "pop", "rec", "call", "getac", "inc", "dec", "add", "sub", "div", "mul",
     "fadd ", "fsub", "fdiv", "fmul", "and", "or", "cu2i", "ci2u", "cf2i",
     "ci2f", "cu2f", "cf2u", "cmpe", "cmpeg", "cmpel", "cmpg", "cmpl", "fcmpe",
     "fcmpeg", "fcmpel", "fcmpg", "fcmpl", "jmp", "ejmp", "nejmp", "rjmp",
     "erjmp", "nerjmp", "print", "regdump", "ret", "nop" >>

\* The opcodes, in the order of the enumeration of set.h.
Inst ==
  << "I_HALT", "I_ENTRY", "I_DLOAD", "I_FLOAD", "I_DSAVE", "I_FSAVE", "I_SET",
     "I_FSET", "I_PUSH", "I_POP", "I_REC", "I_CALL", "I_GETAC", "I_INC",
     "I_DEC", "I_ADD", "I_SUB", "I_DIV", "I_MUL", "I_FADD", "I_FSUB", "I_FDIV",
     "I_FMUL", "I_AND", "I_OR", "I_CU2I", "I_CI2U", "I_CF2I", "I_CI2F",
     "I_CU2F", "I_CF2U", "I_CMPE", "I_CMPEG", "I_CMPEL", "I_CMPG", "I_CMPL",
     "I_FCMPE", "I_FCMPEG", "I_FCMPEL", "I_FCMPG", "I_FCMPL", "I_JMP",
     "I_EJMP", "I_NEJMP", "I_RJMP", "I_ERJMP", "I_NERJMP", "I_PRINT",
     "I_REG_DUMP", "I_RET", "I_NOP" >>

Keyword == {KEYWORDS[k] : k \in DOMAIN KEYWORDS}

\* Mistake: an opcode too many at the start of the enumeration.
KeywordShifted(word) == Inst[1 + CHOOSE k \in DOMAIN KEYWORDS : KEYWORDS[k] = word]

\* is_keyword finds the index of a keyword, and the index is taken for an Inst.
is_keyword(word) == Inst[CHOOSE k \in DOMAIN KEYWORDS : KEYWORDS[k] = word]

OneRegister    == {"I_PUSH", "I_POP", "I_INC", "I_DEC", "I_REG_DUMP", "I_RET"}
Casts          == {"I_CU2I", "I_CI2U", "I_CF2I", "I_CI2F", "I_CU2F", "I_CF2U"}
MemoryAccesses == {"I_DLOAD", "I_FLOAD", "I_DSAVE", "I_FSAVE"}
ThreeRegisters ==
  {"I_ADD", "I_SUB", "I_DIV", "I_MUL", "I_FADD", "I_FSUB", "I_FDIV", "I_FMUL",
   "I_AND", "I_OR", "I_CMPG", "I_CMPL", "I_CMPEG", "I_CMPEL", "I_CMPE",
   "I_FCMPG", "I_FCMPL", "I_FCMPEG", "I_FCMPEL", "I_FCMPE"}

\* The operands that a line must have.  Instructions without a case have none:
\* the accesses to memory, the jump through a register, print and nop.
get_instuction_count(i) ==
  CASE i \in OneRegister \cup {"I_JMP", "I_CALL", "I_GETAC"} -> 1
    [] i \in Casts \cup {"I_SET", "I_FSET"}                  -> 2
    [] i \in ThreeRegisters \cup {"I_EJMP", "I_NEJMP", "I_ERJMP", "I_NERJMP"} -> 3
    [] OTHER -> 0

\* The instructions of which a value in the line is a float.
is_float_instr(i) ==
  i \in {"I_FADD", "I_FSUB", "I_FMUL", "I_FDIV", "I_FSET", "I_FLOAD", "I_FSAVE"}

\* The instruction of a line.  I_ENTRY and I_NOP end in a halt; four of the
\* macros make another instruction than their name says (module SetMacros).
assemble(i, arg, fval, dval) ==
  CASE i = "I_SET"         -> SET(arg[1], dval)
    [] i = "I_FSET"        -> FSET(arg[1], fval)
    [] i = "I_REC"         -> REC
    [] i = "I_CALL"        -> CALL(dval)
    [] i = "I_GETAC"       -> GETAC(arg[1])
    [] i \in MemoryAccesses -> Registers(i, <<arg[1], dval>>)
    [] i \in OneRegister    -> Registers(i, <<arg[1]>>)
    [] i \in Casts          -> Registers(i, <<arg[1], arg[2]>>)
    [] i \in ThreeRegisters -> Registers(i, <<arg[1], arg[2], arg[3]>>)
    [] i = "I_RJMP"        -> RJMP(dval)
    [] i = "I_ERJMP"       -> ERJMP(arg[1], arg[2], arg[3])
    [] i = "I_NERJMP"      -> NERJMP(arg[1], arg[2], arg[3])
    [] i = "I_JMP"         -> JMP(dval)
    [] i = "I_EJMP"        -> EJMP(dval, arg[2], arg[3])
    [] i = "I_NEJMP"       -> NEJMP(dval, arg[2], arg[3])
    [] i = "I_PRINT"       -> PRINT
    [] i \in {"I_HALT", "I_ENTRY", "I_NOP"} -> HALT

-----------------------------------------------------------------------------
\* What print_instruction_asm shows: the name, some of the registers from the
\* first on, and the storage for some.
ShownRegisters(op) ==
  CASE op \in OneRegister \cup {"I_GETAC", "I_SET", "I_FSET"}         -> 1
    [] op \in Casts \cup MemoryAccesses \cup {"I_EJMP", "I_NEJMP"}    -> 2
    [] op \in ThreeRegisters                                           -> 3
    [] OTHER                                                           -> 0

\* Mistake: the address of a conditional jump is left out.
ShowsAddressOfJump == {"I_CALL", "I_SET", "I_FSET", "I_JMP"}

ShowsStorage == {"I_CALL", "I_SET", "I_FSET", "I_JMP", "I_EJMP", "I_NEJMP"}

\* It does not know the jumps through a register.
NotShown == {"I_RJMP", "I_ERJMP", "I_NERJMP"}

Shown(inst) ==
  [op   |-> IF inst.op \in NotShown THEN "UNSUPPORTED" ELSE inst.op,
   regs |-> [k \in 1 .. ShownRegisters(inst.op) |-> <<inst.r0, inst.r1, inst.r2>>[k]],
   imm  |-> IF inst.op \in ShowsStorage THEN inst.imm ELSE 0]

=============================================================================
