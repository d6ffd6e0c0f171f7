----------------------------- MODULE MCSetMachine -----------------------------
(***************************************************************************)
(* The machine on every short program over three small instruction sets:   *)
(* one of calls and jumps, one of stack and memory instructions, and every *)
(* opcode there is.  Words have four bits, a byte one.                     *)
(***************************************************************************)
EXTENDS MCFloats, SetMachineRefinement, SetMacros

\* The nonempty sequences over S of at most n elements.
SequencesUpTo(n, S) == UNION {[1 .. k -> S] : k \in 1 .. n}

Ops(op, args) == Registers(op, args)

\* Calls, records, returns and jumps, with a little data to jump on.
ControlInstructions ==
  { REC, CALL(0), CALL(2), CALL(3), CALL(UINT_MOD - 1), Ops("I_RET", <<0>>),
    Ops("I_PUSH", <<0>>), Ops("I_POP", <<1>>), Ops("I_INC", <<0>>),
    Encode("I_NEJMP", <<0, 0, 1>>, 1), Ops("I_RJMP", <<0>>) }

ControlPrograms == SequencesUpTo(4, ControlInstructions)

\* The stack as a stack and as memory, with addresses that are and are not
\* those of stacked words.
StackInstructions ==
  { Ops("I_PUSH", <<0>>), Ops("I_PUSH", <<1>>), Ops("I_POP", <<0>>),
    Ops("I_POP", <<1>>), Ops("I_DSAVE", <<0, 1>>), Ops("I_DLOAD", <<0, 1>>),
    Ops("I_FSAVE", <<0, 1>>), SET(0, 11), SET(1, 6), SET(1, 4) }

StackPrograms == {<<SET(0, 13), SET(1, 7)>> \o p : p \in SequencesUpTo(4, StackInstructions)}

\* One of each opcode, some with registers that do not exist, in pairs.
EachOpcode ==
  {Encode(op, <<0, 1, 2>>, 3) : op \in Opcode}
  \cup {Encode(op, <<2, 0, 1>>, 6) : op \in {"I_PRINT", "I_SET", "I_CMPE", "I_EJMP",
                                             "I_DLOAD", "I_CF2U", "I_RET"}}
  \cup {Ops("I_INC", <<3>>), Ops("I_OR", <<0, 1, 9>>), Ops("I_FSET", <<-1>>)}

OpcodePrograms ==
  {<<SET(0, a), SET(1, b), Encode("I_FSET", <<1>>, b), x, y>> :
     a \in {0, 5}, b \in {0, 4, 14}, x \in EachOpcode, y \in EachOpcode}

MCPrograms == ControlPrograms \cup StackPrograms \cup OpcodePrograms

=============================================================================
