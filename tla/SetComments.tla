------------------------------ MODULE SetComments ------------------------------
(***************************************************************************)
(* What the comments of src/vm/set.h say of single instructions, where     *)
(* execute_op does something else.  Each property here is one the machine  *)
(* does NOT have.                                                          *)
(***************************************************************************)
EXTENDS SetMachine

NextIs(ops) == Executing /\ Inst.op \in ops /\ Defined(Inst)

\* set.h:39-41, FLOAD "loads data pointed by reg1 to reg0": the address is the
\* value of the register, as for DLOAD.  execute_op takes the register's number.
FloatLoadsThroughRegister ==
  [][NextIs({"I_FLOAD"}) /\ Inst.r1 \in IntReg /\ InStack(iregisters[Inst.r1])
       => fregisters'[Inst.r0] = LoadWord(STACK, iregisters[Inst.r1])]_vars

\* set.h:72-76, "call - uses data from begining of a record to perform a
\* procedure call, creating a new call frame": the base recorded by the record
\* before it is still in the frame the call creates.
CallUsesRecord ==
  [][NextIs({"I_CALL"})
       => frame_memory'[frames].bfp = frame_memory[frames].bfp]_vars

\* set.h:156-158, "EJMP - jump to address literall dval if values in reg0 and
\* reg1 are equal", which is also where the macro EJMP(a,r0,r1) puts its two
\* registers.  execute_op compares reg1 and reg2.
EqualJumpComparesFirstTwo ==
  [][NextIs({"I_EJMP"}) /\ Inst.r0 \in IntReg
       => pc' = IF iregisters[Inst.r0] = iregisters[Inst.r1] THEN Inst.imm
                                                            ELSE pc + 1]_vars

=============================================================================
