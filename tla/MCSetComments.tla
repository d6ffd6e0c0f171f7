---------------------------- MODULE MCSetComments ----------------------------
(* Every short program over one instruction of each kind that comments name. *)
EXTENDS SetComments, MCFloats, SetMacros

Ops(op, args) == Registers(op, args)

CommentedInstructions ==
  { Ops("I_FLOAD", <<0, 1>>), Ops("I_DSAVE", <<0, 1>>), REC, CALL(3),
    Ops("I_GETAC", <<0>>), Ops("I_CI2F", <<0, 0>>), EJMP(5, 1, 2), PRINT,
    Ops("I_PUSH", <<1>>), Ops("I_RET", <<1>>) }

MCPrograms ==
  {<<SET(0, a), SET(1, b), SET(2, 1), x, y, z>> :
     a \in {1, 13}, b \in {0, 2}, x \in CommentedInstructions,
     y \in CommentedInstructions, z \in CommentedInstructions}

=============================================================================
