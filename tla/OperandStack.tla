----------------------------- MODULE OperandStack -----------------------------
(***************************************************************************)
(* What the virtual machine promises about its data stack (the comments of *)
(* I_PUSH and I_POP in src/vm/set.h): push puts a register on top, pop     *)
(* takes the top off into a register, nothing else moves the top.          *)
(*                                                                         *)
(* Two features of the machine are part of the promise.  The stack is also *)
(* memory, so a save instruction may rewrite stacked words in place - at   *)
(* most two neighbours, as a word may straddle them.  And one pop may be   *)
(* owed: popping the empty stack once hands out an unspecified word, and   *)
(* the next push makes up for it.                                          *)
(***************************************************************************)
EXTENDS Naturals, Sequences

CONSTANTS
  Word,
  Register

VARIABLES
  operands,   \* the stacked words, top last
  owed,       \* has the empty stack been popped?
  register,   \* the word registers
  live

operandVars == <<operands, owed, register, live>>

Init ==
  /\ operands = <<>>
  /\ owed = FALSE
  /\ register \in [Register -> Word]
  /\ live = TRUE

Push ==
  /\ live
  /\ ~owed
  /\ \E r \in Register : operands' = Append(operands, register[r])
  /\ UNCHANGED <<owed, register, live>>

Pop ==
  /\ live
  /\ operands # <<>>
  /\ \E r \in Register :
       register' = [register EXCEPT ![r] = operands[Len(operands)]]
  /\ operands' = SubSeq(operands, 1, Len(operands) - 1)
  /\ UNCHANGED <<owed, live>>

Owe ==
  /\ live
  /\ operands = <<>> /\ ~owed
  /\ \E r \in Register, w \in Word : register' = [register EXCEPT ![r] = w]
  /\ owed' = TRUE
  /\ UNCHANGED <<operands, live>>

Repay ==
  /\ live
  /\ owed
  /\ owed' = FALSE
  /\ UNCHANGED <<operands, register, live>>

\* Any other instruction changes at most one register, or stores a word.
Compute ==
  /\ live
  /\ \E r \in Register, w \in Word : register' = [register EXCEPT ![r] = w]
  /\ UNCHANGED <<operands, owed, live>>

Poke ==
  /\ live
  /\ operands' \in [1 .. Len(operands) -> Word]
  /\ \E k \in 1 .. Len(operands) :
       \A j \in 1 .. Len(operands) : j \notin {k, k + 1} => operands'[j] = operands[j]
  /\ UNCHANGED <<owed, register, live>>

Stop ==
  /\ live
  /\ live' = FALSE
  /\ UNCHANGED <<operands, owed, register>>

Next == Push \/ Pop \/ Owe \/ Repay \/ Compute \/ Poke \/ Stop

Spec == Init /\ [][Next]_operandVars

=============================================================================
