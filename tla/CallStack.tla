------------------------------ MODULE CallStack ------------------------------
(***************************************************************************)
(* What the virtual machine promises about procedure calls (README, "frame *)
(* memory" in src/vm/set.h): calls nest, and a return resumes the program  *)
(* at the instruction that follows the call it answers.                    *)
(*                                                                         *)
(* Nothing here says how a return address is stored; SetMachine stores it  *)
(* shifted by one in a frame of a fixed-size array.                        *)
(***************************************************************************)
EXTENDS Naturals, Sequences

CONSTANTS
  Addr,       \* instruction addresses
  MaxDepth    \* calls that may be open at once

VARIABLES
  at,         \* address of the next instruction
  returns,    \* return addresses of the open calls, innermost last
  live        \* is the machine still running?

callVars == <<at, returns, live>>

Init ==
  /\ at = 0
  /\ returns = <<>>
  /\ live = TRUE

\* An instruction other than a call or a return: goes anywhere, opens and
\* closes nothing.
Proceed ==
  /\ live
  /\ at' \in Addr
  /\ UNCHANGED <<returns, live>>

Invoke ==
  /\ live
  /\ Len(returns) < MaxDepth
  /\ returns' = Append(returns, at + 1)
  /\ at' \in Addr
  /\ UNCHANGED live

Resume ==
  /\ live
  /\ returns # <<>>
  /\ at' = returns[Len(returns)]
  /\ returns' = SubSeq(returns, 1, Len(returns) - 1)
  /\ UNCHANGED live

\* The program ends, or the process dies; what was open stays open.
Stop ==
  /\ live
  /\ live' = FALSE
  /\ at' \in Addr
  /\ UNCHANGED returns

Next == Proceed \/ Invoke \/ Resume \/ Stop

Spec == Init /\ [][Next]_callVars

=============================================================================
