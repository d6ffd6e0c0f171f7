----------------------------- MODULE StringValues -----------------------------
(***************************************************************************)
(* What the header of src/lib/str.h promises of its strings: each is a     *)
(* value of its own, and an operation on one leaves all others alone.      *)
(***************************************************************************)
EXTENDS Integers, Sequences, SequencesExt

CONSTANTS
  Name,       \* strings of the client
  Char        \* characters

VARIABLES
  value,      \* the text of each string
  ended       \* has an assertion ended the program?

vars == <<value, ended>>

Init == value = [s \in Name |-> <<>>] /\ ended = FALSE

Becomes(s, text) == value' = [value EXCEPT ![s] = text] /\ UNCHANGED ended

\* str_create, str_from_cstr, str_move_cstr.
Create(s) ==
  value[s] = <<>> /\ Becomes(s, value'[s]) /\ value'[s] \in Seq(Char)

\* str_dup, str_substr.
Copy(s, t) ==
  \E first \in 1 .. Len(value[t]) + 1, last \in 0 .. Len(value[t]) :
    value[s] = <<>> /\ Becomes(s, SubSeq(value[t], first, last))

\* str_append_chars, str_append_char.
Extend(s) ==
  /\ Becomes(s, value'[s]) /\ value'[s] \in Seq(Char)
  /\ IsPrefix(value[s], value'[s])

\* str_reverse and str_clear.
Turn(s)  == Becomes(s, Reverse(value[s]))
Clear(s) == Becomes(s, <<>>)

End == ended' = TRUE /\ UNCHANGED value

Next ==
  /\ ~ended
  /\ \/ \E s \in Name : Create(s) \/ Extend(s) \/ Turn(s) \/ Clear(s)
     \/ \E s, t \in Name : Copy(s, t)
     \/ End

Spec == Init /\ [][Next]_vars

=============================================================================
