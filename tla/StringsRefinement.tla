-------------------------- MODULE StringsRefinement --------------------------
(***************************************************************************)
(* What the blocks of the string library stand for: the strings are values *)
(* of their own, as the header of str.h has it.                            *)
(***************************************************************************)
EXTENDS Strings

StringTexts == [s \in Name |-> Bytes(s)]

Values == INSTANCE StringValues WITH value <- StringTexts, ended <- ~Running

\* Every operation of the library changes one string, to what it promises, and
\* leaves the text of all others alone, wherever the blocks of the heap move - for
\* a client that appends no characters but as many as the string has, or one.
Implements == Values!Spec

=============================================================================
