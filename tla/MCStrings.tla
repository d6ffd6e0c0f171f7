------------------------------ MODULE MCStrings ------------------------------
(* Two strings over two characters, and three blocks.                        *)
EXTENDS StringsRefinement

MCText == UNION {[1 .. n -> Char] : n \in 0 .. 2}

\* str.h:58-60, str_append_chars "appends any N of chars to the end of the String
\* s": what was in the string is still its beginning.
AppendsToTheEnd ==
  [][\A s \in Name :
       (\E text \in Text : AppendChars(s, text)) =>
         /\ status' # "undefined"
         /\ \E text \in Text : Bytes(s)' = Bytes(s) \o text]_vars

=============================================================================
