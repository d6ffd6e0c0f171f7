-------------------------------- MODULE Strings --------------------------------
(***************************************************************************)
(* The string library, src/lib/str.h (src/src/str.h is a copy of it): a    *)
(* String is a pointer to a block of the heap and a length, the bytes have *)
(* no terminator.                                                          *)
(*                                                                         *)
(* The client is one that uses the library as str_lib_test of              *)
(* src/src/cliargs.c does: it gives a value to a string that is cleared,   *)
(* clears those it no longer needs, and leaves the fields to the library.  *)
(***************************************************************************)
EXTENDS Integers, Sequences, FiniteSets

CONSTANTS
  Name,          \* strings of the client
  Char,          \* characters
  Text,          \* C strings that the client passes
  Block,         \* blocks of the heap
  MaxLen,        \* bound: length of the strings
  DoublesOnly    \* does the client append only what is as long as the string?

NUL     == "NUL"
UNKNOWN == "?"       \* a byte of the heap that was never written
NULL    == 0

ASSUME StringsAssumption ==
  /\ Text \subseteq Seq(Char)
  /\ NUL \notin Char /\ UNKNOWN \notin Char
  /\ Block \subseteq Nat \ {NULL}
  /\ MaxLen \in Nat
  /\ DoublesOnly \in BOOLEAN

VARIABLES
  heap,      \* allocated block -> its bytes
  str,       \* string -> the fields of its struct
  status     \* "running", "aborted", "undefined"

vars == <<heap, str, status>>

Zero == [ptr |-> NULL, len |-> 0]

Init ==
  /\ heap = <<>>
  /\ str = [s \in Name |-> Zero]
  /\ status = "running"

-----------------------------------------------------------------------------
str_is_empty(s) == str[s].len = 0 \/ str[s].ptr = NULL

\* The bytes of a string.
Bytes(s) == IF str_is_empty(s) THEN <<>> ELSE SubSeq(heap[str[s].ptr], 1, str[s].len)

Running == status = "running"

\* The heap without a block, and with one.
Without(b) == [c \in DOMAIN heap \ {b} |-> heap[c]]
With(h, b, bytes) == [c \in DOMAIN h \cup {b} |-> IF c = b THEN bytes ELSE h[c]]

\* calloc and the copy; the string gets the block and the length.
Allocate(s, bytes, len) ==
  \E b \in Block \ DOMAIN heap :
    /\ heap' = With(heap, b, bytes)
    /\ str' = [str EXCEPT ![s] = [ptr |-> b, len |-> len]]
    /\ UNCHANGED status

\* An assertion has failed.
Abort == status' = "aborted" /\ UNCHANGED <<heap, str>>

\* str_from_cstr; with a len of 0, FULL_LENGTH, also str_create.
FromCstr(s, text, len) ==
  /\ Running
  /\ str[s] = Zero
  /\ IF len > Len(text) THEN Abort
     ELSE LET bytes == IF len = 0 THEN text ELSE SubSeq(text, 1, len)
          IN  Allocate(s, bytes, Len(bytes))

\* str_move_cstr: the string takes over a block of the client with its terminator.
MoveCstr(s, text) ==
  /\ Running
  /\ str[s] = Zero
  /\ Allocate(s, Append(text, NUL), Len(text))

Dup(s, t) ==
  /\ Running
  /\ str[s] = Zero
  /\ ~str_is_empty(t)
  /\ Allocate(s, Bytes(t), str[t].len)

\* str_substr: the piece must be shorter than the string; an empty one has a
\* block all the same, of no bytes.
Substr(s, t, index, len) ==
  /\ Running
  /\ str[s] = Zero
  /\ IF index < str[t].len /\ len < str[t].len /\ index + len <= str[t].len
     THEN Allocate(s, SubSeq(Bytes(t), index + 1, index + len), len)
     ELSE Abort

-----------------------------------------------------------------------------
\* Mistake: the block has moved, and the string keeps the pointer to the old one.
PointerKept(s, b) == str[s].ptr

PointerMoved(s, b) == b

\* reallocarray: the block stays or moves.
Reallocate(s, bytes) ==
  \E b \in (Block \ DOMAIN heap) \cup {str[s].ptr} :
    /\ heap' = With(Without(str[s].ptr), b, bytes)
    /\ str' = [str EXCEPT ![s] = [ptr |-> PointerMoved(s, b), len |-> Len(bytes)]]
    /\ UNCHANGED status

\* The bytes after str_append_chars: the characters are written from the index
\* diff on, their number, and not from the old length on.
Appended(s, chars) ==
  LET diff == Len(chars)
  IN  [k \in 1 .. str[s].len + diff |->
         IF k \in diff + 1 .. 2 * diff THEN chars[k - diff]
         ELSE IF k <= str[s].len THEN Bytes(s)[k] ELSE UNKNOWN]

\* An empty string becomes a new one, and the block that it may have is left.
AppendChars(s, chars) ==
  /\ Running
  /\ chars # <<>>
  /\ str[s].len + Len(chars) <= MaxLen
  /\ DoublesOnly => str[s].len \in {0, Len(chars)}
  /\ IF str_is_empty(s) THEN Allocate(s, chars, Len(chars))
     ELSE IF Len(chars) > str[s].len THEN status' = "undefined" /\ UNCHANGED <<heap, str>>
     ELSE Reallocate(s, Appended(s, chars))

AppendChar(s, ch) ==
  /\ Running
  /\ str[s].len < MaxLen
  /\ IF str_is_empty(s) THEN Allocate(s, <<ch>>, 1)
                        ELSE Reallocate(s, Append(Bytes(s), ch))

\* Mistake: the bytes are reversed without the copy of them.
ReversedInPlace(bytes) ==
  [k \in DOMAIN bytes |->
     bytes[IF k > Len(bytes) \div 2 THEN k ELSE Len(bytes) + 1 - k]]

Reversed(bytes) == [k \in DOMAIN bytes |-> bytes[Len(bytes) + 1 - k]]

\* str_reverse; what follows the bytes in the block stays.
ReverseString(s) ==
  /\ Running
  /\ ~str_is_empty(s)
  /\ LET block == heap[str[s].ptr]
     IN  heap' = [heap EXCEPT ![str[s].ptr] =
                    Reversed(Bytes(s)) \o SubSeq(block, str[s].len + 1, Len(block))]
  /\ UNCHANGED <<str, status>>

\* Mistake: the pointer is reset before it is freed.
FreedNull(s) == Without(NULL)

Freed(s) == Without(str[s].ptr)

\* str_clear, str_free in the copy.
Clear(s) ==
  /\ Running
  /\ heap' = Freed(s)
  /\ str' = [str EXCEPT ![s] = Zero]
  /\ UNCHANGED status

\* calloc or reallocarray returns NULL.
OutOfMemory == Running /\ Abort

Next ==
  \/ \E s \in Name, text \in Text :
       \/ \E len \in 0 .. Len(text) + 1 : FromCstr(s, text, len)
       \/ MoveCstr(s, text) \/ AppendChars(s, text)
  \/ \E s, t \in Name :
       \/ Dup(s, t)
       \/ \E index \in 0 .. str[t].len, len \in 0 .. str[t].len : Substr(s, t, index, len)
  \/ \E s \in Name : (\E ch \in Char : AppendChar(s, ch)) \/ ReverseString(s) \/ Clear(s)
  \/ OutOfMemory
  \/ ~Running /\ UNCHANGED vars

Spec == Init /\ [][Next]_vars

-----------------------------------------------------------------------------
(***************************************************************************)
(* The searches, which leave the strings alone.  Their assertions demand a *)
(* pattern that is not empty and shorter than the source.                  *)
(***************************************************************************)
str_are_equal(l, r) == Len(l) = Len(r) /\ \A k \in DOMAIN l : l[k] = r[k]

MatchesAt(src, pat, offset) == \A k \in DOMAIN pat : src[k + offset] = pat[k]

str_begins_with(src, pat) == MatchesAt(src, pat, 0)

\* The loop stops before the first character.
str_ends_with(src, pat) ==
  \A k \in 2 .. Len(pat) : src[k + Len(src) - Len(pat)] = pat[k]

\* Mistake: the last index is taken to be exclusive.
IndicesExclusive(src, pat) == 0 .. Len(src) - Len(pat) - 1

Indices(src, pat) == 0 .. Len(src) - Len(pat)

\* The first index, or -1; a pattern of one character makes the index a truth
\* value.
str_has_pattern(src, pat) ==
  LET found == {n \in Indices(src, pat) : MatchesAt(src, pat, n)}
  IN  IF found = {} THEN -1
      ELSE IF Len(pat) = 1 THEN 1
      ELSE CHOOSE n \in found : \A m \in found : n <= m

-----------------------------------------------------------------------------
(***************************************************************************)
(* Correctness.                                                            *)
(***************************************************************************)

\* Every string that is not cleared has a block of its own, with room for its
\* bytes: none is freed twice, used after it is freed, or shared (str_append_char,
\* str_dup, str_clear).
EachOwnsItsBlock ==
  /\ \A s \in Name :
       str[s].ptr # NULL =>
         str[s].ptr \in DOMAIN heap /\ str[s].len <= Len(heap[str[s].ptr])
  /\ \A s, t \in Name : s # t /\ str[s].ptr = str[t].ptr => str[s].ptr = NULL

\* No byte of a string is lost to a block that nothing points to.  What does leak
\* are blocks without bytes, of empty strings that were appended to
\* (str_append_chars, str_append_char).
OnlyEmptyBlocksLeak ==
  \A b \in DOMAIN heap :
    (\A s \in Name : str[s].ptr # b) => heap[b] \in {<<>>, <<NUL>>}

\* Where the pattern is in the source, by str_are_equal.
Places(src, pat) ==
  {n \in 0 .. Len(src) - Len(pat) :
     str_are_equal(SubSeq(src, n + 1, n + Len(pat)), pat)}

\* The searches agree with the comparison of strings: str_has_pattern finds a pattern
\* that is there, at its first place if it has several characters, with 1 for an index
\* if it has one; str_begins_with tells whether it is at 0; and str_ends_with, whether
\* the source ends in the pattern but for the pattern's first character.
SearchesAgree ==
  \A s, t \in Name :
    LET src == Bytes(s)
        pat == Bytes(t)
        at  == str_has_pattern(src, pat)
    IN  Len(src) > Len(pat) /\ Len(pat) > 0 =>
          /\ str_begins_with(src, pat) <=> 0 \in Places(src, pat)
          /\ at = -1 <=> Places(src, pat) = {}
          /\ at # -1 =>
               IF Len(pat) = 1 THEN at = 1
               ELSE at \in Places(src, pat) /\ \A n \in Places(src, pat) : at <= n
          /\ str_ends_with(src, pat)
               <=> str_are_equal(SubSeq(src, Len(src) - Len(pat) + 2, Len(src)), Tail(pat))

=============================================================================
