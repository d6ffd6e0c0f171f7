----------------------------- MODULE StringsProofs -----------------------------
(***************************************************************************)
(* Proofs about the string library, on any heap and for any number of      *)
(* strings of any length: each string that is not cleared has a block of   *)
(* its own, no text is leaked, the searches agree, and the strings are     *)
(* values.                                                                 *)
(***************************************************************************)
EXTENDS StringsRefinement, FiniteSetTheorems, SequenceTheorems, TLAPS

HeapByte == Char \cup {NUL, UNKNOWN}

\* The heap is a set of blocks with bytes, a struct without a block has length
\* zero, and the blocks of the structs are there and distinct.
IInv ==
  /\ DOMAIN heap \subseteq Block
  /\ \A b \in DOMAIN heap : heap[b] \in Seq(HeapByte)
  /\ str \in [Name -> [ptr : Block \cup {NULL}, len : Nat]]
  /\ \A s \in Name : str[s].ptr = NULL => str[s].len = 0
  /\ EachOwnsItsBlock

\* A string that is not empty has as many bytes as its length says.
LEMMA BytesType ==
  ASSUME IInv, NEW s \in Name, str[s].len > 0
  PROVE  /\ ~str_is_empty(s)
         /\ Bytes(s) \in Seq(HeapByte)
         /\ Len(Bytes(s)) = str[s].len
<1>1. str[s].len \in Nat /\ str[s].ptr # NULL
  BY DEF IInv
<1>2. ~str_is_empty(s)
  BY <1>1 DEF str_is_empty
<1>3. /\ str[s].ptr \in DOMAIN heap
      /\ heap[str[s].ptr] \in Seq(HeapByte)
      /\ str[s].len <= Len(heap[str[s].ptr])
  BY <1>1 DEF IInv, EachOwnsItsBlock
<1> DEFINE block == heap[str[s].ptr]
           n     == str[s].len
<1>4. /\ SubSeq(block, 1, n) \in Seq(HeapByte)
      /\ Len(SubSeq(block, 1, n)) = IF 1 <= n THEN n - 1 + 1 ELSE 0
  <2> HIDE DEF block, n
  <2>1. /\ block \in Seq(HeapByte) /\ n \in 0 .. Len(block) /\ 1 \in 1 .. Len(block) + 1
    <3>1. block \in Seq(HeapByte) /\ n \in Nat /\ n <= Len(block)
      BY <1>1, <1>3 DEF block, n
    <3> QED BY <3>1
  <2> QED BY <2>1, SubSeqProperties
<1> QED BY <1>1, <1>2, <1>4 DEF Bytes

\* A new block, for a string that has none or whose block has no bytes.
LEMMA AllocateInv ==
  ASSUME IInv, NEW s \in Name, NEW bytes \in Seq(HeapByte), NEW len \in Nat,
         len <= Len(bytes), Allocate(s, bytes, len)
  PROVE  IInv'
<1>1. PICK b \in Block \ DOMAIN heap :
        /\ heap' = With(heap, b, bytes)
        /\ str' = [str EXCEPT ![s] = [ptr |-> b, len |-> len]]
  BY DEF Allocate
<1>2. b # NULL
  BY StringsAssumption
<1>3. /\ DOMAIN heap' = DOMAIN heap \cup {b}
      /\ heap'[b] = bytes
      /\ \A c \in DOMAIN heap : heap'[c] = heap[c]
  BY <1>1 DEF With
<1>4. /\ str'[s] = [ptr |-> b, len |-> len]
      /\ \A t \in Name : t # s => str'[t] = str[t]
      /\ str' \in [Name -> [ptr : Block \cup {NULL}, len : Nat]]
  BY <1>1 DEF IInv
<1>5. EachOwnsItsBlock'
  BY <1>2, <1>3, <1>4 DEF IInv, EachOwnsItsBlock
<1> QED BY <1>2, <1>3, <1>4, <1>5 DEF IInv

\* The block of a string stays or moves.
LEMMA ReallocateInv ==
  ASSUME IInv, NEW s \in Name, NEW bytes \in Seq(HeapByte), ~str_is_empty(s),
         Reallocate(s, bytes)
  PROVE  IInv'
<1> DEFINE old == str[s].ptr
<1>1. old # NULL /\ old \in DOMAIN heap
  BY DEF IInv, EachOwnsItsBlock, str_is_empty
<1>2. PICK b \in (Block \ DOMAIN heap) \cup {old} :
        /\ heap' = With(Without(old), b, bytes)
        /\ str' = [str EXCEPT ![s] = [ptr |-> b, len |-> Len(bytes)]]
  BY DEF Reallocate, PointerMoved
<1>3. b \in Block /\ b # NULL
  BY <1>1, StringsAssumption DEF IInv
<1>4. /\ DOMAIN heap' = (DOMAIN heap \ {old}) \cup {b}
      /\ heap'[b] = bytes
      /\ \A c \in DOMAIN heap : c # old => heap'[c] = heap[c]
  BY <1>1, <1>2 DEF With, Without
<1>5. Len(bytes) \in Nat
  OBVIOUS
<1>6. /\ str'[s] = [ptr |-> b, len |-> Len(bytes)]
      /\ \A t \in Name : t # s => str'[t] = str[t]
      /\ str' \in [Name -> [ptr : Block \cup {NULL}, len : Nat]]
  BY <1>2, <1>3, <1>5 DEF IInv
<1>7. \A t \in Name : t # s => str[t].ptr # old
  BY <1>1 DEF IInv, EachOwnsItsBlock
<1>8. EachOwnsItsBlock'
  <2>1. ASSUME NEW t \in Name, str'[t].ptr # NULL
        PROVE  str'[t].ptr \in DOMAIN heap' /\ str'[t].len <= Len(heap'[str'[t].ptr])
    <3>1. CASE t = s
      BY <1>4, <1>5, <1>6, <3>1
    <3>2. CASE t # s
      <4>1. str'[t] = str[t] /\ str[t].ptr # old
        BY <1>6, <1>7, <3>2
      <4>2. str[t].ptr \in DOMAIN heap /\ str[t].len <= Len(heap[str[t].ptr])
        BY <2>1, <4>1 DEF IInv, EachOwnsItsBlock
      <4> QED BY <1>4, <4>1, <4>2
    <3> QED BY <3>1, <3>2
  <2>2. ASSUME NEW t \in Name, NEW u \in Name, t # u, str'[t].ptr = str'[u].ptr
        PROVE  str'[t].ptr = NULL
    <3>1. ASSUME NEW x \in Name, x # s, str'[x].ptr = b
          PROVE  FALSE
      <4>1. str[x].ptr = b /\ str[x].ptr # old
        BY <1>6, <1>7, <3>1
      <4>2. b \in DOMAIN heap
        BY <1>3, <4>1 DEF IInv, EachOwnsItsBlock
      <4> QED BY <4>1, <4>2
    <3>2. str'[s].ptr = b
      BY <1>6
    <3>3. t # s /\ u # s
      BY <2>2, <3>1, <3>2
    <3> QED BY <1>6, <2>2, <3>3 DEF IInv, EachOwnsItsBlock
  <2> QED BY <2>1, <2>2 DEF EachOwnsItsBlock
<1>9. (\A c \in DOMAIN heap : heap[c] \in Seq(HeapByte))'
  BY <1>1, <1>4 DEF IInv
<1> QED BY <1>3, <1>4, <1>6, <1>8, <1>9 DEF IInv

-----------------------------------------------------------------------------
THEOREM InitIInv == Init => IInv
  BY DEF Init, IInv, EachOwnsItsBlock, Zero, NULL

\* The pieces of what the client passes are bytes.
LEMMA TextBytes ==
  ASSUME NEW text \in Text
  PROVE  /\ text \in Seq(HeapByte) /\ Len(text) \in Nat
         /\ \A n \in 1 .. Len(text) : /\ SubSeq(text, 1, n) \in Seq(HeapByte)
                                      /\ Len(SubSeq(text, 1, n)) \in Nat
<1>1. text \in Seq(HeapByte)
  <2>1. text \in Seq(Char)
    BY StringsAssumption
  <2> QED BY <2>1 DEF HeapByte
<1>2. \A n \in 1 .. Len(text) : SubSeq(text, 1, n) \in Seq(HeapByte)
  BY <1>1, SubSeqProperties
<1> QED BY <1>1, <1>2

LEMMA FromCstrInv ==
  ASSUME IInv, NEW s \in Name, NEW text \in Text, NEW len \in Nat,
         FromCstr(s, text, len)
  PROVE  IInv'
<1>1. CASE len > Len(text)
  BY <1>1 DEF FromCstr, Abort, IInv, EachOwnsItsBlock
<1>2. CASE ~(len > Len(text))
  <2> DEFINE bytes == IF len = 0 THEN text ELSE SubSeq(text, 1, len)
  <2>1. bytes \in Seq(HeapByte) /\ Len(bytes) \in Nat
    BY <1>2, TextBytes
  <2>2. Allocate(s, bytes, Len(bytes))
    BY <1>2 DEF FromCstr
  <2> HIDE DEF bytes
  <2> QED BY <2>1, <2>2, AllocateInv
<1> QED BY <1>1, <1>2

LEMMA MoveCstrInv ==
  ASSUME IInv, NEW s \in Name, NEW text \in Text, MoveCstr(s, text)
  PROVE  IInv'
<1>1. NUL \in HeapByte
  BY DEF HeapByte
<1>2. Append(text, NUL) \in Seq(HeapByte) /\ Len(text) <= Len(Append(text, NUL))
  BY <1>1, TextBytes
<1> QED BY <1>2, TextBytes, AllocateInv DEF MoveCstr

LEMMA DupInv ==
  ASSUME IInv, NEW s \in Name, NEW t \in Name, Dup(s, t)
  PROVE  IInv'
<1>1. str[t].len \in Nat /\ str[t].len > 0
  BY DEF Dup, str_is_empty, IInv
<1> QED BY <1>1, BytesType, AllocateInv DEF Dup

LEMMA SubstrInv ==
  ASSUME IInv, NEW s \in Name, NEW t \in Name, NEW index \in Nat, NEW len \in Nat,
         Substr(s, t, index, len)
  PROVE  IInv'
<1> DEFINE inside == /\ index < str[t].len /\ len < str[t].len
                     /\ index + len <= str[t].len
<1>1. CASE inside
  <2>1. str[t].len \in Nat /\ str[t].len > 0
    BY <1>1 DEF IInv
  <2> DEFINE all   == Bytes(t)
             piece == SubSeq(all, index + 1, index + len)
  <2>2. all \in Seq(HeapByte) /\ Len(all) = str[t].len
    BY <2>1, BytesType
  <2>3. Allocate(s, piece, len)
    BY <1>1 DEF Substr
  <2>4. index + 1 \in 1 .. Len(all) + 1 /\ index + len \in 0 .. Len(all)
    BY <1>1, <2>1, <2>2
  <2> HIDE DEF all
  <2>5. /\ piece \in Seq(HeapByte)
        /\ Len(piece) = IF index + 1 <= index + len THEN index + len - (index + 1) + 1 ELSE 0
    BY <2>2, <2>4, SubSeqProperties
  <2>6. len <= Len(piece)
    BY <2>5
  <2> HIDE DEF piece
  <2> QED BY <2>3, <2>5, <2>6, AllocateInv
<1>2. CASE ~inside
  BY <1>2 DEF Substr, Abort, IInv, EachOwnsItsBlock
<1> QED BY <1>1, <1>2

\* What str_append_chars leaves in the block of a string that is not empty.
LEMMA AppendedType ==
  ASSUME IInv, NEW s \in Name, NEW chars \in Text, str[s].len > 0
  PROVE  /\ Appended(s, chars) \in Seq(HeapByte)
         /\ Len(Appended(s, chars)) = str[s].len + Len(chars)
<1> DEFINE n    == str[s].len
           diff == Len(chars)
           old  == Bytes(s)
<1>1. chars \in Seq(HeapByte) /\ diff \in Nat
  BY TextBytes
<1>2. n \in Nat
  BY DEF IInv
<1>3. old \in Seq(HeapByte) /\ Len(old) = n
  BY BytesType
<1>4. UNKNOWN \in HeapByte
  BY DEF HeapByte
<1>5. \A k \in 1 .. n + diff :
        (IF k \in diff + 1 .. 2 * diff THEN chars[k - diff]
         ELSE IF k <= n THEN old[k] ELSE UNKNOWN) \in HeapByte
  <2> HIDE DEF n, old
  <2> SUFFICES ASSUME NEW k \in 1 .. n + diff
               PROVE (IF k \in diff + 1 .. 2 * diff THEN chars[k - diff]
                      ELSE IF k <= n THEN old[k] ELSE UNKNOWN) \in HeapByte
    OBVIOUS
  <2>1. CASE k \in diff + 1 .. 2 * diff
    <3>1. k - diff \in 1 .. Len(chars)
      BY <1>1, <2>1
    <3> QED BY <1>1, <2>1, <3>1
  <2>2. CASE k \notin diff + 1 .. 2 * diff /\ k <= n
    <3>1. k \in 1 .. Len(old)
      BY <1>2, <1>3, <2>2
    <3> QED BY <1>3, <2>2, <3>1
  <2> QED BY <1>4, <2>1, <2>2
<1>6. Appended(s, chars) \in [1 .. n + diff -> HeapByte]
  BY <1>5 DEF Appended
<1>7. n + diff \in Nat
  BY <1>1, <1>2
<1> HIDE DEF n, diff
<1>8. Appended(s, chars) \in Seq(HeapByte) /\ Len(Appended(s, chars)) = n + diff
  BY <1>6, <1>7
<1> QED BY <1>8 DEF n, diff

LEMMA AppendCharsInv ==
  ASSUME IInv, NEW s \in Name, NEW chars \in Text, AppendChars(s, chars)
  PROVE  IInv'
<1>1. chars \in Seq(HeapByte) /\ Len(chars) \in Nat
  BY TextBytes
<1>2. CASE str_is_empty(s)
  <2>1. Allocate(s, chars, Len(chars))
    BY <1>2 DEF AppendChars
  <2> QED BY <1>1, <2>1, AllocateInv
<1>3. CASE ~str_is_empty(s) /\ Len(chars) > str[s].len
  BY <1>3 DEF AppendChars, IInv, EachOwnsItsBlock
<1>4. CASE ~str_is_empty(s) /\ ~(Len(chars) > str[s].len)
  <2>1. Reallocate(s, Appended(s, chars))
    BY <1>4 DEF AppendChars
  <2>2. str[s].len > 0
    BY <1>4 DEF IInv, str_is_empty
  <2> QED BY <1>4, <2>1, <2>2, AppendedType, ReallocateInv
<1> QED BY <1>2, <1>3, <1>4

LEMMA AppendCharInv ==
  ASSUME IInv, NEW s \in Name, NEW ch \in Char, AppendChar(s, ch)
  PROVE  IInv'
<1>1. ch \in HeapByte
  BY DEF HeapByte
<1>2. CASE str_is_empty(s)
  <2>1. <<ch>> \in Seq(HeapByte) /\ Len(<<ch>>) = 1 /\ 1 \in Nat /\ 1 <= 1
    BY <1>1
  <2>2. Allocate(s, <<ch>>, 1)
    BY <1>2 DEF AppendChar
  <2> QED BY <2>1, <2>2, AllocateInv
<1>3. CASE ~str_is_empty(s)
  <2>1. str[s].len \in Nat /\ str[s].len > 0
    BY <1>3 DEF IInv, str_is_empty
  <2>2. Append(Bytes(s), ch) \in Seq(HeapByte)
    BY <1>1, <2>1, BytesType
  <2> QED BY <1>3, <2>2, ReallocateInv DEF AppendChar
<1> QED BY <1>2, <1>3

LEMMA ReverseInv ==
  ASSUME IInv, NEW s \in Name, ReverseString(s)
  PROVE  IInv'
<1> DEFINE p     == str[s].ptr
           block == heap[p]
           n     == str[s].len
           old   == Bytes(s)
           tail  == SubSeq(block, n + 1, Len(block))
           new   == Reversed(old) \o tail
<1>1. n \in Nat /\ n > 0 /\ p # NULL
  BY DEF ReverseString, IInv, str_is_empty
<1>2. p \in DOMAIN heap /\ block \in Seq(HeapByte) /\ n <= Len(block)
  BY <1>1 DEF IInv, EachOwnsItsBlock
<1>3. old \in Seq(HeapByte) /\ Len(old) = n
  BY <1>1, BytesType
<1>4. heap' = [heap EXCEPT ![p] = new] /\ UNCHANGED str
  BY DEF ReverseString
<1>5. Reversed(old) \in Seq(HeapByte) /\ Len(Reversed(old)) = n
  <2> HIDE DEF old, n
  <2>1. \A k \in 1 .. n : old[n + 1 - k] \in HeapByte
    <3> TAKE k \in 1 .. n
    <3>1. n + 1 - k \in 1 .. Len(old)
      BY <1>1, <1>3
    <3> QED BY <1>3, <3>1
  <2>2. Reversed(old) \in [1 .. n -> HeapByte]
    BY <1>3, <2>1 DEF Reversed
  <2> QED BY <1>1, <2>2
<1>6. tail \in Seq(HeapByte) /\ Len(tail) = Len(block) - n
  <2> HIDE DEF block, n
  <2>1. n + 1 \in 1 .. Len(block) + 1 /\ Len(block) \in 0 .. Len(block)
    BY <1>1, <1>2
  <2>2. /\ tail \in Seq(HeapByte)
        /\ Len(tail) = IF n + 1 <= Len(block) THEN Len(block) - (n + 1) + 1 ELSE 0
    BY <1>2, <2>1, SubSeqProperties
  <2> HIDE DEF tail
  <2> QED BY <1>1, <1>2, <2>2
<1>7. new \in Seq(HeapByte) /\ Len(new) = Len(block)
  <2> DEFINE head == Reversed(old)
  <2> HIDE DEF tail, head, block, n
  <2>1. /\ head \in Seq(HeapByte) /\ Len(head) = n /\ n \in Nat
        /\ tail \in Seq(HeapByte) /\ Len(tail) = Len(block) - n
        /\ Len(block) \in Nat
    BY <1>1, <1>2, <1>5, <1>6 DEF head
  <2>2. head \o tail \in Seq(HeapByte) /\ Len(head \o tail) = Len(head) + Len(tail)
    BY <2>1
  <2> QED BY <2>1, <2>2 DEF head
<1> HIDE DEF new, block
<1>8. /\ DOMAIN heap' = DOMAIN heap
      /\ heap'[p] = new
      /\ \A b \in DOMAIN heap : b # p => heap'[b] = heap[b]
  BY <1>2, <1>4
<1>9. \A b \in DOMAIN heap : heap'[b] \in Seq(HeapByte) /\ Len(heap'[b]) = Len(heap[b])
  BY <1>7, <1>8 DEF IInv, block
<1>10. EachOwnsItsBlock'
  BY <1>4, <1>8, <1>9 DEF IInv, EachOwnsItsBlock
<1> QED BY <1>4, <1>8, <1>9, <1>10 DEF IInv

\* Nobody else has the block that is freed.
LEMMA ClearInv ==
  ASSUME IInv, NEW s \in Name, Clear(s)
  PROVE  IInv'
<1>1. /\ DOMAIN heap' = DOMAIN heap \ {str[s].ptr}
      /\ \A b \in DOMAIN heap' : heap'[b] = heap[b]
  BY DEF Clear, Freed, Without
<1>2. /\ str'[s] = Zero
      /\ \A t \in Name : t # s => str'[t] = str[t]
      /\ str' \in [Name -> [ptr : Block \cup {NULL}, len : Nat]]
  BY DEF Clear, IInv, Zero
<1>3. EachOwnsItsBlock'
  <2>1. str'[s].ptr = NULL
    BY <1>2 DEF Zero
  <2>2. ASSUME NEW t \in Name, str'[t].ptr # NULL
        PROVE  str'[t].ptr \in DOMAIN heap' /\ str'[t].len <= Len(heap'[str'[t].ptr])
    <3>1. t # s /\ str'[t] = str[t]
      BY <1>2, <2>1, <2>2
    <3>2. /\ str[t].ptr \in DOMAIN heap /\ str[t].len <= Len(heap[str[t].ptr])
          /\ str[t].ptr # str[s].ptr
      BY <2>2, <3>1 DEF IInv, EachOwnsItsBlock
    <3> QED BY <1>1, <3>1, <3>2
  <2>3. ASSUME NEW t \in Name, NEW u \in Name, t # u, str'[t].ptr = str'[u].ptr
        PROVE  str'[t].ptr = NULL
    <3>1. CASE t = s \/ u = s
      BY <2>1, <2>3, <3>1
    <3>2. CASE t # s /\ u # s
      <4>1. str'[t] = str[t] /\ str'[u] = str[u]
        BY <1>2, <3>2
      <4> QED BY <2>3, <4>1 DEF IInv, EachOwnsItsBlock
    <3> QED BY <3>1, <3>2
  <2> QED BY <2>2, <2>3 DEF EachOwnsItsBlock
<1>4. ASSUME NEW t \in Name, str'[t].ptr = NULL
      PROVE  str'[t].len = 0
  <2>1. CASE t = s
    BY <1>2, <2>1 DEF Zero
  <2>2. CASE t # s
    <3>1. str'[t] = str[t]
      BY <1>2, <2>2
    <3> QED BY <1>4, <3>1 DEF IInv
  <2> QED BY <2>1, <2>2
<1>5. DOMAIN heap' \subseteq Block
  BY <1>1 DEF IInv
<1>6. \A b \in DOMAIN heap' : heap'[b] \in Seq(HeapByte)
  BY <1>1 DEF IInv
<1> QED BY <1>2, <1>3, <1>4, <1>5, <1>6 DEF IInv

THEOREM NextIInv == IInv /\ [Next]_vars => IInv'
<1> SUFFICES ASSUME IInv, [Next]_vars PROVE IInv'
  OBVIOUS
<1>1. ASSUME NEW s \in Name, NEW text \in Text, NEW len \in 0 .. Len(text) + 1,
             FromCstr(s, text, len)
      PROVE  IInv'
  <2>1. len \in Nat
    BY TextBytes
  <2> QED BY <1>1, <2>1, FromCstrInv
<1>2. ASSUME NEW s \in Name, NEW text \in Text,
             MoveCstr(s, text) \/ AppendChars(s, text)
      PROVE  IInv'
  BY <1>2, MoveCstrInv, AppendCharsInv
<1>3. ASSUME NEW s \in Name, NEW t \in Name, Dup(s, t)
      PROVE  IInv'
  BY <1>3, DupInv
<1>4. ASSUME NEW s \in Name, NEW t \in Name,
             NEW index \in 0 .. str[t].len, NEW len \in 0 .. str[t].len,
             Substr(s, t, index, len)
      PROVE  IInv'
  <2>1. index \in Nat /\ len \in Nat
    OBVIOUS
  <2> QED BY <1>4, <2>1, SubstrInv
<1>5. ASSUME NEW s \in Name, NEW ch \in Char, AppendChar(s, ch)
      PROVE  IInv'
  BY <1>5, AppendCharInv
<1>6. ASSUME NEW s \in Name, ReverseString(s) \/ Clear(s)
      PROVE  IInv'
  BY <1>6, ReverseInv, ClearInv
<1>7. CASE OutOfMemory
  BY <1>7 DEF OutOfMemory, Abort, IInv, EachOwnsItsBlock
<1>8. CASE UNCHANGED vars
  BY <1>8 DEF vars, IInv, EachOwnsItsBlock
<1> QED BY <1>1, <1>2, <1>3, <1>4, <1>5, <1>6, <1>7, <1>8 DEF Next

\* Whatever the client does with however many strings, and wherever the blocks
\* move: no string uses a block that is freed, that is too small for its length, or
\* that another string uses (str_append_char, str_dup, str_clear).
THEOREM BlocksCorrect == Spec => []EachOwnsItsBlock
<1>1. IInv => EachOwnsItsBlock
  BY DEF IInv
<1> QED BY <1>1, InitIInv, NextIInv, PTL DEF Spec

-----------------------------------------------------------------------------
(***************************************************************************)
(* Leaks.  That the blocks nobody points to are empty is not inductive:    *)
(* str_append_chars leaves the block of an empty string behind, so the     *)
(* blocks of the empty strings have to be empty as well.                   *)
(***************************************************************************)
NoBytes == {<<>>, <<NUL>>}

Holds(s, b) == str[s].ptr = b /\ str[s].len > 0

FullBlocksHeld == \A b \in DOMAIN heap : heap[b] \in NoBytes \/ \E s \in Name : Holds(s, b)

\* A new block is full only when its string is, and an empty string held none.
LEMMA AllocateHeld ==
  ASSUME IInv, FullBlocksHeld, NEW s \in Name, NEW bytes, NEW len \in Nat,
         str_is_empty(s), Allocate(s, bytes, len), len > 0 \/ bytes \in NoBytes
  PROVE  FullBlocksHeld'
<1>1. PICK b \in Block \ DOMAIN heap :
        /\ heap' = With(heap, b, bytes)
        /\ str' = [str EXCEPT ![s] = [ptr |-> b, len |-> len]]
  BY DEF Allocate
<1>2. /\ DOMAIN heap' = DOMAIN heap \cup {b}
      /\ heap'[b] = bytes
      /\ \A c \in DOMAIN heap : heap'[c] = heap[c]
  BY <1>1 DEF With
<1>3. /\ str'[s] = [ptr |-> b, len |-> len]
      /\ \A t \in Name : t # s => str'[t] = str[t]
  BY <1>1 DEF IInv
<1>4. str[s].len = 0
  BY DEF IInv, str_is_empty
<1> SUFFICES ASSUME NEW c \in DOMAIN heap', heap'[c] \notin NoBytes
             PROVE  \E t \in Name : str'[t].ptr = c /\ str'[t].len > 0
  BY DEF FullBlocksHeld, Holds
<1>5. CASE c = b
  BY <1>2, <1>3, <1>5
<1>6. CASE c # b
  <2>1. c \in DOMAIN heap /\ heap[c] \notin NoBytes
    BY <1>2, <1>6
  <2>2. PICK t \in Name : str[t].ptr = c /\ str[t].len > 0
    BY <2>1 DEF FullBlocksHeld, Holds
  <2>3. t # s
    BY <1>4, <2>2
  <2> QED BY <1>3, <2>2, <2>3
<1> QED BY <1>5, <1>6

\* A block that stays or moves remains with its string.
LEMMA ReallocateHeld ==
  ASSUME IInv, FullBlocksHeld, NEW s \in Name, NEW bytes \in Seq(HeapByte),
         Len(bytes) > 0, ~str_is_empty(s), Reallocate(s, bytes)
  PROVE  FullBlocksHeld'
<1> DEFINE old == str[s].ptr
<1>1. PICK b \in (Block \ DOMAIN heap) \cup {old} :
        /\ heap' = With(Without(old), b, bytes)
        /\ str' = [str EXCEPT ![s] = [ptr |-> b, len |-> Len(bytes)]]
  BY DEF Reallocate, PointerMoved
<1>2. /\ DOMAIN heap' = (DOMAIN heap \ {old}) \cup {b}
      /\ \A c \in DOMAIN heap : c # old /\ c # b => heap'[c] = heap[c]
  BY <1>1 DEF With, Without
<1>3. /\ str'[s] = [ptr |-> b, len |-> Len(bytes)]
      /\ \A t \in Name : t # s => str'[t] = str[t]
  BY <1>1 DEF IInv
<1> SUFFICES ASSUME NEW c \in DOMAIN heap', heap'[c] \notin NoBytes
             PROVE  \E t \in Name : str'[t].ptr = c /\ str'[t].len > 0
  BY DEF FullBlocksHeld, Holds
<1>4. CASE c = b
  BY <1>3, <1>4
<1>5. CASE c # b
  <2>1. c \in DOMAIN heap /\ c # old /\ heap[c] \notin NoBytes
    BY <1>2, <1>5
  <2>2. PICK t \in Name : str[t].ptr = c /\ str[t].len > 0
    BY <2>1 DEF FullBlocksHeld, Holds
  <2> QED BY <1>3, <2>1, <2>2
<1> QED BY <1>4, <1>5

\* str_reverse changes the bytes of a full string only, str_clear frees the
\* block with the string.
LEMMA ReverseHeld ==
  ASSUME IInv, FullBlocksHeld, NEW s \in Name, ReverseString(s)
  PROVE  FullBlocksHeld'
<1> DEFINE p == str[s].ptr
<1>1. p # NULL /\ str[s].len > 0 /\ p \in DOMAIN heap /\ str' = str
  BY DEF ReverseString, IInv, EachOwnsItsBlock, str_is_empty
<1>2. DOMAIN heap' = DOMAIN heap /\ \A b \in DOMAIN heap : b # p => heap'[b] = heap[b]
  BY DEF ReverseString
<1> QED BY <1>1, <1>2 DEF FullBlocksHeld, Holds

LEMMA ClearHeld ==
  ASSUME IInv, FullBlocksHeld, NEW s \in Name, Clear(s)
  PROVE  FullBlocksHeld'
<1>1. /\ DOMAIN heap' = DOMAIN heap \ {str[s].ptr}
      /\ \A b \in DOMAIN heap' : heap'[b] = heap[b]
  BY DEF Clear, Freed, Without
<1>2. \A t \in Name : t # s => str'[t] = str[t]
  BY DEF Clear, IInv
<1> SUFFICES ASSUME NEW c \in DOMAIN heap', heap'[c] \notin NoBytes
             PROVE  \E t \in Name : str'[t].ptr = c /\ str'[t].len > 0
  BY DEF FullBlocksHeld, Holds
<1>3. c \in DOMAIN heap /\ c # str[s].ptr /\ heap[c] \notin NoBytes
  BY <1>1
<1>4. PICK t \in Name : str[t].ptr = c /\ str[t].len > 0
  BY <1>3 DEF FullBlocksHeld, Holds
<1> QED BY <1>2, <1>3, <1>4

\* The operations that make a string.
LEMMA CreateHeld ==
  ASSUME IInv, FullBlocksHeld, NEW s \in Name, NEW text \in Text, NEW len \in Nat,
         FromCstr(s, text, len) \/ MoveCstr(s, text)
  PROVE  FullBlocksHeld'
<1>1. str_is_empty(s)
  BY DEF FromCstr, MoveCstr, str_is_empty, Zero
<1>2. CASE FromCstr(s, text, len) /\ len > Len(text)
  BY <1>2 DEF FromCstr, Abort, FullBlocksHeld, Holds
<1>3. CASE FromCstr(s, text, len) /\ ~(len > Len(text))
  <2> DEFINE bytes == IF len = 0 THEN text ELSE SubSeq(text, 1, len)
  <2>1. bytes \in Seq(HeapByte) /\ Len(bytes) \in Nat
    BY <1>3, TextBytes
  <2>2. Allocate(s, bytes, Len(bytes))
    BY <1>3 DEF FromCstr
  <2> HIDE DEF bytes
  <2>3. Len(bytes) > 0 \/ bytes \in NoBytes
    BY <2>1 DEF NoBytes
  <2> QED BY <1>1, <2>1, <2>2, <2>3, AllocateHeld
<1>4. CASE MoveCstr(s, text)
  <2>1. text \in Seq(HeapByte) /\ Len(text) \in Nat
    BY TextBytes
  <2>2. Len(text) > 0 \/ Append(text, NUL) \in NoBytes
    <3>1. CASE Len(text) = 0
      <4>1. text = <<>>
        BY <2>1, <3>1
      <4>2. Append(<<>>, NUL) = <<NUL>>
        OBVIOUS
      <4> QED BY <4>1, <4>2 DEF NoBytes
    <3> QED BY <2>1, <3>1
  <2> QED BY <1>1, <1>4, <2>1, <2>2, AllocateHeld DEF MoveCstr
<1> QED BY <1>2, <1>3, <1>4

LEMMA CopyHeld ==
  ASSUME IInv, FullBlocksHeld, NEW s \in Name, NEW t \in Name, NEW index \in Nat,
         NEW len \in Nat, Dup(s, t) \/ Substr(s, t, index, len)
  PROVE  FullBlocksHeld'
<1>1. str_is_empty(s) /\ str[t].len \in Nat
  BY DEF Dup, Substr, str_is_empty, Zero, IInv
<1>2. CASE Dup(s, t)
  <2>1. str[t].len > 0 /\ Allocate(s, Bytes(t), str[t].len)
    BY <1>1, <1>2 DEF Dup, str_is_empty
  <2> QED BY <1>1, <2>1, AllocateHeld
<1> DEFINE inside == /\ index < str[t].len /\ len < str[t].len
                     /\ index + len <= str[t].len
<1>3. CASE Substr(s, t, index, len) /\ ~inside
  BY <1>3 DEF Substr, Abort, FullBlocksHeld, Holds
<1>4. CASE Substr(s, t, index, len) /\ inside
  <2> DEFINE piece == SubSeq(Bytes(t), index + 1, index + len)
  <2>1. Allocate(s, piece, len)
    BY <1>4 DEF Substr
  <2>2. len > 0 \/ piece \in NoBytes
    <3>1. CASE len = 0
      <4>1. index + 1 > index + len
        BY <3>1
      <4>2. piece = <<>>
        BY <4>1
      <4> QED BY <4>2 DEF NoBytes
    <3> QED BY <3>1
  <2> HIDE DEF piece
  <2> QED BY <1>1, <2>1, <2>2, AllocateHeld
<1> QED BY <1>2, <1>3, <1>4

\* The operations that make a string longer.
LEMMA AppendCharsHeld ==
  ASSUME IInv, FullBlocksHeld, NEW s \in Name, NEW chars \in Text,
         AppendChars(s, chars)
  PROVE  FullBlocksHeld'
<1>1. chars \in Seq(HeapByte) /\ Len(chars) \in Nat
  BY TextBytes
<1>2. Len(chars) > 0
  BY <1>1 DEF AppendChars
<1>3. CASE str_is_empty(s)
  <2>1. Allocate(s, chars, Len(chars))
    BY <1>3 DEF AppendChars
  <2> QED BY <1>1, <1>2, <1>3, <2>1, AllocateHeld
<1>4. CASE ~str_is_empty(s) /\ Len(chars) > str[s].len
  BY <1>4 DEF AppendChars, FullBlocksHeld, Holds
<1>5. CASE ~str_is_empty(s) /\ ~(Len(chars) > str[s].len)
  <2>1. Reallocate(s, Appended(s, chars))
    BY <1>5 DEF AppendChars
  <2>2. str[s].len \in Nat /\ str[s].len > 0
    BY <1>5 DEF IInv, str_is_empty
  <2>3. /\ Appended(s, chars) \in Seq(HeapByte)
        /\ Len(Appended(s, chars)) = str[s].len + Len(chars)
    BY <2>2, AppendedType
  <2>4. Len(Appended(s, chars)) > 0
    BY <1>1, <2>2, <2>3
  <2> QED BY <1>5, <2>1, <2>3, <2>4, ReallocateHeld
<1> QED BY <1>3, <1>4, <1>5

LEMMA AppendCharHeld ==
  ASSUME IInv, FullBlocksHeld, NEW s \in Name, NEW ch \in Char, AppendChar(s, ch)
  PROVE  FullBlocksHeld'
<1>1. ch \in HeapByte
  BY DEF HeapByte
<1>2. CASE str_is_empty(s)
  <2>1. Allocate(s, <<ch>>, 1)
    BY <1>2 DEF AppendChar
  <2> QED BY <1>2, <2>1, AllocateHeld
<1>3. CASE ~str_is_empty(s)
  <2>1. str[s].len > 0
    BY <1>3 DEF IInv, str_is_empty
  <2>2. Append(Bytes(s), ch) \in Seq(HeapByte) /\ Len(Append(Bytes(s), ch)) > 0
    BY <1>1, <2>1, BytesType
  <2>3. Reallocate(s, Append(Bytes(s), ch))
    BY <1>3 DEF AppendChar
  <2> QED BY <1>3, <2>2, <2>3, ReallocateHeld
<1> QED BY <1>2, <1>3

THEOREM NextHeld == IInv /\ FullBlocksHeld /\ [Next]_vars => FullBlocksHeld'
<1> SUFFICES ASSUME IInv, FullBlocksHeld, [Next]_vars PROVE FullBlocksHeld'
  OBVIOUS
<1>1. ASSUME NEW s \in Name, NEW text \in Text, NEW len \in 0 .. Len(text) + 1,
             FromCstr(s, text, len)
      PROVE  FullBlocksHeld'
  <2>1. len \in Nat
    BY TextBytes
  <2> QED BY <1>1, <2>1, CreateHeld
<1>2. ASSUME NEW s \in Name, NEW text \in Text, MoveCstr(s, text)
      PROVE  FullBlocksHeld'
  <2>1. 0 \in Nat
    OBVIOUS
  <2> QED BY <1>2, <2>1, CreateHeld
<1>3. ASSUME NEW s \in Name, NEW chars \in Text, AppendChars(s, chars)
      PROVE  FullBlocksHeld'
  BY <1>3, AppendCharsHeld
<1>4. ASSUME NEW s \in Name, NEW t \in Name, Dup(s, t)
      PROVE  FullBlocksHeld'
  <2>1. 0 \in Nat
    OBVIOUS
  <2> QED BY <1>4, <2>1, CopyHeld
<1>5. ASSUME NEW s \in Name, NEW t \in Name,
             NEW index \in 0 .. str[t].len, NEW len \in 0 .. str[t].len,
             Substr(s, t, index, len)
      PROVE  FullBlocksHeld'
  <2>1. index \in Nat /\ len \in Nat
    OBVIOUS
  <2> QED BY <1>5, <2>1, CopyHeld
<1>6. ASSUME NEW s \in Name, NEW ch \in Char, AppendChar(s, ch)
      PROVE  FullBlocksHeld'
  BY <1>6, AppendCharHeld
<1>7. ASSUME NEW s \in Name, ReverseString(s) \/ Clear(s)
      PROVE  FullBlocksHeld'
  BY <1>7, ReverseHeld, ClearHeld
<1>8. CASE OutOfMemory \/ UNCHANGED vars
  BY <1>8 DEF OutOfMemory, Abort, vars, FullBlocksHeld, Holds
<1> QED BY <1>1, <1>2, <1>3, <1>4, <1>5, <1>6, <1>7, <1>8 DEF Next

\* Whatever the client does, as long as it does not overwrite the fields of a
\* String itself: no byte that was ever put into a string is lost to a block that
\* no string points to any more (str_append_chars, str_append_char on an empty
\* string).
THEOREM LeaksCorrect == Spec => []OnlyEmptyBlocksLeak
<1>1. Init => FullBlocksHeld
  BY DEF Init, FullBlocksHeld
<1>2. FullBlocksHeld => OnlyEmptyBlocksLeak
  BY DEF FullBlocksHeld, OnlyEmptyBlocksLeak, Holds, NoBytes
<1> QED BY <1>1, <1>2, InitIInv, NextIInv, NextHeld, PTL DEF Spec

-----------------------------------------------------------------------------
(***************************************************************************)
(* The searches.  They say of any two texts what they say of the texts of  *)
(* two strings, so that nothing is needed of the heap but that the bytes   *)
(* of a string are a sequence.                                             *)
(***************************************************************************)

\* Every set of numbers has a smallest one.
LEMMA Smallest ==
  ASSUME NEW S \in SUBSET Nat, S # {}
  PROVE  \E n \in S : \A m \in S : n <= m
<1> DEFINE Below == {1 .. n : n \in S}
<1>1. Below \subseteq FiniteSubsetsOf(Nat) /\ Below # {}
  <2>1. ASSUME NEW n \in S
        PROVE  1 .. n \in SUBSET Nat /\ IsFiniteSet(1 .. n)
    BY FS_Interval
  <2> QED BY <2>1 DEF FiniteSubsetsOf
<1>2. IsWellFoundedOn(StrictSubsetOrdering(Nat), FiniteSubsetsOf(Nat))
  BY FS_StrictSubsetOrderingWellFounded
<1>3. PICK x \in Below : \A y \in Below : ~ (<<y, x>> \in StrictSubsetOrdering(Nat))
  <2> HIDE DEF Below
  <2> QED BY <1>1, <1>2, WFMin
<1>4. PICK n \in S : x = 1 .. n
  BY <1>3
<1>5. ASSUME NEW m \in S
      PROVE  n <= m
  <2>1. SUFFICES ASSUME m < n PROVE FALSE
    OBVIOUS
  <2>2. 1 .. m \in SUBSET Nat /\ 1 .. n \in SUBSET Nat /\ 1 .. m \subseteq 1 .. n
    BY <2>1
  <2>3. n \in 1 .. n /\ n \notin 1 .. m
    BY <2>1
  <2>4. 1 .. m # 1 .. n
    BY <2>3
  <2>5. <<1 .. m, x>> \in StrictSubsetOrdering(Nat)
    BY <1>4, <2>2, <2>4, Zenon DEF StrictSubsetOrdering
  <2> QED BY <1>3, <2>5
<1> QED BY <1>5

\* What str_has_pattern returns: whether the pattern is found, and the first index of
\* one of several characters.
LEMMA FirstIndex ==
  ASSUME NEW src \in Seq(HeapByte), NEW pat \in Seq(HeapByte)
  PROVE  LET found == {n \in Indices(src, pat) : MatchesAt(src, pat, n)}
             at    == str_has_pattern(src, pat)
         IN  IF found = {} THEN at = -1
             ELSE IF Len(pat) = 1 THEN at = 1
             ELSE at \in found /\ \A m \in found : at <= m
<1> DEFINE found == {n \in Indices(src, pat) : MatchesAt(src, pat, n)}
           Least(n) == \A m \in found : n <= m
<1>1. CASE found = {}
  BY <1>1 DEF str_has_pattern
<1>2. CASE found # {} /\ Len(pat) = 1
  BY <1>2 DEF str_has_pattern
<1>3. CASE found # {} /\ Len(pat) # 1
  <2>2. str_has_pattern(src, pat) = CHOOSE n \in found : Least(n)
    BY <1>3 DEF str_has_pattern
  <2>3. found \subseteq Nat
    BY DEF Indices
  <2> HIDE DEF found
  <2>4. \E n \in found : Least(n)
    BY <1>3, <2>3, Smallest
  <2> HIDE DEF Least
  <2>5. (CHOOSE n \in found : Least(n)) \in found /\ Least(CHOOSE n \in found : Least(n))
    BY <2>4
  <2> QED BY <1>3, <2>2, <2>5 DEF found, Least
<1> QED BY <1>1, <1>2, <1>3

\* A part of a text is the pattern when the characters are.
LEMMA PartMatches ==
  ASSUME NEW src \in Seq(HeapByte), NEW pat \in Seq(HeapByte),
         NEW n \in 0 .. Len(src) - Len(pat)
  PROVE  MatchesAt(src, pat, n) <=> str_are_equal(SubSeq(src, n + 1, n + Len(pat)), pat)
<1> DEFINE part == SubSeq(src, n + 1, n + Len(pat))
<1>1. Len(src) \in Nat /\ Len(pat) \in Nat /\ n \in Nat /\ n + Len(pat) <= Len(src)
  OBVIOUS
<1>2. n + 1 \in 1 .. Len(src) + 1 /\ n + Len(pat) \in 0 .. Len(src)
  BY <1>1
<1>3. Len(part) = Len(pat) /\ \A k \in 1 .. Len(pat) : part[k] = src[k + n]
  <2>1. /\ Len(part) = IF n + 1 <= n + Len(pat) THEN n + Len(pat) - (n + 1) + 1 ELSE 0
        /\ \A k \in 1 .. n + Len(pat) - (n + 1) + 1 : part[k] = src[n + 1 + k - 1]
    BY <1>2, SubSeqProperties
  <2> HIDE DEF part
  <2>2. \A k \in 1 .. Len(pat) : n + 1 + k - 1 = k + n /\ k \in 1 .. n + Len(pat) - (n + 1) + 1
    BY <1>1
  <2> QED BY <1>1, <2>1, <2>2
<1>4. part \in Seq(HeapByte)
  BY <1>2, SubSeqProperties
<1> HIDE DEF part
<1>5. DOMAIN pat = 1 .. Len(pat) /\ DOMAIN part = 1 .. Len(pat)
  BY <1>3, <1>4
<1>6. MatchesAt(src, pat, n) <=> str_are_equal(part, pat)
  BY <1>3, <1>5 DEF MatchesAt, str_are_equal
<1> QED BY <1>6 DEF part

\* str_ends_with compares all but the first character.
LEMMA EndsInTail ==
  ASSUME NEW src \in Seq(HeapByte), NEW pat \in Seq(HeapByte),
         Len(src) > Len(pat), Len(pat) > 0
  PROVE  str_ends_with(src, pat)
           <=> str_are_equal(SubSeq(src, Len(src) - Len(pat) + 2, Len(src)), Tail(pat))
<1> DEFINE tail  == Tail(pat)
           start == Len(src) - Len(pat) + 1
<1>1. /\ tail \in Seq(HeapByte) /\ Len(tail) = Len(pat) - 1
      /\ DOMAIN tail = 1 .. Len(pat) - 1
      /\ \A k \in 1 .. Len(pat) - 1 : tail[k] = pat[k + 1]
  OBVIOUS
<1>2. /\ Len(src) \in Nat /\ Len(pat) \in Nat
      /\ start \in 0 .. Len(src) - (Len(pat) - 1)
      /\ start + 1 = Len(src) - Len(pat) + 2 /\ start + (Len(pat) - 1) = Len(src)
  OBVIOUS
<1>3. ASSUME str_ends_with(src, pat)
      PROVE  MatchesAt(src, tail, start)
  <2>1. ASSUME NEW k \in 1 .. Len(pat) - 1
        PROVE  src[k + start] = pat[k + 1]
    <3>1. k + 1 \in 2 .. Len(pat) /\ k + 1 + Len(src) - Len(pat) = k + start
      BY <1>2
    <3> QED BY <1>3, <3>1 DEF str_ends_with
  <2> QED BY <1>1, <2>1 DEF MatchesAt
<1>4. ASSUME MatchesAt(src, tail, start)
      PROVE  str_ends_with(src, pat)
  <2> SUFFICES ASSUME NEW k \in 2 .. Len(pat)
               PROVE  src[k + Len(src) - Len(pat)] = pat[k]
    BY DEF str_ends_with
  <2>1. /\ k - 1 \in 1 .. Len(pat) - 1 /\ k - 1 + 1 = k
        /\ k - 1 + start = k + Len(src) - Len(pat)
    BY <1>2
  <2>2. src[k - 1 + start] = tail[k - 1]
    BY <1>1, <1>4, <2>1 DEF MatchesAt
  <2> QED BY <1>1, <2>1, <2>2
<1> HIDE DEF tail, start
<1>5. MatchesAt(src, tail, start)
        <=> str_are_equal(SubSeq(src, start + 1, start + Len(tail)), tail)
  BY <1>1, <1>2, PartMatches
<1> QED BY <1>1, <1>2, <1>3, <1>4, <1>5 DEF tail

\* The searches agree on any two texts.
LEMMA TextsSearched ==
  ASSUME NEW src \in Seq(HeapByte), NEW pat \in Seq(HeapByte),
         Len(src) > Len(pat), Len(pat) > 0
  PROVE  LET at == str_has_pattern(src, pat)
         IN  /\ str_begins_with(src, pat) <=> 0 \in Places(src, pat)
             /\ at = -1 <=> Places(src, pat) = {}
             /\ at # -1 =>
                  IF Len(pat) = 1 THEN at = 1
                  ELSE at \in Places(src, pat) /\ \A n \in Places(src, pat) : at <= n
<1> DEFINE at == str_has_pattern(src, pat)
           found == {n \in Indices(src, pat) : MatchesAt(src, pat, n)}
<1>1. /\ Indices(src, pat) = 0 .. Len(src) - Len(pat)
      /\ \A n \in 0 .. Len(src) - Len(pat) :
           MatchesAt(src, pat, n) <=> str_are_equal(SubSeq(src, n + 1, n + Len(pat)), pat)
  BY PartMatches DEF Indices
<1>2. found = Places(src, pat)
  BY <1>1 DEF Places
<1>3. str_begins_with(src, pat) <=> 0 \in Places(src, pat)
  <2>1. 0 \in Indices(src, pat)
    BY <1>1
  <2> QED BY <1>2, <2>1 DEF str_begins_with
<1>4. IF found = {} THEN at = -1
      ELSE IF Len(pat) = 1 THEN at = 1
      ELSE at \in found /\ \A m \in found : at <= m
  BY FirstIndex
<1>5. Places(src, pat) \subseteq Nat
  BY DEF Places
<1> HIDE DEF at, found
<1>6. CASE Places(src, pat) = {}
  BY <1>2, <1>3, <1>4, <1>6 DEF at
<1>7. CASE Places(src, pat) # {} /\ Len(pat) = 1
  BY <1>2, <1>3, <1>4, <1>7 DEF at
<1>8. CASE Places(src, pat) # {} /\ Len(pat) # 1
  <2>1. at \in Places(src, pat) /\ \A m \in Places(src, pat) : at <= m
    BY <1>2, <1>4, <1>8
  <2>2. at # -1
    BY <1>5, <2>1
  <2> QED BY <1>3, <1>8, <2>1, <2>2 DEF at
<1> QED BY <1>6, <1>7, <1>8

\* For strings and patterns of any length: str_has_pattern finds a pattern exactly if
\* it is there, and at its first place if it has several characters; str_begins_with
\* tells whether it is at the start; and str_ends_with, whether the text ends in all
\* of the pattern but its first character.
THEOREM SearchesCorrect == Spec => []SearchesAgree
<1>1. IInv => SearchesAgree
  <2> SUFFICES ASSUME IInv, NEW s \in Name, NEW t \in Name,
                      Len(Bytes(s)) > Len(Bytes(t)), Len(Bytes(t)) > 0
               PROVE  LET src == Bytes(s)
                          pat == Bytes(t)
                          at  == str_has_pattern(src, pat)
                      IN  /\ str_begins_with(src, pat) <=> 0 \in Places(src, pat)
                          /\ at = -1 <=> Places(src, pat) = {}
                          /\ at # -1 =>
                               IF Len(pat) = 1 THEN at = 1
                               ELSE /\ at \in Places(src, pat)
                                    /\ \A n \in Places(src, pat) : at <= n
                          /\ str_ends_with(src, pat)
                               <=> str_are_equal(SubSeq(src, Len(src) - Len(pat) + 2, Len(src)),
                                                 Tail(pat))
    BY DEF SearchesAgree
  <2>1. ASSUME NEW u \in Name PROVE Bytes(u) \in Seq(HeapByte)
    <3>1. CASE str[u].len > 0
      BY <3>1, BytesType
    <3>2. CASE ~(str[u].len > 0)
      <4>1. str_is_empty(u)
        BY <3>2 DEF IInv, str_is_empty
      <4>2. Bytes(u) = <<>>
        BY <4>1 DEF Bytes
      <4> QED BY <4>2
    <3> QED BY <3>1, <3>2
  <2> QED BY <2>1, TextsSearched, EndsInTail
<1> QED BY <1>1, InitIInv, NextIInv, PTL DEF Spec

-----------------------------------------------------------------------------
(***************************************************************************)
(* The library implements StringValues: with any number of strings, of any *)
(* length and on any heap, an operation changes the text of one string, to *)
(* what it promises, and no other - for a client that appends single       *)
(* characters or as many as the string has.                                *)
(***************************************************************************)

ended == ~Running

\* The text that the fields f of a struct stand for on a heap h.
TextOf(h, f) == IF f.len = 0 \/ f.ptr = NULL THEN <<>> ELSE SubSeq(h[f.ptr], 1, f.len)

LEMMA TextsNow ==
  /\ StringTexts = [t \in Name |-> TextOf(heap, str[t])]
  /\ StringTexts' = [t \in Name |-> TextOf(heap', str'[t])]
  BY DEF StringTexts, Bytes, str_is_empty, TextOf

\* A sequence is its own longest beginning.
LEMMA WholeSequence ==
  ASSUME NEW S, NEW s \in Seq(S)
  PROVE  SubSeq(s, 1, Len(s)) = s
  OBVIOUS

\* What two sequences are, put together.
LEMMA Concatenated ==
  ASSUME NEW S, NEW s \in Seq(S), NEW t \in Seq(S)
  PROVE  s \o t = [k \in 1 .. Len(s) + Len(t) |-> IF k <= Len(s) THEN s[k] ELSE t[k - Len(s)]]
<1> DEFINE u == s \o t
<1>1. /\ u \in Seq(S) /\ Len(u) = Len(s) + Len(t)
      /\ \A k \in 1 .. Len(s) + Len(t) : u[k] = IF k <= Len(s) THEN s[k] ELSE t[k - Len(s)]
  OBVIOUS
<1> HIDE DEF u
<1>2. u = [k \in 1 .. Len(u) |-> u[k]]
  BY <1>1
<1>3. u = [k \in 1 .. Len(s) + Len(t) |-> IF k <= Len(s) THEN s[k] ELSE t[k - Len(s)]]
  BY <1>1, <1>2
<1> QED BY <1>3 DEF u

\* A sequence of one element is what is put behind an empty one.
LEMMA OneElement ==
  ASSUME NEW S, NEW x \in S
  PROVE  /\ <<x>> \in Seq(S) /\ Len(<<x>>) = 1
         /\ SubSeq(<<x>>, 1, 1) = <<x>>
         /\ <<>> \o <<x>> = <<x>>
<1> DEFINE s == <<x>>
<1>1. s \in Seq(S) /\ Len(s) = 1
  OBVIOUS
<1> HIDE DEF s
<1>2. SubSeq(s, 1, 1) = s /\ <<>> \o s = s
  BY <1>1
<1> QED BY <1>1, <1>2 DEF s

\* A sequence is a beginning of what it is lengthened to.
LEMMA PrefixOfAppended ==
  ASSUME NEW S, NEW s \in Seq(S), NEW t \in Seq(S)
  PROVE  Values!IsPrefix(s, s \o t)
  BY DEF Values!IsPrefix

-----------------------------------------------------------------------------
(***************************************************************************)
(* What becomes of the texts.                                              *)
(***************************************************************************)

\* A step that leaves the fields and the blocks of the other strings.
LEMMA OneTextChanged ==
  ASSUME IInv, NEW s \in Name,
         \A t \in Name : t # s =>
            /\ str'[t] = str[t]
            /\ str[t].ptr # NULL => heap'[str[t].ptr] = heap[str[t].ptr]
  PROVE  StringTexts' = [StringTexts EXCEPT ![s] = TextOf(heap', str'[s])]
<1>1. \A t \in Name : t # s => TextOf(heap', str'[t]) = TextOf(heap, str[t])
  BY DEF TextOf
<1>2. StringTexts' = [t \in Name |-> TextOf(heap', str'[t])]
  BY TextsNow
<1>3. StringTexts = [t \in Name |-> TextOf(heap, str[t])]
  BY TextsNow
<1> QED BY <1>1, <1>2, <1>3

\* A string that is empty has no text.
LEMMA EmptyText ==
  ASSUME NEW s \in Name, str_is_empty(s)
  PROVE  StringTexts[s] = <<>>
  BY DEF StringTexts, Bytes, str_is_empty

LEMMA AllocateText ==
  ASSUME IInv, NEW s \in Name, NEW bytes \in Seq(HeapByte), NEW len \in Nat,
         len <= Len(bytes), Allocate(s, bytes, len)
  PROVE  /\ StringTexts' = [StringTexts EXCEPT ![s] = SubSeq(bytes, 1, len)]
         /\ status' = status
<1>1. PICK b \in Block \ DOMAIN heap :
        /\ heap' = With(heap, b, bytes)
        /\ str' = [str EXCEPT ![s] = [ptr |-> b, len |-> len]]
  BY DEF Allocate
<1>2. /\ heap'[b] = bytes
      /\ \A c \in DOMAIN heap : heap'[c] = heap[c]
  BY <1>1 DEF With
<1>3. /\ str'[s] = [ptr |-> b, len |-> len]
      /\ \A t \in Name : t # s => str'[t] = str[t]
  BY <1>1 DEF IInv
<1>4. StringTexts' = [StringTexts EXCEPT ![s] = TextOf(heap', str'[s])]
  <2>1. \A t \in Name : str[t].ptr # NULL => str[t].ptr \in DOMAIN heap
    BY DEF IInv, EachOwnsItsBlock
  <2> QED BY <1>2, <1>3, <2>1, OneTextChanged
<1>5. TextOf(heap', str'[s]) = SubSeq(bytes, 1, len)
  <2>1. b # NULL
    BY StringsAssumption
  <2>2. CASE len = 0
    <3>1. SubSeq(bytes, 1, 0) = <<>>
      OBVIOUS
    <3> QED BY <1>3, <2>2, <3>1 DEF TextOf
  <2>3. CASE len # 0
    BY <1>2, <1>3, <2>1, <2>3 DEF TextOf
  <2> QED BY <2>2, <2>3
<1> QED BY <1>4, <1>5 DEF Allocate

LEMMA ReallocateText ==
  ASSUME IInv, NEW s \in Name, NEW bytes \in Seq(HeapByte), Len(bytes) > 0,
         ~str_is_empty(s), Reallocate(s, bytes)
  PROVE  /\ StringTexts' = [StringTexts EXCEPT ![s] = bytes]
         /\ status' = status
<1> DEFINE old == str[s].ptr
<1>1. old # NULL /\ old \in DOMAIN heap
  BY DEF IInv, EachOwnsItsBlock, str_is_empty
<1>2. PICK b \in (Block \ DOMAIN heap) \cup {old} :
        /\ heap' = With(Without(old), b, bytes)
        /\ str' = [str EXCEPT ![s] = [ptr |-> b, len |-> Len(bytes)]]
  BY DEF Reallocate, PointerMoved
<1>3. b # NULL
  BY <1>1, StringsAssumption
<1>4. /\ heap'[b] = bytes
      /\ \A c \in DOMAIN heap : c # old => heap'[c] = heap[c]
  BY <1>2 DEF With, Without
<1>5. /\ str'[s] = [ptr |-> b, len |-> Len(bytes)]
      /\ \A t \in Name : t # s => str'[t] = str[t]
  BY <1>2 DEF IInv
<1>6. StringTexts' = [StringTexts EXCEPT ![s] = TextOf(heap', str'[s])]
  <2>1. \A t \in Name : str[t].ptr # NULL => str[t].ptr \in DOMAIN heap
    BY DEF IInv, EachOwnsItsBlock
  <2>2. \A t \in Name : t # s => str[t].ptr # old
    BY <1>1 DEF IInv, EachOwnsItsBlock
  <2> QED BY <1>4, <1>5, <2>1, <2>2, OneTextChanged
<1>7. TextOf(heap', str'[s]) = bytes
  <2>1. TextOf(heap', str'[s]) = SubSeq(bytes, 1, Len(bytes))
    BY <1>3, <1>4, <1>5 DEF TextOf
  <2> QED BY <2>1, WholeSequence
<1> QED BY <1>6, <1>7 DEF Reallocate

LEMMA ClearText ==
  ASSUME IInv, NEW s \in Name, Clear(s)
  PROVE  StringTexts' = [StringTexts EXCEPT ![s] = <<>>] /\ status' = status
<1>1. /\ DOMAIN heap' = DOMAIN heap \ {str[s].ptr}
      /\ \A b \in DOMAIN heap' : heap'[b] = heap[b]
  BY DEF Clear, Freed, Without
<1>2. /\ str'[s] = Zero
      /\ \A t \in Name : t # s => str'[t] = str[t]
  BY DEF Clear, IInv
<1>3. ASSUME NEW t \in Name, t # s, str[t].ptr # NULL
      PROVE  heap'[str[t].ptr] = heap[str[t].ptr]
  <2>1. str[t].ptr \in DOMAIN heap /\ str[t].ptr # str[s].ptr
    BY <1>3 DEF IInv, EachOwnsItsBlock
  <2> QED BY <1>1, <2>1
<1>4. StringTexts' = [StringTexts EXCEPT ![s] = TextOf(heap', str'[s])]
  BY <1>2, <1>3, OneTextChanged
<1>5. TextOf(heap', str'[s]) = <<>>
  BY <1>2 DEF TextOf, Zero
<1> QED BY <1>4, <1>5 DEF Clear

LEMMA ReverseText ==
  ASSUME IInv, NEW s \in Name, ReverseString(s)
  PROVE  /\ StringTexts' = [StringTexts EXCEPT ![s] = Values!Reverse(StringTexts[s])]
         /\ status' = status
<1> DEFINE p     == str[s].ptr
           block == heap[p]
           n     == str[s].len
           old   == Bytes(s)
           tail  == SubSeq(block, n + 1, Len(block))
           head  == Reversed(old)
<1>1. n \in Nat /\ n > 0 /\ p # NULL /\ ~str_is_empty(s)
  BY DEF ReverseString, IInv, str_is_empty
<1>2. p \in DOMAIN heap /\ block \in Seq(HeapByte) /\ n <= Len(block)
  BY <1>1 DEF IInv, EachOwnsItsBlock
<1>3. old \in Seq(HeapByte) /\ Len(old) = n
  BY <1>1, BytesType
<1>4. heap' = [heap EXCEPT ![p] = head \o tail] /\ UNCHANGED <<str, status>>
  BY DEF ReverseString
<1>5. ASSUME NEW t \in Name, t # s, str[t].ptr # NULL
      PROVE  heap'[str[t].ptr] = heap[str[t].ptr]
  <2>1. str[t].ptr # p
    BY <1>5 DEF IInv, EachOwnsItsBlock
  <2> HIDE DEF head, tail
  <2> QED BY <1>4, <2>1
<1>6. StringTexts' = [StringTexts EXCEPT ![s] = TextOf(heap', str'[s])]
  BY <1>4, <1>5, OneTextChanged
<1>7. TextOf(heap', str'[s]) = SubSeq(head \o tail, 1, n)
  <2>1. p \in DOMAIN heap /\ str' = str /\ n # 0 /\ p # NULL
    BY <1>1, <1>2, <1>4
  <2>2. heap'[p] = head \o tail
    <3> HIDE DEF head, tail
    <3> QED BY <1>4, <2>1
  <2> HIDE DEF head, tail
  <2> QED BY <2>1, <2>2 DEF TextOf
<1>8. head \in Seq(HeapByte) /\ Len(head) = n
  <2> HIDE DEF old, n
  <2>1. \A k \in 1 .. n : old[n + 1 - k] \in HeapByte
    <3> TAKE k \in 1 .. n
    <3>1. n + 1 - k \in 1 .. Len(old)
      BY <1>1, <1>3
    <3> QED BY <1>3, <3>1
  <2>2. head \in [1 .. n -> HeapByte]
    BY <1>3, <2>1 DEF Reversed
  <2> QED BY <1>1, <2>2
<1>9. tail \in Seq(HeapByte)
  <2> HIDE DEF block, n
  <2>1. n + 1 \in 1 .. Len(block) + 1 /\ Len(block) \in 0 .. Len(block)
    BY <1>1, <1>2
  <2> QED BY <1>2, <2>1, SubSeqProperties
<1>10. SubSeq(head \o tail, 1, n) = head
  <2> HIDE DEF head, tail, n
  <2> QED BY <1>1, <1>8, <1>9
<1>11. head = Values!Reverse(StringTexts[s])
  <2>1. StringTexts[s] = old
    BY DEF StringTexts
  <2> HIDE DEF old, n
  <2>2. head = [k \in 1 .. n |-> old[n + 1 - k]]
    BY <1>3 DEF Reversed
  <2>3. Values!Reverse(old) = [k \in 1 .. n |-> old[n - k + 1]]
    BY <1>3 DEF Values!Reverse
  <2>4. \A k \in 1 .. n : n + 1 - k = n - k + 1
    BY <1>1
  <2> QED BY <2>1, <2>2, <2>3, <2>4
<1> HIDE DEF head, tail
<1> QED BY <1>4, <1>6, <1>7, <1>10, <1>11

\* What leaves the strings leaves the texts.
LEMMA TextsUnchanged ==
  ASSUME UNCHANGED <<heap, str>>
  PROVE  StringTexts' = StringTexts
<1>1. heap' = heap /\ str' = str
  OBVIOUS
<1> QED BY <1>1, TextsNow

-----------------------------------------------------------------------------
(***************************************************************************)
(* The operations.  The texts are sequences of characters: neither the     *)
(* terminator that str_move_cstr keeps in the block nor a byte that was    *)
(* never written is part of one, when only as many characters are appended *)
(* as the string has.                                                      *)
(***************************************************************************)
TextInv == \A s \in Name : StringTexts[s] \in Seq(Char)

\* What a step is to be: one of the promise that leaves characters, or one that
\* changes nothing of it.
Promised == TextInv' /\ [Values!Next]_Values!vars

\* A string that takes on a text.
LEMMA TextSet ==
  ASSUME TextInv, NEW s \in Name, NEW text \in Seq(Char),
         StringTexts' = [StringTexts EXCEPT ![s] = text]
  PROVE  /\ TextInv'
         /\ StringTexts'[s] = text
<1>1. DOMAIN StringTexts = Name
  BY DEF StringTexts
<1> QED BY <1>1 DEF TextInv

\* A failed assertion or allocation ends the program and changes no string.
LEMMA EndStep ==
  ASSUME TextInv, Running, status' # "running", UNCHANGED <<heap, str>>
  PROVE  Promised
<1>1. StringTexts' = StringTexts
  BY TextsUnchanged
<1>2. Values!End
  BY <1>1 DEF Values!End, Running
<1> QED BY <1>1, <1>2 DEF Promised, TextInv, Values!Next

LEMMA CreateStep ==
  ASSUME IInv, TextInv, NEW s \in Name, NEW text \in Text, NEW len \in Nat,
         FromCstr(s, text, len) \/ MoveCstr(s, text)
  PROVE  Promised
<1>1. Running /\ StringTexts[s] = <<>>
  <2>1. str_is_empty(s)
    BY DEF FromCstr, MoveCstr, str_is_empty, Zero
  <2> QED BY <2>1, EmptyText DEF FromCstr, MoveCstr
<1>2. text \in Seq(Char) /\ text \in Seq(HeapByte) /\ Len(text) \in Nat
  BY TextBytes, StringsAssumption
<1>3. ASSUME NEW new \in Seq(Char), StringTexts' = [StringTexts EXCEPT ![s] = new],
             status' = status
      PROVE  Promised
  <2>1. TextInv' /\ StringTexts'[s] = new
    BY <1>3, TextSet
  <2>2. Values!Create(s)
    BY <1>1, <1>3, <2>1 DEF Values!Create, Values!Becomes, Running
  <2> QED BY <1>1, <2>1, <2>2 DEF Promised, Values!Next
<1>4. CASE FromCstr(s, text, len) /\ len > Len(text)
  BY <1>1, <1>4, EndStep DEF FromCstr, Abort
<1>5. CASE FromCstr(s, text, len) /\ ~(len > Len(text))
  <2> DEFINE new == IF len = 0 THEN text ELSE SubSeq(text, 1, len)
  <2>1. new \in Seq(Char)
    <3>1. len # 0 => SubSeq(text, 1, len) \in Seq(Char)
      BY <1>2, <1>5, SubSeqProperties
    <3> QED BY <1>2, <3>1
  <2>2. Allocate(s, new, Len(new))
    BY <1>5 DEF FromCstr
  <2> HIDE DEF new
  <2>3. new \in Seq(HeapByte) /\ Len(new) \in Nat
    BY <2>1 DEF HeapByte
  <2>4. SubSeq(new, 1, Len(new)) = new
    BY <2>1, WholeSequence
  <2> QED BY <1>3, <2>1, <2>2, <2>3, <2>4, AllocateText
<1>6. CASE MoveCstr(s, text)
  <2>1. NUL \in HeapByte
    BY DEF HeapByte
  <2> DEFINE bytes == Append(text, NUL)
  <2>2. /\ bytes \in Seq(HeapByte) /\ Len(text) <= Len(bytes)
        /\ SubSeq(bytes, 1, Len(text)) = text
    BY <1>2, <2>1
  <2>3. Allocate(s, bytes, Len(text))
    BY <1>6 DEF MoveCstr
  <2> HIDE DEF bytes
  <2> QED BY <1>2, <1>3, <2>2, <2>3, AllocateText
<1> QED BY <1>4, <1>5, <1>6

\* A piece of the text of t.
LEMMA CopyStep ==
  ASSUME IInv, TextInv, NEW s \in Name, NEW t \in Name, Running, str_is_empty(s),
         NEW first \in 1 .. Len(StringTexts[t]) + 1,
         NEW last \in 0 .. Len(StringTexts[t]),
         StringTexts' = [StringTexts EXCEPT ![s] = SubSeq(StringTexts[t], first, last)],
         status' = status
  PROVE  Promised
<1>1. StringTexts[s] = <<>>
  BY EmptyText
<1>2. SubSeq(StringTexts[t], first, last) \in Seq(Char)
  BY SubSeqProperties DEF TextInv
<1>3. TextInv'
  BY <1>2, TextSet
<1>4. Values!Copy(s, t)
  BY <1>1 DEF Values!Copy, Values!Becomes, Running
<1> QED BY <1>3, <1>4 DEF Promised, Values!Next

LEMMA DupStep ==
  ASSUME IInv, TextInv, NEW s \in Name, NEW t \in Name, Dup(s, t)
  PROVE  Promised
<1>1. Running /\ str_is_empty(s) /\ str[t].len \in Nat /\ str[t].len > 0
  BY DEF Dup, str_is_empty, Zero, IInv
<1>2. Bytes(t) \in Seq(HeapByte) /\ Len(Bytes(t)) = str[t].len /\ StringTexts[t] = Bytes(t)
  BY <1>1, BytesType DEF StringTexts
<1>3. /\ StringTexts' = [StringTexts EXCEPT ![s] = SubSeq(StringTexts[t], 1, Len(StringTexts[t]))]
      /\ status' = status
  BY <1>1, <1>2, AllocateText DEF Dup
<1>4. 1 \in 1 .. Len(StringTexts[t]) + 1 /\ Len(StringTexts[t]) \in 0 .. Len(StringTexts[t])
  BY <1>1, <1>2
<1> QED BY <1>1, <1>3, <1>4, CopyStep

LEMMA SubstrStep ==
  ASSUME IInv, TextInv, NEW s \in Name, NEW t \in Name, NEW index \in Nat,
         NEW len \in Nat, Substr(s, t, index, len)
  PROVE  Promised
<1> DEFINE inside == /\ index < str[t].len /\ len < str[t].len
                     /\ index + len <= str[t].len
<1>1. Running /\ str_is_empty(s) /\ str[t].len \in Nat
  BY DEF Substr, str_is_empty, Zero, IInv
<1>2. CASE ~inside
  BY <1>1, <1>2, EndStep DEF Substr, Abort
<1>3. CASE inside
  <2> DEFINE all   == Bytes(t)
             piece == SubSeq(all, index + 1, index + len)
  <2>1. all \in Seq(HeapByte) /\ Len(all) = str[t].len /\ StringTexts[t] = all
    BY <1>1, <1>3, BytesType DEF StringTexts
  <2>2. Allocate(s, piece, len)
    BY <1>3 DEF Substr
  <2>3. index + 1 \in 1 .. Len(all) + 1 /\ index + len \in 0 .. Len(all)
    BY <1>1, <1>3, <2>1
  <2> HIDE DEF all
  <2>4. piece \in Seq(HeapByte) /\ Len(piece) = len
    <3>1. /\ piece \in Seq(HeapByte)
          /\ Len(piece) = IF index + 1 <= index + len THEN index + len - (index + 1) + 1 ELSE 0
      BY <2>1, <2>3, SubSeqProperties
    <3> HIDE DEF piece
    <3> QED BY <3>1
  <2>5. SubSeq(piece, 1, len) = piece
    <3> HIDE DEF piece
    <3> QED BY <2>4, WholeSequence
  <2>6. StringTexts' = [StringTexts EXCEPT ![s] = piece] /\ status' = status
    <3> HIDE DEF piece
    <3> QED BY <2>2, <2>4, <2>5, AllocateText
  <2> QED BY <1>1, <2>1, <2>3, <2>6, CopyStep
<1> QED BY <1>2, <1>3

\* A string that grows at its end.
LEMMA ExtendStep ==
  ASSUME IInv, TextInv, NEW s \in Name, NEW more \in Seq(Char), Running,
         StringTexts' = [StringTexts EXCEPT ![s] = StringTexts[s] \o more],
         status' = status
  PROVE  Promised
<1>1. StringTexts[s] \in Seq(Char) /\ StringTexts[s] \o more \in Seq(Char)
  BY DEF TextInv
<1>2. TextInv' /\ StringTexts'[s] = StringTexts[s] \o more
  BY <1>1, TextSet
<1>3. Values!IsPrefix(StringTexts[s], StringTexts'[s])
  BY <1>1, <1>2, PrefixOfAppended
<1>4. Values!Extend(s)
  BY <1>1, <1>2, <1>3 DEF Values!Extend, Values!Becomes, Running
<1> QED BY <1>2, <1>4 DEF Promised, Values!Next

LEMMA AppendCharsStep ==
  ASSUME DoublesOnly, IInv, TextInv, NEW s \in Name, NEW chars \in Text,
         AppendChars(s, chars)
  PROVE  Promised
<1>1. /\ chars \in Seq(Char) /\ chars \in Seq(HeapByte) /\ Len(chars) \in Nat
      /\ Len(chars) > 0 /\ Running /\ str[s].len \in Nat
      /\ str[s].len \in {0, Len(chars)}
  <2>1. chars \in Seq(Char) /\ chars \in Seq(HeapByte) /\ Len(chars) \in Nat
    BY TextBytes, StringsAssumption
  <2>2. chars # <<>> /\ Running /\ str[s].len \in {0, Len(chars)}
    BY DEF AppendChars
  <2> QED BY <2>1, <2>2 DEF IInv
<1>2. CASE str_is_empty(s)
  <2>1. Allocate(s, chars, Len(chars))
    BY <1>2 DEF AppendChars
  <2>2. StringTexts[s] = <<>> /\ <<>> \o chars = chars /\ SubSeq(chars, 1, Len(chars)) = chars
    BY <1>1, <1>2, EmptyText
  <2>3. StringTexts' = [StringTexts EXCEPT ![s] = StringTexts[s] \o chars] /\ status' = status
    BY <1>1, <2>1, <2>2, AllocateText
  <2> QED BY <1>1, <2>3, ExtendStep
<1>3. CASE ~str_is_empty(s)
  <2> DEFINE n   == Len(chars)
             old == Bytes(s)
  <2>1. str[s].len = n /\ str[s].len > 0
    BY <1>1, <1>3 DEF str_is_empty
  <2>2. Reallocate(s, Appended(s, chars))
    BY <1>1, <1>3, <2>1 DEF AppendChars
  <2>3. old \in Seq(HeapByte) /\ Len(old) = n /\ StringTexts[s] = old
    BY <2>1, BytesType DEF StringTexts
  <2>4. Appended(s, chars) = old \o chars
    <3>1. Appended(s, chars) = [k \in 1 .. n + n |->
                                  IF k \in n + 1 .. 2 * n THEN chars[k - n]
                                  ELSE IF k <= n THEN old[k] ELSE UNKNOWN]
      BY <2>1 DEF Appended
    <3> HIDE DEF old
    <3>2. old \o chars = [k \in 1 .. n + n |-> IF k <= n THEN old[k] ELSE chars[k - n]]
      <4>1. old \o chars = [k \in 1 .. Len(old) + Len(chars) |->
                              IF k <= Len(old) THEN old[k] ELSE chars[k - Len(old)]]
        <5>1. old \in Seq(HeapByte) /\ chars \in Seq(HeapByte)
          BY <1>1, <2>3
        <5> QED BY <5>1, Concatenated, Zenon
      <4> QED BY <2>3, <4>1
    <3>3. \A k \in 1 .. n + n :
            (IF k \in n + 1 .. 2 * n THEN chars[k - n] ELSE IF k <= n THEN old[k] ELSE UNKNOWN)
              = IF k <= n THEN old[k] ELSE chars[k - n]
      <4>1. n \in Nat
        BY <1>1
      <4> HIDE DEF n
      <4> QED BY <4>1
    <3> QED BY <3>1, <3>2, <3>3
  <2>5. Appended(s, chars) \in Seq(HeapByte) /\ Len(Appended(s, chars)) > 0
    <3>1. /\ Appended(s, chars) \in Seq(HeapByte)
          /\ Len(Appended(s, chars)) = str[s].len + Len(chars)
      BY <2>1, AppendedType
    <3> QED BY <1>1, <2>1, <3>1
  <2>6. StringTexts' = [StringTexts EXCEPT ![s] = Appended(s, chars)] /\ status' = status
    BY <1>3, <2>2, <2>5, ReallocateText
  <2> QED BY <1>1, <2>3, <2>4, <2>6, ExtendStep
<1> QED BY <1>2, <1>3

LEMMA AppendCharStep ==
  ASSUME IInv, TextInv, NEW s \in Name, NEW ch \in Char, AppendChar(s, ch)
  PROVE  Promised
<1> DEFINE one == <<ch>>
<1>1. Running /\ ch \in HeapByte
  BY DEF AppendChar, HeapByte
<1>2. /\ one \in Seq(Char) /\ one \in Seq(HeapByte) /\ Len(one) = 1
      /\ SubSeq(one, 1, 1) = one /\ <<>> \o one = one
  BY <1>1, OneElement
<1>3. CASE str_is_empty(s)
  <2>1. Allocate(s, one, 1)
    BY <1>3 DEF AppendChar
  <2>2. StringTexts[s] = <<>>
    BY <1>3, EmptyText
  <2> HIDE DEF one
  <2>3. StringTexts' = [StringTexts EXCEPT ![s] = SubSeq(one, 1, 1)] /\ status' = status
    <3>1. one \in Seq(HeapByte) /\ 1 \in Nat /\ 1 <= Len(one)
      BY <1>2
    <3> QED BY <2>1, <3>1, AllocateText
  <2>4. StringTexts' = [StringTexts EXCEPT ![s] = StringTexts[s] \o one]
    BY <1>2, <2>2, <2>3
  <2> QED BY <1>1, <1>2, <2>3, <2>4, ExtendStep
<1>4. CASE ~str_is_empty(s)
  <2> DEFINE old == Bytes(s)
  <2>1. str[s].len > 0
    BY <1>4 DEF IInv, str_is_empty
  <2>2. old \in Seq(HeapByte) /\ StringTexts[s] = old
    BY <2>1, BytesType DEF StringTexts
  <2>3. Reallocate(s, Append(old, ch))
    BY <1>4 DEF AppendChar
  <2> HIDE DEF old
  <2>4. Append(old, ch) \in Seq(HeapByte) /\ Len(Append(old, ch)) > 0
    BY <1>1, <2>2
  <2>5. Append(old, ch) = old \o one
    BY <1>1, <2>2
  <2>6. StringTexts' = [StringTexts EXCEPT ![s] = Append(old, ch)] /\ status' = status
    BY <1>4, <2>3, <2>4, ReallocateText
  <2> HIDE DEF one
  <2> QED BY <1>1, <1>2, <2>2, <2>5, <2>6, ExtendStep
<1> QED BY <1>3, <1>4

LEMMA ReverseStep ==
  ASSUME IInv, TextInv, NEW s \in Name, ReverseString(s)
  PROVE  Promised
<1> DEFINE new == Values!Reverse(StringTexts[s])
<1>1. StringTexts' = [StringTexts EXCEPT ![s] = new] /\ status' = status /\ Running
  BY ReverseText DEF ReverseString
<1>2. new \in Seq(Char)
  <2>1. StringTexts[s] \in Seq(Char)
    BY DEF TextInv
  <2> QED BY <2>1 DEF Values!Reverse
<1> HIDE DEF new
<1>3. TextInv'
  BY <1>1, <1>2, TextSet
<1>4. Values!Turn(s)
  BY <1>1 DEF Values!Turn, Values!Becomes, Running, new
<1> QED BY <1>1, <1>3, <1>4 DEF Promised, Values!Next

LEMMA ClearStep ==
  ASSUME IInv, TextInv, NEW s \in Name, Clear(s)
  PROVE  Promised
<1>1. StringTexts' = [StringTexts EXCEPT ![s] = <<>>] /\ status' = status /\ Running
  BY ClearText DEF Clear
<1>2. TextInv'
  <2>1. <<>> \in Seq(Char)
    OBVIOUS
  <2> QED BY <1>1, <2>1, TextSet
<1>3. Values!Clear(s)
  BY <1>1 DEF Values!Clear, Values!Becomes, Running
<1> QED BY <1>1, <1>2, <1>3 DEF Promised, Values!Next

-----------------------------------------------------------------------------
\* Every step of the library is a step of the promise or leaves it alone.
LEMMA StepSimulation ==
  ASSUME DoublesOnly, IInv, TextInv, [Next]_vars
  PROVE  Promised
<1>1. ASSUME NEW s \in Name, NEW text \in Text, NEW len \in 0 .. Len(text) + 1,
             FromCstr(s, text, len)
      PROVE  Promised
  <2>1. len \in Nat
    BY TextBytes
  <2> QED BY <1>1, <2>1, CreateStep
<1>2. ASSUME NEW s \in Name, NEW text \in Text, MoveCstr(s, text)
      PROVE  Promised
  <2>1. 0 \in Nat
    OBVIOUS
  <2> QED BY <1>2, <2>1, CreateStep
<1>3. ASSUME NEW s \in Name, NEW chars \in Text, AppendChars(s, chars)
      PROVE  Promised
  BY <1>3, AppendCharsStep
<1>4. ASSUME NEW s \in Name, NEW t \in Name, Dup(s, t)
      PROVE  Promised
  BY <1>4, DupStep
<1>5. ASSUME NEW s \in Name, NEW t \in Name,
             NEW index \in 0 .. str[t].len, NEW len \in 0 .. str[t].len,
             Substr(s, t, index, len)
      PROVE  Promised
  <2>1. index \in Nat /\ len \in Nat
    OBVIOUS
  <2> QED BY <1>5, <2>1, SubstrStep
<1>6. ASSUME NEW s \in Name, NEW ch \in Char, AppendChar(s, ch)
      PROVE  Promised
  BY <1>6, AppendCharStep
<1>7. ASSUME NEW s \in Name, ReverseString(s) \/ Clear(s)
      PROVE  Promised
  BY <1>7, ReverseStep, ClearStep
<1>8. CASE OutOfMemory
  BY <1>8, EndStep DEF OutOfMemory, Abort
<1>9. CASE UNCHANGED vars
  <2>1. UNCHANGED <<heap, str>> /\ status' = status
    BY <1>9 DEF vars
  <2>2. StringTexts' = StringTexts
    BY <2>1, TextsUnchanged
  <2> QED BY <2>1, <2>2 DEF Promised, TextInv, Values!vars, Running
<1> QED BY <1>1, <1>2, <1>3, <1>4, <1>5, <1>6, <1>7, <1>8, <1>9 DEF Next

\* Cleared strings have no text.
LEMMA InitTexts ==
  ASSUME Init
  PROVE  TextInv /\ Values!Init
<1>1. \A s \in Name : StringTexts[s] = <<>>
  BY EmptyText DEF Init, str_is_empty, Zero
<1>2. StringTexts = [s \in Name |-> <<>>]
  BY <1>1 DEF StringTexts
<1>3. Running
  BY DEF Init, Running
<1> QED BY <1>1, <1>2, <1>3 DEF TextInv, Values!Init

\* The library implements strings that are values: for any client that appends
\* single characters or as many as the string has (a longer or shorter piece is
\* written in the wrong place by str_append_chars).
THEOREM StringsImplementValues ==
  ASSUME DoublesOnly
  PROVE  Spec => Implements
<1>1. Init => TextInv /\ Values!Init
  BY InitTexts
<1>2. IInv /\ TextInv /\ [Next]_vars => TextInv' /\ [Values!Next]_Values!vars
  BY StepSimulation DEF Promised
<1>3. Spec => Values!Spec
  BY <1>1, <1>2, InitIInv, NextIInv, PTL DEF Spec, Values!Spec
<1> QED BY <1>3 DEF Implements

=============================================================================
