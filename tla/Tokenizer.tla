------------------------------- MODULE Tokenizer -------------------------------
(***************************************************************************)
(* From a source file to the list of its tokens: the reading loop and the  *)
(* token loop of main_assemble, and src/tokenizer.c.                       *)
(*                                                                         *)
(* A file is a sequence of characters; of its letters and digits only      *)
(* their class matters, of the others which one it is.  NUL is the zero    *)
(* byte.  EOF_BYTE is the byte 255, which a signed char cannot tell from   *)
(* the EOF of fgetc.                                                       *)
(*                                                                         *)
(* token_next copies a word to an array of its stack frame, adds no        *)
(* terminator, and takes the string that starts there.  What follows the   *)
(* word is what the frame held: nothing but zeros in a build whose frames  *)
(* are fresh, what earlier calls have left where they are reused.          *)
(***************************************************************************)
EXTENDS Integers, Sequences, FiniteSets

CONSTANTS
  Files,                  \* files that may be assembled
  Letter, Digit,          \* characters
  StackGarbage,           \* what the array may hold before the first call
  MAX_SIZE,               \* bytes of the buffer fb
  DEFAULT_LITERAL_SIZE,   \* bytes of the array word_buffer
  TOKENS_BLOCK_SIZE       \* tokens of the list

NUL      == "NUL"
EOF_BYTE == "EOF"
Space    == {" ", "\t"}

\* What tells a word and a number, each with the characters that go on with it.
WordChar == Letter \cup Digit

\* The characters of the files.
Character == UNION {{f[k] : k \in DOMAIN f} : f \in Files}

Buffer == [0 .. DEFAULT_LITERAL_SIZE - 1 -> WordChar \cup {NUL}]
Zeros  == [k \in 0 .. DEFAULT_LITERAL_SIZE - 1 |-> NUL]

ASSUME TokenizerAssumption ==
  /\ \A f \in Files : f \in Seq(Character)
  /\ Letter \cap Digit = {} /\ ({NUL, EOF_BYTE} \cup Space) \cap WordChar = {}
  /\ StackGarbage \subseteq Buffer /\ StackGarbage # {}
  /\ MAX_SIZE \in Nat \ {0}
  /\ DEFAULT_LITERAL_SIZE \in Nat \ {0}
  /\ TOKENS_BLOCK_SIZE \in Nat

VARIABLES
  file,          \* the source
  phase,         \* "read", "tokenize", "done"; "aborted" by the assertion;
                 \* "undefined" beyond an array
  fsize,         \* characters read
  fb,            \* the string in the buffer
  file_pos,      \* characters tokenized
  fresh,         \* is every frame of token_next zeroed?
  word_buffer,   \* what the array holds between calls
  list           \* the tokens

tokenizerVars == <<file, phase, fsize, fb, file_pos, fresh, word_buffer, list>>

TokenizerInit ==
  /\ file \in Files
  /\ phase = "read"
  /\ fsize = 0
  /\ fb = <<>>
  /\ file_pos = 0
  /\ fresh \in BOOLEAN
  /\ word_buffer \in (IF fresh THEN {Zeros} ELSE StackGarbage)
  /\ list = <<>>

-----------------------------------------------------------------------------
\* Is there another character?  The byte 255 ends the file early.
More == fsize < Len(file) /\ file[fsize + 1] # EOF_BYTE

\* Mistake: the check of the size leaves no room for the terminator.
FitsWithoutTerminator == Len(fb) + 1 <= MAX_SIZE

\* The buffer takes the string, the character and the terminator.
Fits == Len(fb) + 2 <= MAX_SIZE

\* sprintf appends the character to the string (NUL appends nothing), and only
\* then the assertion looks at the size.
ReadChar ==
  /\ phase = "read"
  /\ More
  /\ Fits
  /\ fb' = IF file[fsize + 1] = NUL THEN fb ELSE Append(fb, file[fsize + 1])
  /\ IF fsize < MAX_SIZE
     THEN fsize' = fsize + 1 /\ UNCHANGED phase
     ELSE phase' = "aborted" /\ UNCHANGED fsize
  /\ UNCHANGED <<file, file_pos, fresh, word_buffer, list>>

ReadOverruns ==
  /\ phase = "read"
  /\ More
  /\ ~Fits
  /\ phase' = "undefined"
  /\ UNCHANGED <<file, fsize, fb, file_pos, fresh, word_buffer, list>>

ReadDone ==
  /\ phase = "read"
  /\ ~More
  /\ phase' = "tokenize"
  /\ UNCHANGED <<file, fsize, fb, file_pos, fresh, word_buffer, list>>

-----------------------------------------------------------------------------
(***************************************************************************)
(* token_next at file_pos, and what main_assemble does with the token.     *)
(***************************************************************************)
\* buffer[pos] and next_symbol: the string ends with a NUL.
At(pos) == IF pos < Len(fb) THEN fb[pos + 1] ELSE NUL

Current == At(file_pos)

Tokenizing == phase = "tokenize" /\ file_pos < Len(fb)

\* tokens_list_append, and the advance of the position by n characters.  The
\* list is never grown.
AppendToken(token, n) ==
  IF Len(list) < TOKENS_BLOCK_SIZE
  THEN /\ list' = Append(list, token)
       /\ file_pos' = file_pos + n
       /\ UNCHANGED phase
  ELSE /\ phase' = "undefined"
       /\ UNCHANGED <<list, file_pos>>

\* Mistake: the position stays at the space.
SpaceKept ==
  /\ Tokenizing
  /\ Current \in Space
  /\ UNCHANGED tokenizerVars

\* Mistake: a space is a token.
SpaceAppended ==
  /\ Tokenizing
  /\ Current \in Space
  /\ AppendToken([type |-> "NULL", literall |-> <<>>], 1)
  /\ UNCHANGED <<file, fsize, fb, fresh, word_buffer>>

SkipSpace ==
  /\ Tokenizing
  /\ Current \in Space
  /\ file_pos' = file_pos + 1
  /\ UNCHANGED <<file, phase, fsize, fb, fresh, word_buffer, list>>

\* A word that starts with a letter goes on with letters and digits, a number
\* with digits only.
Follows == IF Current \in Letter THEN WordChar ELSE Digit

\* The characters of the word or number.
RunLength ==
  CHOOSE n \in 1 .. Len(fb) - file_pos :
    /\ \A k \in 0 .. n - 1 : At(file_pos + k) \in Follows
    /\ At(file_pos + n) \notin Follows

\* Mistake: the last character of the word is not copied.
WrittenShort ==
  [k \in DOMAIN word_buffer |->
     IF k < RunLength - 1 THEN At(file_pos + k) ELSE word_buffer[k]]

\* The array after the word was copied to its start.
Written ==
  [k \in DOMAIN word_buffer |->
     IF k < RunLength THEN At(file_pos + k) ELSE word_buffer[k]]

\* strlen(word_buffer), if there is a terminator in the array.
Terminators(buffer) == {k \in DOMAIN buffer : buffer[k] = NUL}

StringIn(buffer) ==
  LET end == CHOOSE k \in Terminators(buffer) : \A j \in Terminators(buffer) : k <= j
  IN  [k \in 1 .. end |-> buffer[k - 1]]

TakeWord ==
  /\ Tokenizing
  /\ Current \in WordChar
  /\ RunLength <= DEFAULT_LITERAL_SIZE
  /\ Terminators(Written) # {}
  /\ AppendToken([type     |-> IF Current \in Letter THEN "WORD" ELSE "NUMBER",
                  literall |-> StringIn(Written)], RunLength)
  /\ word_buffer' = IF fresh THEN Zeros ELSE Written
  /\ UNCHANGED <<file, fsize, fb, fresh>>

WordOverruns ==
  /\ Tokenizing
  /\ Current \in WordChar
  /\ RunLength > DEFAULT_LITERAL_SIZE \/ Terminators(Written) = {}
  /\ phase' = "undefined"
  /\ UNCHANGED <<file, fsize, fb, file_pos, fresh, word_buffer, list>>

\* The other characters: three that may come twice, nine that stand alone, and
\* the rest, of which TOKEN_NULL is made.
Double == [c \in {"+", "-", "="} |->
             CASE c = "+" -> "PLUSPLUS" [] c = "-" -> "MINUSMINUS" [] c = "=" -> "EQUAL"]

Single ==
  [c \in {"\n", ";", "+", "-", "=", "(", ")", "{", "}", ".", ":", ",", "#"} |->
     CASE c \in {"\n", ";"} -> "EXPRESSION_END"
       [] c = "+" -> "PLUS"       [] c = "-" -> "MINUS"       [] c = "=" -> "ASIGN"
       [] c = "(" -> "PAREN_OPEN" [] c = ")" -> "PAREN_CLOSE" [] c = "{" -> "CURLY_OPEN"
       [] c = "}" -> "CURLY_CLOSE" [] c = "." -> "DOT"        [] c = ":" -> "COLON"
       [] c = "," -> "COMMA"      [] c = "#" -> "HASH"]

TakeSymbol ==
  /\ Tokenizing
  /\ Current \notin WordChar \cup Space
  /\ LET twice == Current \in DOMAIN Double /\ At(file_pos + 1) = Current
         type  == IF twice THEN Double[Current]
                  ELSE IF Current \in DOMAIN Single THEN Single[Current] ELSE "NULL"
     IN  AppendToken([type |-> type, literall |-> <<>>], IF twice THEN 2 ELSE 1)
  /\ UNCHANGED <<file, fsize, fb, fresh, word_buffer>>

TokenizeDone ==
  /\ phase = "tokenize"
  /\ file_pos >= Len(fb)
  /\ phase' = "done"
  /\ UNCHANGED <<file, fsize, fb, file_pos, fresh, word_buffer, list>>

TokenizerStep ==
  \/ ReadChar \/ ReadOverruns \/ ReadDone
  \/ SkipSpace \/ TakeWord \/ WordOverruns \/ TakeSymbol \/ TokenizeDone

-----------------------------------------------------------------------------
(***************************************************************************)
(* Correctness.                                                            *)
(***************************************************************************)
\* A word starts with a letter, a number with a digit; the others have no text.
Token ==
  [type : {"WORD"}, literall : {s \in Seq(WordChar) : s # <<>> /\ s[1] \in Letter}]
  \cup [type : {"NUMBER"}, literall : {s \in Seq(WordChar) : s # <<>> /\ s[1] \in Digit}]
  \cup [type : {Double[c] : c \in DOMAIN Double} \cup {Single[c] : c \in DOMAIN Single}
                 \cup {"NULL"},
         literall : {<<>>}]

TokenizerTypeOK ==
  /\ file \in Files
  /\ phase \in {"read", "tokenize", "done", "aborted", "undefined"}
  /\ fsize \in 0 .. Len(file)
  /\ fb \in Seq(Character \ {NUL, EOF_BYTE}) /\ Len(fb) < MAX_SIZE
  /\ file_pos \in 0 .. Len(fb)
  /\ fresh \in BOOLEAN
  /\ word_buffer \in Buffer
  /\ list \in Seq(Token) /\ Len(list) <= TOKENS_BLOCK_SIZE

\* The characters of the file that are its text: those in front of the first byte 255
\* that are no NULs.
InText ==
  {k \in DOMAIN file : file[k] # NUL /\ \A j \in 1 .. k : file[j] # EOF_BYTE}

\* The buffer holds just these, in their order.
FileRead ==
  /\ Len(fb) = Cardinality(InText)
  /\ \A k \in InText : fb[Cardinality({j \in InText : j <= k})] = file[k]

\* The characters a token stands for, as far as its type tells.
Spelling(token) ==
  IF token.type \in {"WORD", "NUMBER"} THEN token.literall
  ELSE CASE token.type = "NULL" -> <<"?">>
         [] token.type = "EXPRESSION_END" -> <<"\n">>
         [] \E c \in DOMAIN Double : Double[c] = token.type ->
              LET c == CHOOSE c \in DOMAIN Double : Double[c] = token.type IN <<c, c>>
         [] OTHER -> <<CHOOSE c \in DOMAIN Single : Single[c] = token.type>>

\* A character as the tokens tell it.
Told(c) ==
  IF c \in WordChar THEN c
  ELSE IF c = ";" THEN "\n" ELSE IF c \in DOMAIN Single THEN c ELSE "?"

\* The place k of the text belongs to a word or a number that starts further up,
\* by the text alone.
InWord(k) ==
  \/ \E j \in 1 .. k - 1 : fb[j] \in Letter /\ \A m \in j .. k : fb[m] \in WordChar
  \/ k > 1 /\ fb[k - 1] \in Digit /\ fb[k] \in Digit

\* The place k has the second of two symbols that are one token: a row of the same
\* symbol is taken in twos from its start.
SecondOfTwo(k) ==
  /\ fb[k] \in DOMAIN Double
  /\ \E s \in 1 .. k - 1 :
       /\ (k - s) % 2 = 1
       /\ \A m \in s .. k : fb[m] = fb[k]
       /\ s > 1 => fb[s - 1] # fb[k]

\* Where words and numbers start, where tokens start, and the characters of the word
\* or number that starts at k.
WordStarts  == {k \in 1 .. Len(fb) : fb[k] \in WordChar /\ ~InWord(k)}
TokenStarts ==
  {k \in 1 .. Len(fb) : fb[k] \notin Space /\ ~InWord(k) /\ ~SecondOfTwo(k)}

WordFrom(k) ==
  {m \in k .. Len(fb) :
     /\ \A j \in k .. m : fb[j] \in WordChar
     /\ fb[k] \in Digit => \A j \in k .. m : fb[j] \in Digit}

\* The places of the token that starts at k.
TokenFrom(k) ==
  IF fb[k] \in WordChar THEN WordFrom(k)
  ELSE {k} \cup {m \in {k + 1} : m <= Len(fb) /\ SecondOfTwo(m)}

\* The n-th token is one of the characters that the text has at the places of the token
\* that starts at k.
Spelled(n, k) ==
  Spelling(list[n]) = [j \in 1 .. Cardinality(TokenFrom(k)) |-> Told(fb[k + j - 1])]

\* The tokens are those of the text, one by one and character by character.
ListSpellsText ==
  LET starts == TokenStarts
  IN  /\ Len(list) = Cardinality(starts)
      /\ \A k \in starts : Spelled(Cardinality({t \in starts : t <= k}), k)

\* No word is shorter than one before it, or than what the stack has held (a frame
\* without a terminator lets no word through).
WordsGrow ==
  /\ \A j, k \in WordStarts :
       j < k => Cardinality(WordFrom(j)) <= Cardinality(WordFrom(k))
  /\ \A k \in WordStarts, g \in StackGarbage : Terminators(g) # {} =>
       \A n \in DOMAIN g : g[n] # NUL => n < Cardinality(WordFrom(k))

\* The source is shorter than the buffer, its words than theirs, and of fewer tokens
\* than the list has room for; a reused frame has a terminator at its end.
FitsBuffers ==
  /\ Len(file) < MAX_SIZE
  /\ \A k \in WordStarts : Cardinality(WordFrom(k)) < DEFAULT_LITERAL_SIZE
  /\ Cardinality(TokenStarts) <= TOKENS_BLOCK_SIZE
  /\ fresh \/ \A g \in StackGarbage : g[DEFAULT_LITERAL_SIZE - 1] = NUL

=============================================================================
