----------------------------- MODULE MCToolchain -----------------------------
(***************************************************************************)
(* The toolchain on sources of three kinds: every short text over the      *)
(* characters that the tokenizer treats differently; texts about as long   *)
(* as its buffers; and programs, with every command line and every         *)
(* instruction file from before.                                           *)
(***************************************************************************)
EXTENDS Toolchain, SequencesExt

F == INSTANCE MCFloats WITH Programs <- {<<>>}

MCFloatArith(op, a, b)   == F!MCFloatArith(op, a, b)
MCFloatCompare(op, a, b) == F!MCFloatCompare(op, a, b)
MCToFloat(n)             == F!MCToFloat(n)
MCFromFloat(op, w)       == F!MCFromFloat(op, w)

Chars(text) == [k \in 1 .. Len(text) |-> SubSeq(text, k, k)]

Instructions == {"set", "inc", "nejmp", "ejmp", "erjmp", "jmp", "ret", "rec", "call",
                 "getac", "push", "pop", "halt", "fset", "cf2i"}
MCRegister   == [w \in {"r0", "r1"} |-> IF w = "r0" THEN 0 ELSE 1]
MCReference  == [w \in {"Lf", "Lnext"} |-> IF w = "Lf" THEN "f" ELSE "next"]
MCNumber     == [w \in {"0", "2", "3", "9"} |->
                   CASE w = "0" -> 0 [] w = "2" -> 2 [] w = "3" -> 3 [] w = "9" -> 9]
Words        == Instructions \cup {"r0", "r1", "Lf", "Lnext", "f", "next", "0", "2", "3", "9"}
MCWordSpelling == [w \in Words |-> Chars(w)]

MCLetter == {Chars("abcefhijlmnoprstuxLgd")[k] : k \in 1 .. 21}
MCDigit  == {"0", "1", "2", "3", "9"}

-----------------------------------------------------------------------------
\* Every text of up to three of these characters.
Kinds == {"a", "1", " ", "+", "\n", "?", NUL, EOF_BYTE}
Short == SeqOf(Kinds, 3)

Repeat(c, n) == [k \in 1 .. n |-> c]

\* One less than fits, what fits, and more: of blanks, of NULs (which take no room
\* in the buffer), of letters, and of tokens.  Words that grow, words that shrink.
Long ==
  {Repeat(" ", n) : n \in MAX_SIZE - 2 .. MAX_SIZE + 1}
  \cup {Repeat(NUL, n) : n \in MAX_SIZE .. MAX_SIZE + 2}
  \cup {Repeat("a", n) : n \in DEFAULT_LITERAL_SIZE - 1 .. DEFAULT_LITERAL_SIZE + 1}
  \cup {Repeat(";", n) : n \in TOKENS_BLOCK_SIZE - 1 .. TOKENS_BLOCK_SIZE + 1}
  \cup {Chars(t) : t \in {"a b1 abc 123", "abc a", "12 1", "a1a a1 1a;a(b)"}}

\* Programs, each with the exit status it is to have; 8 is the number of
\* statuses, and the last line counts when it is ended.
Loop     == Chars("set r0 3\n;set r1 0\nf:\ninc r1\nnejmp Lf r0 r1\nret r1\n")
Function == Chars("set r0 9\n\nrec # f\ncall Lf\nret r0\nf:\ninc r0\nret r0\n")
Stacked  == Chars("set r0 9\npush r0;inc r0;pop r1\nret r1\n")
Unended  == Chars("set r0 3\nret r0")
ByNumber == Chars("jmp 2\nset r0 3;ret r0\n")
NoFloat  == Chars("inc r1;f:;fset r0 Lf;cf2i r1 r0;ret r1\n")

Desired ==
  (Loop :> 3) @@ (Function :> 2) @@ (Stacked :> 1) @@ (Unended :> 0) @@ (ByNumber :> 0)
  @@ (NoFloat :> 0)

\* Programs to list: lines that differ in one operand.
Listed ==
  {Chars(t) : t \in
     {"set r0 2;set r0 3;set r1 2;jmp 2;jmp 3;inc r0;inc r1;",
      "fset r0 2;fset r0 3;fset r1 2;cf2i r0 r1;cf2i r1 r0;",
      "nejmp 2 r0 r1;nejmp 3 r0 r1;call 2;call 3;",
      "ejmp 2 r0 r1;ejmp 3 r0 r1;ejmp 2 r1 r0;", "erjmp r0 r1 r0;erjmp r0 r1 r1;",
      "call 0;getac r1;getac r0;jmp 0;"}}

\* Programs that go wrong: of too many words, an unknown instruction, a label that is
\* too long, a reference to none, a recursion without end, a label before a lone
\* instruction, too many lines, a line too long, too many labels, and a line that is
\* taken for one.
Wrong ==
  {Chars(t) : t \in
     {"set r0\nret r1\n", "r0 r1\n", "call Lnext\nnext:\nret r0\n", "jmp Lf\n",
      "getac r1\n", "f:\nhalt\nset r0 2\nret r0\n",
      "halt;halt;halt;halt;halt;halt;halt;halt;halt;",
      "set r0 2 3 9 0\n", "f:\nhalt\nset r0 2 3 9\n", "f:;f:;f:;",
      "f:;halt;:;f:;"}}

\* Programs that branch: a recursion into more frames than there are, two labels of
\* one name, operands too many and of another kind, a jump on equal registers that
\* is taken and one that is not.
Branching ==
  {Chars(t) : t \in
     {"rec;f:;set r0 2;call Lf\n", "jmp Lf;f:;set r0 2;f:;ret r0\n",
      "call Lf r0;f:;set r0 2;ret r0\n",
      "set r1 2;nejmp Lf 9 r1;set r0 2;f:;ret r0\n",
      "ejmp Lf r0 r1;set r0 2;f:;ret r0\n",
      "set r1 2;ejmp Lf r0 r1;set r0 2;f:;ret r0\n"}}

Programs == DOMAIN Desired \cup Listed \cup Wrong \cup Branching

MCFiles == Short \cup Long \cup Programs

\* Half of the array, and all of it, may hold something.
Full           == [k \in DOMAIN Zeros |-> "x"]
MCStackGarbage == {Zeros, [Zeros EXCEPT ![0] = "x", ![1] = "x", ![2] = "x"], Full}

-----------------------------------------------------------------------------
Plain == <<"caasm", "src">>

MCCommandLines ==
  { Plain, <<"caasm">>, <<"caasm", "-d", "x">>, <<"caasm", "-d">>, <<"caasm", "-d", "y">>,
    <<"caasm", "-o", "x", "src">>, <<"caasm", "src", "-o", "x">>, <<"caasm", "src", "-o">>,
    <<"caasm", "src", "-o", "x", "-o", DefaultPath>>, <<"caasm", "src", "-o", "x", "-o">> }

\* The programs from before are longer than some of the new ones.
Ret    == Registers("I_RET", <<1>>)
Before == << SET(1, 2), Ret, HALT, HALT, HALT, HALT, HALT, HALT >>

MCEarlierFiles ==
  {NoFile, InstructionFile(Before, FALSE), InstructionFile(<<Ret>>, TRUE)}

\* The programs with a desired status meet every command line and every file from
\* before; all other texts the plain command line and no file, and only they a frame
\* without a terminator.
MCInit ==
  /\ Init
  /\ IF file \in DOMAIN Desired
     THEN word_buffer # Full
     ELSE argv = Plain /\ disk[DefaultPath] = NoFile

MCSpec == MCInit /\ [][Next]_vars /\ WF_vars(Step)

-----------------------------------------------------------------------------
\* A source is to have been assembled from this command line.
Assembles == Len(argv) > 1 /\ argv[2] = Source /\ "-d" \notin ToSet(argv)

\* No reference was taken for a value by parse_reg.
NothingMistaken == \A k \in DOMAIN assembled : assembled[k].dval \notin Garbage

\* The program of a source exits with the status it was written for, through
\* tokens, passes, encoding, file and machine, unless the environment fails or
\* parse_reg has taken a reference for a value ("make run", Makefile).
ExitsAsDesired ==
  stage = "exited" /\ ~fault /\ Assembles /\ file \in DOMAIN Desired
    /\ NothingMistaken
    => exit = Desired[file]

\* Liveness: whatever the source, the assembler ends (main_assemble).
AssemblerEnds == <>(stage \in {"load", "execute", "exited", "unknown"})

=============================================================================
