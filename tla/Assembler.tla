------------------------------- MODULE Assembler -------------------------------
(***************************************************************************)
(* The two passes of the assembler, src/assembler/basic_assembler.c.       *)
(*                                                                         *)
(* index_labels walks over the tokens of the source and notes the address  *)
(* of every label; assemble_program walks over them again and assembles    *)
(* the lines.  Both gather the tokens of a line in a buffer tk of which    *)
(* the first ic are the line's - the rest is what earlier lines left, and  *)
(* both passes look at tk[1] whatever ic is.                               *)
(*                                                                         *)
(* Texts of words and numbers are values of the constants, which say what  *)
(* is_keyword, get_instuction_count, is_float_instr and parse_reg make of  *)
(* them.                                                                   *)
(***************************************************************************)
EXTENDS Integers, Sequences, FiniteSets

CONSTANTS
  Sources,          \* token lists that may be assembled
  Arity,            \* keyword -> operands that get_instuction_count allows it
  FloatKeyword,     \* keywords of is_float_instr: their value is a float
  Register,         \* operand word -> number of the register it names
  Reference,        \* operand word -> label it refers to (the word without L)
  Number,           \* number -> its value
  TooLong,          \* words that do not fit into the buffer prefix of parse_reg
  Garbage,          \* what an uninitialised uint may hold
  TK_SIZE,          \* tokens of a line
  LABELS_SIZE,      \* labels of a source
  PROGRAM_SIZE      \* instructions of a program

Text == DOMAIN Arity \cup DOMAIN Register \cup DOMAIN Reference \cup DOMAIN Number
        \cup {Reference[w] : w \in DOMAIN Reference}

\* A number starts with a digit, and no keyword does.
Token == [type : {"WORD"}, literall : Text]
         \cup [type : {"NUMBER"}, literall : Text \ DOMAIN Arity]
         \cup [type : {"COLON", "HASH", "EXPRESSION_END", "SYMBOL"}, literall : {""}]

\* Token tk[32] = {0}: neither a word nor a colon.
NoToken == [type |-> "PLUS", literall |-> ""]

ASSUME AssemblerAssumption ==
  /\ TK_SIZE \in Nat /\ TK_SIZE >= 2
  /\ LABELS_SIZE \in Nat /\ PROGRAM_SIZE \in Nat
  /\ \A w \in DOMAIN Arity : Arity[w] \in 0 .. 3
  /\ "" \notin DOMAIN Arity
  /\ DOMAIN Reference \cap (DOMAIN Number \cup DOMAIN Register) = {}
  /\ \A w \in DOMAIN Register : Register[w] \in Nat
  /\ \A w \in DOMAIN Number : Number[w] \in Nat
  /\ Garbage \subseteq Nat /\ Garbage # {}
  /\ \A s \in Sources : s \in Seq(Token)

VARIABLES
  list,             \* the tokens of the source
  pass,             \* "index", "assemble", "done"; "aborted" by an assertion;
                    \* "undefined" past the end of an array
  i,                \* index of the next token, from 1
  tk,               \* the line buffer
  ic,               \* tokens of the line so far
  lc,               \* lines of instructions so far
  line_is_comment,
  labels,           \* the table of index_labels
  program           \* the output of assemble_program

vars == <<list, pass, i, tk, ic, lc, line_is_comment, labels, program>>

-----------------------------------------------------------------------------
Init ==
  /\ list \in Sources
  /\ pass = "index"
  /\ i = 1
  /\ tk = [s \in 0 .. TK_SIZE - 1 |-> NoToken]
  /\ ic = 0
  /\ lc = 0
  /\ line_is_comment = FALSE
  /\ labels = <<>>
  /\ program = <<>>

Walking == pass \in {"index", "assemble"} /\ i <= Len(list)

Type == list[i].type

\* Comments, the same in both passes: a hash starts one, the tokens up to the
\* end of the line are skipped.  The end itself ends the comment and the line.
Comment ==
  /\ Walking
  /\ IF line_is_comment THEN Type # "EXPRESSION_END" ELSE Type = "HASH"
  /\ line_is_comment' = TRUE
  /\ i' = i + 1
  /\ UNCHANGED <<list, pass, tk, ic, lc, labels, program>>

\* Any other token of a line goes to the buffer.
Collect ==
  /\ Walking
  /\ ~line_is_comment
  /\ Type \notin {"HASH", "EXPRESSION_END"}
  /\ IF ic < TK_SIZE
     THEN /\ tk' = [tk EXCEPT ![ic] = list[i]]
          /\ ic' = ic + 1
          /\ i' = i + 1
          /\ UNCHANGED pass
     ELSE /\ pass' = "undefined"
          /\ UNCHANGED <<tk, ic, i>>
  /\ UNCHANGED <<list, lc, line_is_comment, labels, program>>

\* The common guard of the ends of lines, and what the passes look at.
LineEnd(p) == pass = p /\ i <= Len(list) /\ Type = "EXPRESSION_END"

SecondIsColon == tk[1].type = "COLON"

\* Mistake: the colon alone makes a label line.
ColonSecond == SecondIsColon /\ ic # 0

LooksLikeLabel == tk[0].type = "WORD" /\ SecondIsColon /\ ic # 0

-----------------------------------------------------------------------------
(***************************************************************************)
(* index_labels.                                                           *)
(***************************************************************************)

\* A line of one token on which tk[1] is still the colon of an earlier label:
\* the pass skips the line end altogether, and the next line goes on where this
\* one stopped.
IndexOneToken ==
  /\ LineEnd("index")
  /\ LooksLikeLabel
  /\ ic = 1
  /\ line_is_comment' = FALSE
  /\ i' = i + 1
  /\ UNCHANGED <<list, pass, tk, ic, lc, labels, program>>

\* The reset of the line buffer comes after ic = 0 and resets nothing.
IndexLabel ==
  /\ LineEnd("index")
  /\ LooksLikeLabel
  /\ ic # 1
  /\ line_is_comment' = FALSE
  /\ IF Len(labels) < LABELS_SIZE
     THEN /\ labels' = Append(labels, [name |-> tk[0].literall, address |-> lc])
          /\ ic' = 0
          /\ i' = i + 1
          /\ UNCHANGED pass
     ELSE /\ pass' = "undefined"
          /\ UNCHANGED <<labels, ic, i>>
  /\ UNCHANGED <<list, tk, lc, program>>

\* Mistake: blank lines and comments are counted.
LineCountedAlways == lc + 1

LineCounted == IF ic # 0 /\ ~SecondIsColon THEN lc + 1 ELSE lc

IndexLine ==
  /\ LineEnd("index")
  /\ ~LooksLikeLabel
  /\ line_is_comment' = FALSE
  /\ lc' = LineCounted
  /\ ic' = 0
  /\ i' = i + 1
  /\ UNCHANGED <<list, pass, tk, labels, program>>

\* Mistake: the second pass goes on counting.
CountKept == lc

\* The number of instructions before the second pass.
FirstCount == 0

\* main_assemble goes on to the second pass, whose locals are fresh.
IndexDone ==
  /\ pass = "index"
  /\ i > Len(list)
  /\ pass' = "assemble"
  /\ i' = 1
  /\ tk' = [s \in 0 .. TK_SIZE - 1 |-> NoToken]
  /\ ic' = 0
  /\ lc' = FirstCount
  /\ line_is_comment' = FALSE
  /\ UNCHANGED <<list, labels, program>>

-----------------------------------------------------------------------------
(***************************************************************************)
(* assemble_line, on the ic tokens of the line.                            *)
(***************************************************************************)
Op == tk[0].literall

Operand(t) == tk[t].literall

\* Operands are only looked at when there are as many as the keyword takes; the
\* message about it stops nothing.
Operands == IF Op \in DOMAIN Arity /\ ic = Arity[Op] + 1 THEN 1 .. ic - 1 ELSE {}

Found(name) == \E k \in DOMAIN labels : labels[k].name = name

\* Mistake: the last of that name.
AddressOfLast(name) ==
  LET last == CHOOSE k \in DOMAIN labels :
                /\ labels[k].name = name
                /\ \A j \in k + 1 .. Len(labels) : labels[j].name # name
  IN  labels[last].address

\* find_label: the first of that name.
AddressOf(name) ==
  LET first == CHOOSE k \in DOMAIN labels :
                 /\ labels[k].name = name
                 /\ \A j \in 1 .. k - 1 : labels[j].name # name
  IN  labels[first].address

\* What an operand which is not a register may set the value to.  For a reference
\* parse_reg leaves is_value uninitialised: if it happens to be set, the value is
\* whatever the union holds, and no label is looked up.
OperandValues(w) ==
  CASE w \in DOMAIN Number    -> {Number[w]}
    [] w \in DOMAIN Reference -> Garbage \cup (IF Op \notin FloatKeyword /\ Found(Reference[w])
                                               THEN {AddressOf(Reference[w])} ELSE {})
    [] OTHER                  -> Garbage

\* Such an operand may leave the value as it was: the address of a label is not given
\* to a float, and a word that is nothing parse_reg knows may be taken for one.
LeavesValue(w) ==
  IF Op \in FloatKeyword THEN w \in DOMAIN Reference /\ Found(Reference[w])
                        ELSE w \notin DOMAIN Number \cup DOMAIN Reference

Registers == {t \in Operands : Operand(t) \in DOMAIN Register}

\* The value that assemble is given, for a float keyword before its conversion: what
\* the last operand that sets it makes of it, or zero.
Values ==
  LET others  == Operands \ Registers
      Last(t) == \A u \in others : u > t => LeavesValue(Operand(u))
  IN  {zero \in {0} : Last(0)}
      \cup UNION {OperandValues(Operand(t)) : t \in {u \in others : Last(u)}}

\* The arguments that assemble is given.
Assembled(value) ==
  [op   |-> Op,
   regs |-> [t \in 1 .. 3 |-> IF t \in Registers THEN Register[Operand(t)] ELSE 0],
   dval |-> value]

\* A line that starts with no keyword fails an assertion of assemble_line; an
\* operand that is a colon has no text, and parse_reg dereferences NULL.
Crashes ==
  \/ Op \notin DOMAIN Arity
  \/ \E t \in Operands : tk[t].type \notin {"WORD", "NUMBER"}

\* parse_reg copies an operand of any length to its buffer, and program is never
\* grown.
Overruns ==
  \/ \E t \in Operands :
       /\ Operand(t) \in TooLong
       /\ \A u \in Operands : u < t => tk[u].type \in {"WORD", "NUMBER"}
  \/ ~Crashes /\ lc >= PROGRAM_SIZE

\* A reference to no label fails an assertion too, if the label is looked up.
Dangling ==
  \E t \in Operands \ Registers :
    Operand(t) \in DOMAIN Reference /\ ~Found(Reference[Operand(t)])

-----------------------------------------------------------------------------
(***************************************************************************)
(* assemble_program.                                                       *)
(***************************************************************************)

\* Mistake: the next line goes on where the label stopped.
TokensKept == ic

TokensAfterLabel == 0

\* What looks like a label is passed over, and stays in the buffer.
SkipLabel ==
  /\ LineEnd("assemble")
  /\ LooksLikeLabel
  /\ line_is_comment' = FALSE
  /\ ic' = TokensAfterLabel
  /\ i' = i + 1
  /\ UNCHANGED <<list, pass, tk, lc, labels, program>>

\* The tokens of an assembled line are cleared.
ClearedLine == [s \in 0 .. TK_SIZE - 1 |-> IF s < ic THEN NoToken ELSE tk[s]]

AssembleLine ==
  /\ LineEnd("assemble")
  /\ ~LooksLikeLabel
  /\ ic # 0
  /\ ~Crashes /\ ~Overruns
  /\ line_is_comment' = FALSE
  /\ \E value \in Values : program' = Append(program, Assembled(value))
  /\ lc' = lc + 1
  /\ tk' = ClearedLine
  /\ ic' = 0
  /\ i' = i + 1
  /\ UNCHANGED <<list, pass, labels>>

AssembleAborts ==
  /\ LineEnd("assemble")
  /\ ~LooksLikeLabel
  /\ ic # 0
  /\ Crashes \/ Dangling
  /\ pass' = "aborted"
  /\ UNCHANGED <<list, i, tk, ic, lc, line_is_comment, labels, program>>

AssembleOverruns ==
  /\ LineEnd("assemble")
  /\ ~LooksLikeLabel
  /\ ic # 0
  /\ Overruns
  /\ pass' = "undefined"
  /\ UNCHANGED <<list, i, tk, ic, lc, line_is_comment, labels, program>>

SkipEmptyLine ==
  /\ LineEnd("assemble")
  /\ ic = 0
  /\ line_is_comment' = FALSE
  /\ i' = i + 1
  /\ UNCHANGED <<list, pass, tk, ic, lc, labels, program>>

AssembleDone ==
  /\ pass = "assemble"
  /\ i > Len(list)
  /\ pass' = "done"
  /\ UNCHANGED <<list, i, tk, ic, lc, line_is_comment, labels, program>>

Step ==
  \/ Comment \/ Collect
  \/ IndexOneToken \/ IndexLabel \/ IndexLine \/ IndexDone
  \/ SkipLabel \/ AssembleLine \/ AssembleAborts \/ AssembleOverruns
  \/ SkipEmptyLine \/ AssembleDone

Ended == pass \in {"done", "aborted", "undefined"}

Finished == Ended /\ UNCHANGED vars

Next == Step \/ Finished

Spec == Init /\ [][Next]_vars /\ WF_vars(Step)

-----------------------------------------------------------------------------
(***************************************************************************)
(* Correctness.                                                            *)
(***************************************************************************)

\* What an instruction may hold: a number of the source, an address, or what
\* parse_reg has found in the place of one.
Immediate ==
  {0} \cup {Number[w] : w \in DOMAIN Number} \cup Garbage \cup 0 .. Len(list)

TypeOK ==
  /\ list \in Seq(Token)
  /\ pass \in {"index", "assemble", "done", "aborted", "undefined"}
  /\ i \in 1 .. Len(list) + 1
  /\ tk \in [0 .. TK_SIZE - 1 -> Token \cup {NoToken}]
  /\ ic \in 0 .. TK_SIZE
  /\ lc \in 0 .. Len(list)
  /\ line_is_comment \in BOOLEAN
  /\ labels \in Seq([name : Text, address : 0 .. Len(list)])
  /\ Len(labels) <= LABELS_SIZE
  /\ program \in Seq([op : DOMAIN Arity, regs : [1 .. 3 -> Nat], dval : Immediate])
  /\ Len(program) <= PROGRAM_SIZE
  /\ pass \in {"assemble", "done"} => lc = Len(program)

\* The lines of the source that are to become instructions, and those that
\* define labels, by their first tokens.
LineStarts ==
  {s \in DOMAIN list :
     /\ s = 1 \/ list[s - 1].type = "EXPRESSION_END"
     /\ \E e \in s .. Len(list) : list[e].type = "EXPRESSION_END"}

LabelStarts ==
  {s \in LineStarts : list[s].type = "WORD" /\ list[s + 1].type = "COLON"}

InstructionStarts ==
  {s \in LineStarts : list[s].type \notin {"HASH", "EXPRESSION_END"}} \ LabelStarts

\* The number of instructions above a line.
Above(s) == Cardinality({t \in InstructionStarts : t < s})

\* Every instruction of the source is assembled, in order and at its place
\* (README, "iterates over instructions and assembles them").
EveryLineAssembled ==
  pass = "done" =>
    /\ Len(program) = Cardinality(InstructionStarts)
    /\ \A s \in InstructionStarts : program[Above(s) + 1].op = list[s].literall

\* Whatever the text, the program is the instructions of the source in their
\* order without some of those that are a single word: no line is assembled
\* twice, and a line with an operand is never lost.
OnlyLoneWordsLost ==
  pass = "done" =>
    \E kept \in SUBSET InstructionStarts :
      /\ Cardinality(kept) = Len(program)
      /\ \A s \in kept :
           program[Cardinality({t \in kept : t < s}) + 1].op = list[s].literall
      /\ \A s \in InstructionStarts \ kept :
           list[s + 1].type \in {"HASH", "EXPRESSION_END"}

\* The first pass has found all labels, each with the address of the first
\* instruction below it (README, "finds all labels").
EveryLabelFound ==
  pass = "done" =>
    /\ Len(labels) = Cardinality(LabelStarts)
    /\ \A s \in LabelStarts :
         [name |-> list[s].literall, address |-> Above(s)] \in
           {labels[k] : k \in DOMAIN labels}

\* An action property: where the second pass meets a label it has assembled just as many
\* instructions as the first pass had counted there.
PassesAgree ==
  SkipLabel /\ ic # 1
    => [name |-> tk[0].literall, address |-> lc] \in
         {labels[k] : k \in DOMAIN labels}

\* No instruction of one word comes next to a label: blank lines and comments
\* may stand between them.
WellSpaced ==
  \A s \in LabelStarts, t \in InstructionStarts :
    t > s /\ Above(s) = Above(t) => list[t + 1].type \notin {"HASH", "EXPRESSION_END"}

\* In a source in which no instruction of one word comes next to a label, whatever
\* stale tokens index_labels looks at, it gives each label the address of the
\* instruction below.
WellSpacedIndexed == WellSpaced => EveryLabelFound

\* The line has one token, if need be before a comment.
Lone(s) == list[s + 1].type \in {"HASH", "EXPRESSION_END"}

\* The instructions of one word that come next to a label.
NextToLabel ==
  {s \in InstructionStarts :
     Lone(s) /\ \E d \in LabelStarts : d < s /\ Above(d) = Above(s)}

\* There may be such instructions, but below each of them a longer one comes before the
\* next label and before the next instruction of one word.
HardlySpaced ==
  \A s \in NextToLabel, t \in LabelStarts \cup {u \in InstructionStarts : Lone(u)} :
    s < t => \E m \in InstructionStarts : s < m /\ m < t /\ ~Lone(m)

\* The other instructions.
KeptLines == InstructionStarts \ NextToLabel

\* Of such a source just these are lost, since assemble_program takes them for labels:
\* all other lines are assembled, in order.
HardlySpacedAssembled ==
  pass = "done" /\ HardlySpaced =>
    /\ Len(program) = Cardinality(KeptLines)
    /\ \A s \in KeptLines :
         program[Cardinality({t \in KeptLines : t < s}) + 1].op = list[s].literall

\* And the passes agree on the addresses of its labels, although index_labels, too, takes
\* them for labels and reads the next line as the rest of the word.
HardlySpacedPassesAgree == [][PassesAgree \/ ~HardlySpaced]_vars

\* The operands of a line.
OperandsOf(s) ==
  {k \in s + 1 .. Len(list) :
     \A j \in s + 1 .. k : list[j].type \notin {"HASH", "EXPRESSION_END"}}

\* A line with as many operands as its keyword takes, of which the first refers to a
\* label of that name and the others are registers; the keyword takes no float.
RefersTo(s, name) ==
  /\ list[s].literall \in DOMAIN Arity \ FloatKeyword
  /\ OperandsOf(s) = s + 1 .. s + Arity[list[s].literall]
  /\ s + 1 \in OperandsOf(s)
  /\ \A k \in OperandsOf(s) :
       IF k = s + 1
       THEN list[k].literall \in DOMAIN Reference /\ Reference[list[k].literall] = name
       ELSE list[k].literall \in DOMAIN Register

\* No label above has the same name.
FirstOfName(d) == \A e \in LabelStarts : list[e].literall = list[d].literall => d <= e

\* In such a source a reference has, through both passes, the address of the first
\* instruction below the label, of the first label if several have its name -
\* unless it was taken for a value (find_label, parse_reg).
WellSpacedResolved ==
  pass = "done" /\ WellSpaced =>
    \A s \in InstructionStarts, d \in LabelStarts :
      RefersTo(s, list[d].literall) /\ FirstOfName(d)
        => program[Above(s) + 1].dval \in Garbage \cup {Above(d)}

\* The lines that start with a colon: behind a word that the line above has left over
\* it looks like a label to index_labels.
ColonStarts == {s \in LineStarts : list[s].type = "COLON"}

\* The source is within the limits of the arrays: of lines that leave a token of tk
\* free - one may be left over from the line above -, of labels and instructions for
\* which there is room, and of operands that fit into prefix.
FitsArrays ==
  /\ \A s \in 1 .. Len(list) - TK_SIZE + 1 :
       \E e \in s .. s + TK_SIZE - 1 : list[e].type = "EXPRESSION_END"
  /\ Cardinality(LabelStarts \cup ColonStarts) <= LABELS_SIZE
  /\ Cardinality(InstructionStarts) <= PROGRAM_SIZE
  /\ \A k \in DOMAIN list :
       list[k].literall \in TooLong => k = 1 \/ list[k - 1].type = "EXPRESSION_END"

\* On behalf of such a source the passes write to no place beyond an array
\* (index_labels, assemble_program, parse_reg).
FittingSourcesDefined == pass = "undefined" => ~FitsArrays

\* A jump or call to a label has the label's address.
ReferencesResolved ==
  pass = "done" =>
    \A s \in InstructionStarts, d \in LabelStarts :
      /\ list[s].literall \in DOMAIN Arity /\ Arity[list[s].literall] = 1
      /\ list[s + 1].literall \in DOMAIN Reference
      /\ Reference[list[s + 1].literall] = list[d].literall
      => program[Above(s) + 1].dval = Above(d)

=============================================================================
