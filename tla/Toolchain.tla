------------------------------- MODULE Toolchain -------------------------------
(***************************************************************************)
(* From a source file to the exit status of its program: the assembler's   *)
(* main, which reads, tokenizes, assembles and writes an instruction file  *)
(* or lists one, and the machine's main, which loads the file and runs it  *)
(* when the assembler has reported success - "make run" of the Makefile.   *)
(*                                                                         *)
(* The tokenizer is extended; A is an instance of the two passes, VM one   *)
(* of the machine.  They work one after the other, each on what the one    *)
(* before it left; the assembler and the machine are processes that share  *)
(* nothing but the file system.  Opening a file for writing may fail, a    *)
(* write may be cut short by a full disk, and the assembler may be killed. *)
(* An access beyond an array ends a process, as it does in the builds of   *)
(* the Makefile, which check every one.                                    *)
(***************************************************************************)
EXTENDS Tokenizer, Encoding, CliArgs

CONSTANTS
  \* of the passes
  Register, Reference, Number, Garbage, PREFIX_SIZE, TK_SIZE, LABELS_SIZE, PROGRAM_SIZE,
  \* of the machine
  Radix, INT_REG_COUNT, FLT_REG_COUNT, FRAME_COUNT, STACK_SIZE, Logging,
  FloatArith(_, _, _), FloatCompare(_, _, _), ToFloat(_), FromFloat(_, _),
  \* of the whole
  WordSpelling,    \* word -> its characters, for the words that sources use
  Source,          \* path of the source
  CommandLines,    \* command lines of the assembler
  EarlierFiles     \* instruction files that may be there from before

DefaultPath == "./out.caic"

\* The paths that the assembler may write to.
Paths == {DefaultPath} \cup ({arg_find_value(a, "-o") : a \in CommandLines} \ {""})

\* An instruction file: whole instructions, and perhaps a part of another one.
InstructionFile(instructions, fragment) ==
  [exists |-> TRUE, instructions |-> instructions, fragment |-> fragment]
NoFile == [exists |-> FALSE, instructions |-> <<>>, fragment |-> FALSE]

\* No status of a process, which are bytes.
KILLED == -1

VARIABLES
  tokens, pass, i, tk, ic, lc, line_is_comment, labels, assembled,  \* A
  program, pc, status, iregisters, fregisters, accum_register, frames,
  frame_memory, stack_top, STACK, wrote,                            \* VM
  argv,        \* the assembler's command line
  stage,       \* what goes on: "main", "source", "passes", "list", "write",
               \* "load", "execute"; "exited"; "unknown" beyond this model
  disk,        \* path -> instruction file
  out_path,    \* where the assembler writes and the machine reads
  listing,     \* what the assembler has shown
  exit,        \* exit status, or KILLED
  fault        \* has the environment failed the assembler?

passesVars == <<tokens, pass, i, tk, ic, lc, line_is_comment, labels, assembled>>
machineVars == <<program, pc, status, iregisters, fregisters, accum_register, frames,
                 frame_memory, stack_top, STACK, wrote>>
processVars == <<argv, out_path>>
chainVars == <<stage, disk, listing, exit, fault>>
vars == <<tokenizerVars, passesVars, machineVars, processVars, chainVars>>

\* parse_reg has room for the characters of a word in a buffer of its prefix.
TooLong == {w \in DOMAIN WordSpelling : Len(WordSpelling[w]) > PREFIX_SIZE}

\* The operands that the passes allow each keyword.
Arity == [w \in DOMAIN WordSpelling \cap Keyword |-> get_instuction_count(is_keyword(w))]

FloatKeyword == {w \in DOMAIN Arity : is_float_instr(is_keyword(w))}

A  == INSTANCE Assembler WITH list <- tokens, program <- assembled, Sources <- {<<>>}
VM == INSTANCE SetMachine WITH Programs <- {<<>>}

\* A word of the sources is one the passes know, and a keyword starts with a
\* letter.  Numbers fit into a word, and so does the number of tokens.  A program
\* fits in memory with room for the counter to pass its end, and its addresses
\* are positive as ints.
ASSUME ToolchainAssumption ==
  /\ A!AssemblerAssumption /\ VM!MachineAssumption
  /\ DOMAIN WordSpelling \subseteq A!Text
  /\ \A w \in DOMAIN WordSpelling \cap Keyword : WordSpelling[w][1] \notin Digit
  /\ Garbage \cup {Number[w] : w \in DOMAIN Number} \subseteq VM!Word
  /\ TOKENS_BLOCK_SIZE \in VM!Word
  /\ PROGRAM_SIZE + 2 < VM!SIZE_MOD /\ PROGRAM_SIZE < VM!UINT_MOD \div 2
  /\ \A f \in EarlierFiles : VM!Loadable(f.instructions)

-----------------------------------------------------------------------------
Init ==
  /\ TokenizerInit
  /\ A!Init
  /\ VM!Init
  /\ argv \in CommandLines
  /\ stage = "main"
  /\ \E earlier \in EarlierFiles : disk = [p \in Paths |-> earlier]
  /\ out_path = DefaultPath
  /\ listing = <<>>
  /\ exit = 0
  /\ fault = FALSE

Exit(code) ==
  /\ stage' = "exited"
  /\ exit' = code

OutPath ==
  IF arg_find_value(argv, "-o") = "" THEN DefaultPath ELSE arg_find_value(argv, "-o")

\* main of the assembler up to the reading of a file: the number of arguments,
\* the choice between listing and assembling, the path of the result, and the
\* source, which is always the first argument.
Main ==
  /\ stage = "main"
  /\ out_path' = OutPath
  /\ CASE Len(argv) < 2           -> Exit(-1 % Radix)
       [] arg_find(argv, "-d") # 0 -> stage' = "list" /\ UNCHANGED exit
       [] OTHER -> IF argv[2] = Source THEN stage' = "source" /\ UNCHANGED exit
                                       ELSE Exit(-1 % Radix)
  /\ UNCHANGED <<tokenizerVars, passesVars, machineVars, argv, disk, listing, fault>>

Tokenize ==
  /\ stage = "source"
  /\ TokenizerStep
  /\ UNCHANGED <<passesVars, machineVars, processVars, chainVars>>

-----------------------------------------------------------------------------
\* The words of the tokens.  What the passes make of a text that the frames of
\* token_next have spoilt is beyond this model.
Named(chars) == \E w \in DOMAIN WordSpelling : WordSpelling[w] = chars

HasText(t) == t.type \in {"WORD", "NUMBER"}

Readable == \A k \in DOMAIN list : HasText(list[k]) => Named(list[k].literall)

\* The tokens as the passes see them: they tell words, numbers, colons, hashes
\* and line ends apart.
PassToken(t) ==
  IF HasText(t)
  THEN [t EXCEPT !.literall = CHOOSE w \in DOMAIN WordSpelling :
                                WordSpelling[w] = t.literall]
  ELSE [type |-> IF t.type \in {"COLON", "HASH", "EXPRESSION_END"} THEN t.type
                                                                   ELSE "SYMBOL",
        literall |-> ""]

StartPasses ==
  /\ stage = "source"
  /\ phase = "done"
  /\ IF Readable
     THEN /\ stage' = "passes"
          /\ tokens' = [k \in DOMAIN list |-> PassToken(list[k])]
     ELSE /\ stage' = "unknown"
          /\ UNCHANGED tokens
  /\ UNCHANGED <<tokenizerVars, pass, i, tk, ic, lc, line_is_comment, labels,
                 assembled, machineVars, processVars, disk, listing, exit, fault>>

Assemble ==
  /\ stage = "passes"
  /\ UNCHANGED <<tokenizerVars, machineVars, processVars, chainVars>>
  /\ A!Step

\* An assertion of the assembler, or an access beyond one of its arrays.
AssemblerDies ==
  /\ \/ stage = "source" /\ phase \in {"aborted", "undefined"}
     \/ stage = "passes" /\ pass \in {"aborted", "undefined"}
  /\ Exit(KILLED)
  /\ UNCHANGED <<tokenizerVars, passesVars, machineVars, processVars, disk, listing,
                 fault>>

-----------------------------------------------------------------------------
\* The instruction of an assembled line.  The value of a float keyword is converted:
\* a label that fset looks up is none, and leaves it zero.
InstructionOf(line) ==
  assemble(is_keyword(line.op), line.regs, ToFloat(line.dval), line.dval)

Encoded == [k \in DOMAIN assembled |-> InstructionOf(assembled[k])]

\* main_assemble lists the program before it writes it.
ShowProgram ==
  /\ stage = "passes"
  /\ pass = "done"
  /\ listing' = [k \in DOMAIN Encoded |-> Shown(Encoded[k])]
  /\ stage' = "write"
  /\ UNCHANGED <<tokenizerVars, passesVars, machineVars, processVars, disk, exit, fault>>

\* Mistake: the file is opened for update, what it had beyond stays.
Overwritten(instructions, fragment) ==
  LET before == disk[out_path].instructions
  IN  InstructionFile([k \in 1 .. (IF Len(before) > Len(instructions)
                                   THEN Len(before) ELSE Len(instructions)) |->
                         IF k <= Len(instructions) THEN instructions[k] ELSE before[k]],
                      fragment)

\* fopen empties the file.
Rewritten(instructions, fragment) == InstructionFile(instructions, fragment)

Cut(n, fragment) ==
  disk' = [disk EXCEPT ![out_path] = Rewritten(SubSeq(Encoded, 1, n), fragment)]

\* write_to_file: the assembler reports what it meant to write, whatever fwrite
\* and fopen say, and exits with 0.
WriteFile ==
  /\ stage = "write"
  /\ Cut(Len(Encoded), FALSE)
  /\ stage' = "load"
  /\ UNCHANGED <<tokenizerVars, passesVars, machineVars, processVars, listing, exit,
                 fault>>

WriteFails ==
  /\ stage = "write"
  /\ \/ UNCHANGED disk
     \/ \E n \in 0 .. Len(Encoded) - 1, fragment \in BOOLEAN : Cut(n, fragment)
  /\ fault' = TRUE
  /\ stage' = "load"
  /\ UNCHANGED <<tokenizerVars, passesVars, machineVars, processVars, listing, exit>>

\* The assembler is killed while it writes.  "make" stops there, but the machine may
\* be started on what is left.
KilledWriting ==
  /\ stage = "write"
  /\ \E n \in 0 .. Len(Encoded), fragment \in BOOLEAN :
       (n = Len(Encoded) => ~fragment) /\ Cut(n, fragment)
  /\ fault' = TRUE
  /\ exit' = KILLED
  /\ stage' \in {"exited", "load"}
  /\ UNCHANGED <<tokenizerVars, passesVars, machineVars, processVars, listing>>

-----------------------------------------------------------------------------
\* Mistake: a part of an instruction at the end of the file counts.
LoadedRoundedUp(f) ==
  IF f.fragment THEN Append(f.instructions, [HALT EXCEPT !.op = "UNSUPPORTED"])
                ELSE f.instructions

\* load_from_file: whole instructions only; none at all if there is no file or
\* nothing in it.
Loaded(f) == f.instructions

\* main_disassemble, and the exit status of main, which ignores its result.
List ==
  /\ stage = "list"
  /\ LET path  == arg_find_value(argv, "-d")
         shown == IF path \in DOMAIN disk THEN Loaded(disk[path]) ELSE <<>>
     IN  listing' = [k \in DOMAIN shown |-> Shown(shown[k])]
  /\ Exit(0)
  /\ UNCHANGED <<tokenizerVars, passesVars, machineVars, processVars, disk, fault>>

\* main of the machine.
Load ==
  /\ stage = "load"
  /\ program' = Loaded(disk[out_path])
  /\ stage' = "execute"
  /\ UNCHANGED <<tokenizerVars, passesVars, pc, status, iregisters, fregisters,
                 accum_register, frames, frame_memory, stack_top, STACK, wrote,
                 processVars, disk, listing, exit, fault>>

Execute ==
  /\ stage = "execute"
  /\ VM!Step
  /\ UNCHANGED <<tokenizerVars, passesVars, processVars, chainVars>>

\* The exit status is one byte of the accumulator.
ExecuteDone ==
  /\ stage = "execute"
  /\ ~VM!Executing
  /\ Exit(IF status \in {"running", "halted"} THEN accum_register % Radix ELSE KILLED)
  /\ UNCHANGED <<tokenizerVars, passesVars, machineVars, processVars, disk, listing,
                 fault>>

Step ==
  \/ Main \/ Tokenize \/ StartPasses \/ Assemble \/ AssemblerDies
  \/ ShowProgram \/ WriteFile \/ WriteFails \/ KilledWriting
  \/ List \/ Load \/ Execute \/ ExecuteDone

Ended == stage \in {"exited", "unknown"}

Next == Step \/ (Ended /\ UNCHANGED vars)

\* Each process runs on as long as it can.
Spec == Init /\ [][Next]_vars /\ WF_vars(Step)

-----------------------------------------------------------------------------
(***************************************************************************)
(* Correctness.                                                            *)
(***************************************************************************)
Stage == {"main", "source", "passes", "list", "write", "load", "execute", "exited",
          "unknown"}

TypeOK ==
  /\ TokenizerTypeOK /\ A!TypeOK /\ VM!TypeOK
  /\ argv \in CommandLines
  /\ stage \in Stage
  /\ out_path \in Paths /\ DOMAIN disk = Paths
  /\ \A p \in Paths : VM!Loadable(disk[p].instructions)

\* In the end the text is that of the file, of which only what follows a byte 255 and
\* the NULs are lost (main_assemble).  And the tokens spell it, although token_next
\* ends no word: always when its frames are fresh; when they are reused, as long as
\* the words grow (tokenizer.c).
TokensSpellText ==
  stage = "source" /\ phase = "done" =>
    /\ FileRead
    /\ fresh \/ WordsGrow => ListSpellsText

\* The machine runs the program of this source: all of it, or if writing it
\* failed a beginning of it, or the whole of what was there before, but never
\* some of each and never a part of an instruction (write_to_file,
\* load_from_file).
RunsOneProgram ==
  stage = "execute" =>
    \/ program = Encoded
    \/ fault /\ program \in {f.instructions : f \in EarlierFiles}
    \/ fault /\ \E n \in 0 .. Len(Encoded) : program = SubSeq(Encoded, 1, n)

\* The keywords of instructions that go to the address in their storage.
ConditionalJumps == {"ejmp", "nejmp"}
Branches         == {"call", "jmp"} \cup ConditionalJumps

\* An action property: a call, or a jump that is taken, whose line names a label
\* arrives at the first instruction below the label in the source, unless
\* parse_reg has taken the reference for a value or there is no frame for a call
\* (index_labels, assemble_line, assemble, execute_op).
BranchesReachLabels ==
  [][stage = "execute" /\ VM!Executing /\ status' # "undefined" /\ ~fault /\ A!WellSpaced =>
     \A s \in A!InstructionStarts, d \in A!LabelStarts :
       /\ A!Above(s) = pc
       /\ tokens[s].literall \in Branches
       /\ A!RefersTo(s, tokens[d].literall) /\ A!FirstOfName(d)
       /\ assembled[pc + 1].dval \notin Garbage
       /\ tokens[s].literall \in ConditionalJumps => pc' # pc + 1
       => pc' = A!Above(d)]_vars

\* The keywords whose macro makes an instruction of another name.
OtherMacro == {"getac", "rjmp", "erjmp", "nerjmp"}

\* The listing that the assembler shows before it writes tells different
\* instructions apart: it leaves out no operand that the machine would use, those
\* of the four macros aside (print_instruction_asm).
ListingTellsApart ==
  \A j, k \in DOMAIN listing :
    stage = "write" /\ listing[j] = listing[k] =>
      \/ Encoded[j] = Encoded[k]
      \/ assembled[j].op \in OtherMacro \/ assembled[k].op \in OtherMacro

\* Nothing is written or read beyond an array on behalf of a source that is within the
\* limits of the tokenizer's arrays and of the passes' (tokenizer.c,
\* basic_assembler.c).
SmallSourcesDefined ==
  /\ phase = "undefined" => ~FitsBuffers
  /\ pass = "undefined" => ~A!FitsArrays

=============================================================================
