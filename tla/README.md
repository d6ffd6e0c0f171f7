# C-at in TLA+

A verification development of the C-at virtual machine ("SETVM"), its native
tests, its assembler from the characters of a source to the instruction file, and
its string library. TLC checks the modules on small instances; TLAPS proves most of
what the runs check for every program, source, heap and list of tests and for every
size of memory and arrays. See "Proofs" for what is proved and what is not.
Line numbers refer to the files of the repository.

## The system

| part | code | state it keeps | operations |
|---|---|---|---|
| virtual machine | `src/vm/set.c`, `src/vm/set.h` | program counter, two register files, accumulator, byte stack with its top, array of call frames, running flag | one instruction at a time: `execute_op`, called in a loop by `execute_program` |
| machine front end | `src/vm/vm.c` | none | loads a file, runs the machine, returns the accumulator as exit status |
| instruction macros | `src/vm/set.h:305-635` | none | build instructions; used by the native tests and by the assembler's encoder |
| native tests | `src/testing/test_list.c` | seven programs, the result each desires | |
| test runner | `src/testing/tester.c` | counters of the verdict | runs the list in one process |
| assembler passes | `src/assembler/basic_assembler.c:599-734` | label table, line buffer, program | `index_labels`, then `assemble_program` |
| encoder | `basic_assembler.c:24-486` | none | `is_keyword`, `get_instuction_count`, `assemble` |
| assembler front end | `basic_assembler.c:736-913` | source buffer, path of the result | `main`, `main_assemble`, `main_disassemble` |
| tokenizer | `src/tokenizer.c` | position in the buffer, token list, an array in the frame of `token_next` | `token_next`, `tokens_list_append` |
| instruction files and listing | `src/assembler/disassembler.c` | `.caic` files | `write_to_file`, `load_from_file`, `print_instruction_asm` |
| command line | `lib/cliargs.h` | none | `arg_find`, `arg_find_value` |
| strings | `lib/str.h`, copied to `src/str.h` | blocks of the heap, a pointer and a length per string | creation, copies, appends, `str_reverse`, `str_clear`, searches |
| messages | `format.c` | none | coloured output |

How they interact. `make run` starts the assembler and, if that exits with 0, the
machine. The assembler reads the source into a buffer, makes a token list of it,
takes the list through two passes, lists the program and writes it to a file. The
machine, another process, loads the file. The file is all they share.
The tester calls the machine directly, once per test program: each test has a
`Machine` of its own, but `D_REGISTERS`, `F_REGISTERS` and `STACK` are globals of
`set.c` that all machines of a process share.

There are no threads, callbacks or messages in this code. What makes it hard is
state that outlives its use (line buffers, frame slots, stack frames of C, shared
registers, files from before), arithmetic at the edges of fixed-width integers, a
return address stored off by one, bounds nobody checks, uninitialised fields,
writes that fail or stop midway and go unnoticed, four lists of the instruction
set that have to agree, blocks that move, and programs that may do anything: the machine's "environment" is the program it is
given, so the runs quantify over programs.

What makes each component correct:

- *machine*: calls nest and a return resumes after its call; the data stack is a
  stack of words, and a memory at the same time; results are those of 32-bit
  words; a program with a reason to end ends.
- *tests and runner*: each test returns what it desires alone, and after any
  other test; the verdict is the score's.
- *assembler*: every instruction line becomes an instruction, in order; both
  passes agree on where labels are; a reference gets the address of its label.
- *tokenizer*: the tokens spell the text, and no array is exceeded for a source
  within the limits.
- *encoder, files, front end*: the program that runs is the one that was written;
  with a failing disk it is a beginning of it or the one from before, never a mixture.
- *strings*: each string owns its block, and an operation on one leaves the others
  as they are.

## Modules

| module | what it is |
|---|---|
| `SetMachine` | the machine. One action per kind of instruction of `execute_op`, grouped where cases differ only in the operator (`ComputeWord` has all cases that compute a word from registers) |
| `CallStack` | abstract: open calls are a sequence of return addresses |
| `OperandStack` | abstract: the data stack is a sequence of words, and pokes into it |
| `SetMachineRefinement` | the two refinement mappings: `ReturnAddresses` reads the frames, `StackedWords` the bytes |
| `SetMacros` | the macros of `set.h` |
| `NativeTests` | `test_list.c`, program by program |
| `Tester` | `run_native_tests` around the machine, registers and stack shared |
| `SetComments` | what comments of `set.h` say of instructions that do something else |
| `Assembler` | both passes over a token list, `assemble_line`, `find_label`, `parse_reg` |
| `Tokenizer` | the reading loop and the token loop of `main_assemble`, `token_next` |
| `Encoding` | keywords, opcodes, operand counts, `assemble`, and what the listing shows |
| `CliArgs` | the searches of `cliargs.h` |
| `Toolchain` | both `main` functions around all of these: `make run` |
| `Strings` | the string library on a heap |
| `StringValues` | abstract: each string is a sequence of characters of its own |
| `StringsRefinement` | the refinement mapping: a string is read through its pointer |
| `WordPrograms` | straight programs over two words or three addresses that compute something in two ways, and what they are to return |
| `SetMachineProofs`, `CallStackProofs`, `OperandStackProofs`, `WordProgramsProofs`, `TesterProofs`, `AssemblerProofs`, `ToolchainProofs`, `StringsProofs` | theorems, see "Proofs" |
| `MCFloats` | a small float format for the constants of `SetMachine` |
| `MCSetMachine`, `MCForward`, `MCTester`, `MCSetComments`, `MCAssembler`, `MCToolchain`, `MCStrings` | instances for TLC |

`Tester` extends `NativeTests`, which extends `SetMachine` and `SetMacros`: a step
of the tester is a step of the machine or the end of a test. `Toolchain` extends
`Tokenizer`, `Encoding` (which extends `SetMacros`) and `CliArgs`, and has an instance
`A` of `Assembler` and an instance `VM` of `SetMachine`, whose `Step`s are its actions
`Assemble` and `Execute`. `WordPrograms` extends the machine with programs, and
`MCForward` extends it with more of them.

### The machine

A step is one round of the loop of `execute_program`: `Fetch` is `inst_next` and
the switch, `Advance` the increment of the counter. `program`, `pc`,
`iregisters`, `fregisters`, `accum_register`, `frames`, `frame_memory`,
`stack_top` and `STACK` are the fields and globals of the same name. `status`
is `is_running`, with two more values: `"aborted"` for an assertion or a
division trap, and `"undefined"` for an access outside an array, after which C
promises nothing. The code checks no index, so `Defined` spells out which
instructions stay within it, and `Fault` takes the others. `wrote` is the result
of the last `write(2)`, which may fail or take part of the bytes.

Memory is an array of bytes, and a word is four bytes of it, least significant
first, as `memcpy` leaves it; `push_decimal` and `pop_decimal` move the top before
storing and after loading, and the top is a `size_t` that wraps. A byte has
`Radix` values: 256 in the code, 2 or 4 under TLC, any even number in the
proofs. Words wrap at `Radix^4` and sizes at its square, so that every wrap of
the code is one of the model too.

Abstracted: floating-point arithmetic (constant operators: every property holds
for whatever they return), wording of logs, and time.

### The assembler

A token list is given; a word's text is an element of a small set, and `Arity`,
`Register`, `Reference` and `Number` say what `get_instuction_count` and
`parse_reg` make of it. A step is one token. Both passes gather a line in `tk`,
of which only the first `ic` entries are the line's: what earlier lines left
behind them is modelled, because both passes look at `tk[1]` regardless. Array
bounds (`tk[32]`, 128 labels, 128 instructions) are constants, exceeding one is
`"undefined"`. Fields that `parse_reg` leaves uninitialised are choices from
`Garbage`. `TooLong` names the words that overrun the buffer `prefix` of
`parse_reg`. `FloatKeyword` are the keywords of `is_float_instr`: their value is
converted to a float, and an operand that is looked up as a label does not set it
(`LeavesValue`), so that `fset r0 Lf` sets a zero.

### The tokenizer

A file is a sequence of characters: letters, digits, the separators that
`token_next` distinguishes, any other character, the zero byte, and the byte 255,
which a signed `char` cannot tell from `EOF`. `ReadChar` is a round of the loop that
appends with `sprintf` (a zero byte appends nothing but counts) and asserts on the
size after the write. `TakeWord`, `TakeSymbol` and `SkipSpace` are `token_next` with
what the caller does with the token.

`token_next` copies a word to the array `word_buffer` of its own frame, writes no
terminator, and takes the string that starts there. What the array holds is not
defined by C. The model has the two outcomes that builds show: with `fresh` frames
(the sanitized builds of the Makefile) it is zero in every call; otherwise it is
what the call before left, and a short word after a long one gets the long one's
end. The first contents are from `StackGarbage`.

### The toolchain

`stage` is where the two processes are. `Main` is `main` of the assembler up to the
choice between listing and assembling, `Tokenize` and `Assemble` are the steps above,
`ShowProgram`, `WriteFile`, `Load`, `Execute` and `ExecuteDone` what follows. The
passes see words, numbers, colons, hashes and line ends; `PassToken` makes all other
tokens one. A word is a value for the passes and a sequence of characters for the
tokenizer, and `WordSpelling` relates the two. Text that reused frames have spoilt
may be no word of the model at all; the run then ends in stage `"unknown"`.

The environment may fail in three ways: `fopen` or `fwrite` may fail or write a
part of the instructions (`WriteFails`; the assembler reports success all the
same), and the assembler may be killed while it writes (`KilledWriting`; `make` then
stops, but the machine may be started by hand on what is left). An `InstructionFile` is its whole instructions and
whether part of another one follows them.

An access outside an array ends the process, as in the sanitized builds, and so does
an assertion. `assemble` returns `FSET(...)`, whose macro at `set.h:317` is a bare
initializer; it is read as the compound literal that the other macros are.

### The strings

`heap` is the allocated blocks with their bytes, `str` the structs. `Allocate` is
`calloc` with the copy, `Reallocate` is `reallocarray`, which may leave the block or
move it; either may fail, which the assertions turn into an abort (`OutOfMemory`).
The client is disciplined: it gives a value only to a string that is cleared (the
library would leak the old one) and passes no text longer than the model's bound.
With `DoublesOnly` it calls `str_append_chars` only on an empty string, or with as
many characters as the string has: for others the function is wrong, see below.
`Bytes` reads a string through its pointer and is the refinement mapping to
`StringValues`.

## Runs

| run | question | bounds |
|---|---|---|
| `native_tests` | does each test of `test_list.c` return what it desires, alone, after any other, and in the list? do the printed bytes keep their order? | 8-bit words, 4 registers of each kind, 5 frames and 24 bytes of stack: the recursion of the tests uses 5 frames, their data 8 bytes |
| `stacks` | do frames and bytes implement the two abstract stacks? do types hold for every opcode? | 1-bit bytes, 3 registers, 2 frames, 12 bytes; every program of up to 4 of 11 control instructions, of up to 4 of 10 stack instructions after two settings, and every pair of opcodes on 6 register contents |
| `forward` | do programs that only go forward end? do instructions that must fit together do so? | 1-bit bytes; every program of up to 5 of 9 instructions that go forward, with 3 frames, so that they overrun them; all pairs of words for arithmetic; some words and all triples of addresses in 8 bytes for memory |
| `assembler` | which sources are assembled and indexed correctly, and what is lost of the others? | every source of 4 lines, each of 16 kinds (blank and comment, label, 2 of one word, 3 longer ones, one of them `fset` with a label, 8 wrong ones); 4 tokens of a line, 2 labels, 3 instructions, so that every bound is exceeded |
| `toolchain` | does a source run as it was written, and what does it take to go wrong? | every text of up to 3 of 8 kinds of characters; texts one short of, at and past each buffer; 29 programs (6 with the exit status they are to have, 6 to list, 11 that go wrong, 6 that branch), those with an exit status with 10 command lines and 3 files from before, the others with the plain command line and none; frames that are zero, filled up to half, and without a terminator. 56 characters of buffer, 6 of a word, 24 tokens, 5 tokens of a line, 2 labels, 8 instructions; a machine with bytes of 8 values, 3 registers, 2 frames and 16 bytes of stack |
| `strings` | are strings values of their own, and do the searches agree? | 2 strings over 2 characters, up to 4 long, 3 blocks: the heap runs out, and a block can always move |
| `comment_FloatLoadsThroughRegister`, `comment_CallUsesRecord`, `comment_EqualJumpComparesFirstTwo` | does the machine do what `set.h` says? No | three settings and any three of ten instructions |
| `readme_example`, `references` | does the assembler do what the README says? No | the end of the README's example; the well-spaced four-line sources |
| `append_chars` | does `str_append_chars` append? No | as `strings`, with appends of any length |

Why the bounds are enough. Two frames are nested, full and overrun by three
calls; four instructions are a record, a call and a return in every order and
one to spare. Twelve bytes of stack are the unused first word and two stacked
words: a store straddles them, a push overruns them, a pop underruns them. With
four-bit words all wraps happen within a few increments. A stale token of the
assembler survives at most until the next line of two tokens, so that four
lines (a label, a one-word line, any line, a line to see the effect) show each
way in which two lines can disturb one another. The buffers of `toolchain` are as
small as its programs allow, and `Long` has a text on either side of each limit; the
longest word of a program has five characters, one less than fills the array. What a
text of any length does to the tokenizer depends on one word and the longest before
it, for which three words suffice.

What the passing runs check, beyond types:

- `LiveFramesReturnToCalls`, `FreeFramesHoldNoReturn`, `ImplementsCallStack`:
  `I_CALL` saves `pc + 1` too many and `I_RET` goes one back ("TODO: fix this pc
  -+ 1 bug", `set.c:379`). The two cancel in every interleaving of calls, records,
  returns and jumps, and a record never writes into a frame in use.
- `TopAligned`, `ImplementsOperandStack`, `LastStoreWins`: a pop returns the last
  word pushed unless a save to that very address came between; a save to an
  unaligned address changes two stacked words at most; one pop of the empty stack
  wraps the top to the largest multiple of four and the next push repairs it.
- `SubtractionUndoesAddition`, `RemainderBelowDivisor`, `ComparisonsComplement`:
  pairs of instructions that a program relies on together.
- `ForwardCallsFit`: nothing checks the depth of calls against the array of frames
  (`set.c:105`). How deep a program goes depends on all the calls and returns before;
  where jumps and calls lead forward, a call or a record exceeds the array only if as
  many calls as it has frames are above it, whatever is called and returned from on the way.
- `ForwardProgramsEnd`: liveness, see below.
- `ReturnsDesired`, `PrintsText`, `AllTestsPass`, `PassesAfterAnyTest`,
  `OrderedTestsPass`, `VerdictMatchesScore`: the tests and the tester. `inc_dec`
  increments a `$r0` it never sets; it passes only because `and_or` leaves a zero
  there, and `PassesAfterAnyTest` excludes it, and no other test. `OrderedTestsPass`
  says that this zero is all: a list passes as a whole if each `inc_dec` is its first
  test or comes right after `and_or`. The lists of the run have one or two tests, or
  are the one of `test_list.c`.
- `WellSpacedIndexed`, `WellSpacedResolved`, `HardlySpacedAssembled`,
  `HardlySpacedPassesAgree`, `OnlyLoneWordsLost`: the sources for which the assembler
  is correct - every line an instruction, every label at its address, every
  reference the address of the first label of its name, or a value if `parse_reg`
  has taken it for one - and how much can go wrong with the others. A source is well spaced if no one-word
  instruction (`rec`, `halt`, `nop`) is the first after a label. It is hardly spaced if
  below each one that is, a longer line comes before the next one-word line and the
  next label. Of such a source exactly those one-word lines are lost, and both passes
  miss the same ones, although the first pass reads each as the beginning of the next
  line; so its addresses are those of the shortened program. Without the longer line the
  passes may count differently.
- `TokensSpellText`: the text read is all that the file has in front of a byte 255, at
  which it is cut in silence, but for NULs (`FileRead`); and there is a token for each place where the text has a word, a number,
  a string or a symbol, in their order and with just those characters, always with
  fresh frames, and with reused ones if no word is shorter than one before it. The
  condition is needed: without it the tokens of `abc a` are `abc` and `abc`.
- `FittingSourcesDefined`, `SmallSourcesDefined`: the limits within which no array is
  exceeded, of the passes alone and of the whole assembler. A line may have one token
  less than `tk` takes, as the first pass may glue the line to a word left over. For
  the same reason lines that start with a colon count as labels: in
  `f:;halt;:;f:;` the line `:` is read as `halt :`, a third label. A word must be
  shorter than its array, and a reused frame must have held a terminator at its end.
- `ExitsAsDesired`, `BranchesReachLabels`: a program exits with the status it was
  written for, and its jumps and calls arrive at their labels, through tokens,
  passes, opcodes, file and machine. A last line without a line end is dropped, which
  `Desired` of the program `Unended` says. Left out are runs in which `parse_reg` has
  taken a reference for a value (finding `references`) and those the environment
  failed. `BranchesReachLabels` is an action property about a well-spaced source: a
  call, or a jump that is taken, from a line that names the first label of a name.
- `RunsOneProgram`: what the machine runs after a failed write, or if it is started
  after a write that was killed.
- `ListingTellsApart`: the listing omits no operand that the machine uses, except
  in lines of `getac`, `rjmp`, `erjmp` and `nerjmp`, whose macros make an instruction
  of another name.
- `AssemblerEnds`: liveness, see below.
- `EachOwnsItsBlock`, `OnlyEmptyBlocksLeak`, `Implements`: no double free, use after
  free or sharing; what leaks are blocks without bytes only (of an empty substring
  or an empty text that is appended to); the strings implement `StringValues`.
- `SearchesAgree`: what `str_begins_with`, `str_ends_with` and `str_has_pattern` answer,
  by `str_are_equal` at each place (`Places`). `str_has_pattern` finds a pattern exactly if
  it is there, and gives its first place, but for a pattern of one character, where it
  gives 1; `str_ends_with` tells exactly whether the text ends in the pattern without its
  first character, which it never compares.

### Disagreements found

Each is a run that expects a violation.

- `I_FLOAD` uses the number of its address register as the address (`set.c:207`).
- `call` overwrites what the record before it left in the frame (`set.c:100`).
- `I_EJMP` compares the second and third register; the comment and the macro
  `EJMP` name the first two (`set.c:317`, `set.h:157`, `set.h:593`). A test does
  not notice: `NEJMP(3,0,2)` puts 2 second, and the third is 0 by default.
- The README's own example loses its `rec` below `Lreccon` (`basic_assembler.c:715`).
- A reference to a label is looked up only if an uninitialised field is zero
  (`basic_assembler.c:570`).
- `str_append_chars` stores the new characters from the index of their number on
  instead of the string's length (`str.h:214`). The test appends six characters to
  six, where the two agree.

Smaller ones, visible in the definitions and without a run: `I_GETAC` copies from
the accumulator, not into it as `set.h:78` says; `I_CI2F` treats its word as
unsigned, like `I_CU2F`; `I_PRINT` has stream, address and length in registers 0,
1 and 2, not in the order of `set.h:175`; the assertion after `write(2)` lets -1
pass (`set.c:353`); `str_ends_with` never compares the first character of the
pattern (`str.h:298`), and `str_has_pattern` returns a truth value for
an index if the pattern has one character; a file that cannot be written
is reported as written (`basic_assembler.c:849`).

## Fairness

`Spec` of the machine and of the assembler assume weak fairness of `Step`, and
the tester that of a step of the machine or the tester: each is a sequential
loop whose body is the step and which waits for nothing but `write(2)`, so an
enabled step is taken. `Toolchain` assumes it of `Step` too: each of the two processes
runs as long as it can, and `make` starts the second when the first has exited with 0.
`ForwardProgramsEnd`, `AllTestsPass` and `AssemblerEnds` are the liveness properties;
that the machine ends is not claimed of the toolchain, a program may loop.
`Strings` has no fairness: a client need not call anything.

No deadlock is possible: a machine that has ended stutters by `Finished`, so the
deadlock check says that every other state has a step, that is, no instruction is
left out of the actions.

## Proofs

Each theorem holds for all constants that satisfy the named assumptions of its module.

| module | theorem | statement |
|---|---|---|
| `SetMachineProofs` | `TypeCorrect` | `Spec => []TypeOK` |
| | `FramesCorrect`, `FreeFramesCorrect` | `Spec => [](LiveFramesReturnToCalls /\ FreeFramesHoldNoReturn)`, and its second part |
| | `AlignmentCorrect` | `Spec => []TopAligned` |
| | `ForwardCallsCorrect` | `Spec => []ForwardCallsFit` |
| `CallStackProofs` | `CallStackImplemented` | `Spec => ImplementsCallStack` |
| `OperandStackProofs` | `OperandStackImplemented` | `Spec => ImplementsOperandStack` |
| | `TopStaysInReach` | the top is the address of a stacked word or, after one pop too many, a word below the first |
| `WordProgramsProofs` | `SubtractionCorrect` | `Spec => []SubtractionUndoesAddition` |
| | `RemainderCorrect` | `Spec => []RemainderBelowDivisor` |
| | `ComparisonsCorrect` | `Spec => []ComparisonsComplement` |
| | `LastStoreCorrect` | `Spec => []LastStoreWins` |
| `TesterProofs` | `VerdictCorrect` | `TesterSpec => []VerdictMatchesScore` |
| | `MachinesTypeCorrect` | `TesterSpec => []TypeOK`: `TypeOK` of the machine, in each test of a list |
| | `TestsReturnDesired`, `TextCorrect` | `TesterSpec => []ReturnsDesired`, `TesterSpec => []PrintsText` |
| | `TestsIndependent` | `TesterSpec => PassesAfterAnyTest` |
| | `OrderedTestsCorrect` | `TesterSpec => []OrderedTestsPass` |
| `AssemblerProofs` | `TypeCorrect` | `Spec => []TypeOK` |
| | `LinesWithOperandsKept` | `Spec => []OnlyLoneWordsLost` |
| | `WellSpacedSourcesIndexed` | `Spec => []WellSpacedIndexed` |
| | `WellSpacedReferencesResolved` | `Spec => []WellSpacedResolved` |
| | `HardlySpacedSourcesAssembled` | `Spec => []HardlySpacedAssembled` |
| | `HardlySpacedSourcesAgree` | `Spec => HardlySpacedPassesAgree` |
| | `FittingSourcesAssembled` | `Spec => []FittingSourcesDefined` |
| `ToolchainProofs` | `TypeCorrect` | `Spec => []TypeOK` |
| | `TokensCorrect` | `Spec => []TokensSpellText` |
| | `SmallSourcesCorrect` | `Spec => []SmallSourcesDefined` |
| | `RunsOneProgramCorrect` | `Spec => []RunsOneProgram` |
| | `BranchesCorrect` | `Spec => BranchesReachLabels` |
| | `ListingCorrect` | `Spec => []ListingTellsApart` |
| `StringsProofs` | `BlocksCorrect` | `Spec => []EachOwnsItsBlock` |
| | `LeaksCorrect` | `Spec => []OnlyEmptyBlocksLeak` |
| | `SearchesCorrect` | `Spec => []SearchesAgree` |
| | `StringsImplementValues` | `Spec => Implements`, with `DoublesOnly` |

### The machine

`TypeOK` is not inductive: `I_RET` sets the counter to the predecessor of a saved one,
which is a `size_t` without a wrap only if the frame it reads is that of a call, not a
record's or a cleared one. So the inductive invariant is

    IInv == TypeOK /\ LiveFramesReturnToCalls /\ FreeFramesHoldNoReturn

with `FreeFramesHoldNoReturn` kept by the zero fields of a record. `InitIInv` and
`NextIInv` prove it inductive, with a lemma per action and conjunct (`PushType`,
`RecordFrames`, ...), on top of lemmas about the arithmetic of words and bytes.

`ForwardCallsFit` adds two invariants. `FaultInv`: a call or a record that has ended as
undefined has found no frame free. `CallsNest`: in a program that goes forward the frames in
use, from the first on, are of calls further and further down, all above the counter. So
they are of different calls, and when the frames are exhausted there are as many calls above.

For
`CallStack` a lemma per kind of step (`CallStep`, `ReturnStep`, `ProceedStep`,
`StopStep`) maps it to a step of the abstraction or a stutter.

`OperandStack` needs more, because a byte may belong to a pushed word and to saved ones
at once. The invariant is `StackInv`: `IInv`, `TopAligned` and `TopInReach`. The lemmas
are that a loaded word is the saved one (its four bytes are the digits of a number
in base `Radix`), that words apart do not disturb each other, and that a save at any
address changes the words that it overlaps and no other.

### Words

Each family of programs of `WordPrograms` has an invariant that says, for each value of
the program counter, what the registers hold: `SumInv`, `QuotientInv`, `OrderInv`,
`MemoryInv`. What is left is arithmetic: of wrapping at `Radix^4`, of quotients (the
product of quotient and divisor does not wrap), and of digits, since a byte of a loaded
word is the byte at its address. `Radix` is not fixed, so that the steps about products
are spelled out for a prover that knows little of them.

### The tester

`ScoreInv`: after `i - 1` tests the score is at most `i - 1`, and the flag
`all_tests_passed`, which is kept separately from it, holds exactly when it is that.
`MachineInv` is `IInv` for the machine of the moment: registers and memory that the
tests before have left are as good as any others.

`TestsInv` says what the tests compute. Each of the seven programs has an invariant
that gives, for each of its instructions, the registers that it has set by then, and
nothing about the others, so that it holds whatever the tests before have left:
`simple_loop` counts in `$r0` up to ten; `print` has its text at the bottom of the
stack; `recursive_function_call` has, at depth `n`, `n` live frames, the first of which
returns to the outer call and the others to the inner one, and passes `n` on in `$r0`
and in the one word on the stack.
`inc_dec` alone starts from a
register that it does not set: its invariant holds only `FromZero`, when the list has
it first or after `and_or`, and the invariant of `and_or` ends in that zero. The
lemmas `ProgramStarts`, `ProgramGoesOn` and `ProgramEnds` are for any of the programs;
`TestEnds` connects them with the runner's loop.

### The passes

`TypeInv` is `TypeOK` with the lengths that bound every index. The other invariants are
about a state in the middle of a pass, and say what lies behind it:

- `InLine(s)` and `Buffered(s)`: the line that starts at token `s` is being gathered, and
  `tk` holds its tokens, as far as they are not commented out;
- `AssembleInv`: the lines kept so far, of which only lone words are missing; in a
  well-spaced source none is, because `ColonOfLabel` says that a stale colon in
  `tk[1]` is that of a label below which there is no instruction yet;
- `IndexInv`: each label above has its place in the table, with the number of the
  instructions above it;
- `ReferencesInv`: each instruction above has the address of the label that it names,
  which uses `IndexInv` for the whole source;
- `HardIndexInv`, `HardAssembleInv`: the same as `AssembleInv` and `IndexInv` for a hardly
  spaced source. What a pass finds at a line depends on the line above it: `Glued` says
  that in the first pass `tk` holds a one-word line that it has skipped (`Pending`), then
  the current line; `ColonLeft` that `tk[1]` is a colon exactly below a label or
  such a word. Both passes have counted `KeptLines` (`LineIndexed`, `LineAssembled`), which
  makes their addresses the same. An instruction that starts with no word stops the
  second pass, while the first goes on; so what the first notes of a label matters
  only if no such line is above it (`ProperUpTo`);
- `LimitsInv` is about any source, well spaced or not. `Gathered` says that `tk` holds the
  current line behind at most one left-over token, whence a line may be one token
  shorter than the array; and the labels are at most the lines marked by a colon.

Sets of lines are finite and counted with `Cardinality`; a step from one line to the
next changes the counts by one or not at all.

### The toolchain

`ToolchainProofs` uses the theorems of the passes and of the machine through instances
(`AP`, `VP`); `PassesSame`, `SourcesSame` and `MachineSame` say that they are about the
same steps. `PassesInv`, `FilesInv`, `MachineInv` and `LinesInv` add what the composition
needs: that the tokens are well formed and no more than the list takes, that every file
holds a program that the machine can load, that the passes are done before the program
is written. `RunInv` says what is on the disk. `WordsInv` is about the tokenizer: the
tokens made are exactly as many as the places behind the tokenizer where one starts
(`StartsUpTo`), and the part of a word that is copied is no longer than the word
(`WordAt`); a reused frame keeps its last byte as long as words fit (`LastByteKept`).
`TokensCorrect` adds `SpellInv`: behind each of those places stands the token that spells
it, by number, which needs no induction over the list; and `Clean`, that the frame has
held a terminator ever since the length of the longest word copied to it, whence a
word that is not shorter ends where it should.
What has been read is `ReadInv`: the buffer holds the characters of the file up to the
reading position that are no NULs, by number too; at the end they are those of `InText`.
`BranchesCorrect` takes one step of the machine on the program that was assembled; it
composes `ReferencesInv` with `Encoding` for each kind of branch. `ListingCorrect`
rests on `ShownWhole`, a case distinction over the opcodes.

### The strings

The invariant adds what `EachOwnsItsBlock` needs to be inductive: the heap maps blocks to
bytes, and a struct without a block has length zero. `AllocateInv` and `ReallocateInv` are
the two ways to a block; each action is a lemma. For the leaks it is `FullBlocksHeld`: a
block with bytes has an owner. For the refinement it is `TextInv`: what a string's
pointer leads to are characters and not `NUL` or `UNKNOWN`, without which an append and its
abstraction would differ; `TextOf` reads the text. `StringsImplementValues` has the
hypothesis `DoublesOnly`, as run `append_chars` shows that it fails otherwise.

### Assumptions

- `MachineAssumption`: a byte has an even number of values, there are three word
  registers because `I_PRINT` names them, memory is smaller than what a word can address;
- `ProgramsAssumption`: a program fits in memory with two instructions to spare, or
  `pc + 2` would wrap;
- `FloatAssumption`: float operations return words. `TypeCorrect` of the toolchain has it
  as a hypothesis about `VM`, since an instance brings no assumptions along;
- `NativeTestsAssumption`: what the tests expect of a machine: a byte has four values or more,
  which makes room for their numbers and characters, the registers that they name,
  a frame for each of five nested calls, two words of stack above the unused first one,
  and 10.5 + 10.5 cast to 21;
- `TestListsAssumption`: the runner is given lists of tests that are not empty;
- `AssemblerAssumption`: `tk` has room for two tokens, no instruction has more than three
  operands, a text is a reference or a value and not both, sources are token lists;
- `TokenizerAssumption`: letters, digits, spaces and the bytes 0 and 255 are apart, and
  frames have the size of the array;
- `ToolchainAssumption`: those of its parts; spellings are of words that the passes know;
  and a program that the assembler can hold is one that the machine can load;
- `StringsAssumption`: texts are characters, the null pointer is no block.

TLC evaluates them in the runs.

### Only model-checked

- `ExitsAsDesired`: the exit status of particular sources with a particular spelling, a
  proof by execution through tokenizer, passes and machine that says nothing beyond the
  run;
- `ForwardProgramsEnd`, `AllTestsPass`, `AssemblerEnds`: liveness.

## Not modelled, and the plan

Not modelled:

- `format.c`, `token_print`, logging, the log files and the directory checks of the
  tester: wording and I/O;
- `str_is_integer`, `str_is_float` and `str_get_cstr`, which change no string;
- literals of floats and the names of float registers as text: `fset` is given a number,
  which is converted, or a label;
- what a conversion makes of a float that the target cannot hold: the operations on
  floats are constants, and every property holds for whatever they return;
- the bytes of an instruction file: a file has instructions, so a file written with
  another numbering of the opcodes cannot be told from others;
- what a program does after an access outside an array in a build without
  sanitizers;
- the machine's recovery from a partial file: it has none.

The modules were written in the order machine, stacks, tests, passes; then tokenizer,
encoding, toolchain, strings; then the proofs in the same order. What is left of the plan:

1. `BranchesReachLabels` for register jumps, whose address is a value that the program
   has computed, so that a property about it needs a notion of where the value is from.
