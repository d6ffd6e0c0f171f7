-------------------------------- MODULE Tester --------------------------------
(***************************************************************************)
(* The native tests of src/testing/tester.c: one process runs a list of    *)
(* test programs one after the other, each on a machine of its own - but   *)
(* the register files and the stack are globals of set.c, which the        *)
(* machines hand on to each other.                                         *)
(***************************************************************************)
EXTENDS NativeTests

CONSTANT TestLists       \* the lists of tests that may be run

VARIABLES
  list,                  \* the list, and ...
  i,                     \* ... the index of its running test, from 1
  sucessful_tests,
  all_tests_passed

testerVars == <<list, i, sucessful_tests, all_tests_passed>>

\* What TestProgram holds of a test, its name aside.
TestProgram == [program : Programs, desired_return : Word]

ASSUME TestListsAssumption == \A l \in TestLists : l \in Seq(TestProgram) /\ l # <<>>

\* The result of the machine that has just left execute_program.
sucess == list[i].desired_return = accum_register

\* Mistakes: the program counter, or the running flag, is not set again; every
\* test is counted.
StartWhereLeft(p) ==
  /\ program' = p
  /\ status' = "running"
  /\ accum_register' = 0
  /\ frames' = 0
  /\ frame_memory' = [s \in Slot |-> NoFrame]
  /\ UNCHANGED <<pc, stack_top>>
StartStopped(p) ==
  /\ program' = p
  /\ pc' = 0
  /\ accum_register' = 0
  /\ UNCHANGED <<status, calls, stack_top>>
CountEvery == sucessful_tests + 1

Score == sucessful_tests + AsFlag(sucess)

\* run_set_program up to execute_program: init_machine for the next test.
StartMachine(p) ==
  /\ program' = p
  /\ pc' = 0
  /\ status' = "running"
  /\ accum_register' = 0
  /\ frames' = 0
  /\ frame_memory' = [s \in Slot |-> NoFrame]
  /\ stack_top' = 0

TesterInit ==
  /\ list \in TestLists
  /\ i = 1
  /\ sucessful_tests = 0
  /\ all_tests_passed = TRUE
  /\ InitMachine(list[1].program)
  /\ InitGlobals
  /\ wrote = NoWrite

\* The machine of the running test does a step.
RunMachine == i \in DOMAIN list /\ Step /\ UNCHANGED testerVars

\* The rest of the loop body of run_native_tests, and the start of the next
\* round.  A test that aborted or left C takes the tester with it.
RecordResult ==
  /\ i \in DOMAIN list
  /\ ~Executing
  /\ status \in {"running", "halted"}
  /\ all_tests_passed' = (all_tests_passed /\ sucess)
  /\ sucessful_tests' = Score
  /\ i' = i + 1
  /\ IF i < Len(list)
     THEN /\ StartMachine(list[i + 1].program)
          /\ UNCHANGED <<iregisters, fregisters, STACK, wrote>>
     ELSE UNCHANGED vars
  /\ UNCHANGED list

\* run_native_tests has returned, or the process is gone.
TesterFinished ==
  /\ \/ i > Len(list)
     \/ status \in {"aborted", "undefined"}
  /\ UNCHANGED <<vars, testerVars>>

TesterNext == RunMachine \/ RecordResult \/ TesterFinished

TesterSpec ==
  /\ TesterInit
  /\ [][TesterNext]_<<vars, testerVars>>
  /\ WF_<<vars, testerVars>>(RunMachine \/ RecordResult)

-----------------------------------------------------------------------------
Ended == i > Len(list)

\* The verdict and the score that main prints agree.
VerdictMatchesScore == Ended => (all_tests_passed <=> sucessful_tests = Len(list))

\* In a fresh process every test of test_list.c ends in a root return with the value
\* that it desires.
ReturnsDesired ==
  i = 1 /\ list[1] \in Tests /\ ~Executing =>
    status = "halted" /\ accum_register = list[1].desired_return

\* The bytes that the print test hands to write(2) are those of its text, in
\* order, as far as the stream takes them, whatever earlier tests left on the
\* stack.
PrintsText ==
  i \in DOMAIN list /\ list[i].program = print /\ ~Executing =>
    \A k \in DOMAIN wrote.bytes : wrote.bytes[k] = Text[k]

\* An action property: every test of test_list.c but inc_dec passes whatever ran before
\* it, since it sets what it reads of the registers and the stack that it is left.
PassesAfterAnyTest ==
  [][RecordResult /\ list[i] \in Tests /\ list[i].program # inc_dec
       => sucess]_<<vars, testerVars>>

\* A list of these tests passes as a whole, in any order and with repetitions, if each
\* inc_dec comes first or right after and_or, which leaves the zero in $r0 that it
\* counts from; the order of test_list.c is one of them.
CountsFromZero ==
  \A k \in DOMAIN list :
    list[k].program = inc_dec => k = 1 \/ list[k - 1].program = and_or

OrderedTestsPass ==
  Ended /\ (\A k \in DOMAIN list : list[k] \in Tests) /\ CountsFromZero
    => all_tests_passed

=============================================================================
