------------------------------- MODULE MCTester -------------------------------
(***************************************************************************)
(* The native tests: each in a process of its own, each pair of them in    *)
(* one process, and all of them in one in the listed order.  Words have    *)
(* eight bits, floats count halves.                                        *)
(***************************************************************************)
EXTENDS Tester, MCFloats

MCPrograms == {TESTS_LIST[k].program : k \in DOMAIN TESTS_LIST}

MCTestLists == {<<t>> : t \in Tests} \cup {<<t, u>> : t \in Tests, u \in Tests}
               \cup {TESTS_LIST}

\* In the order of test_list.c every test passes, whatever the streams do, and
\* the tester ends (inc_dec counts on the zero that and_or leaves in $r0).
AllTestsPass == list = TESTS_LIST => <>(Ended /\ all_tests_passed)

=============================================================================
