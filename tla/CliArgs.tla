-------------------------------- MODULE CliArgs --------------------------------
(***************************************************************************)
(* The search through the command line, src/lib/cliargs.h.  argv[k + 1] is *)
(* the k-th argument; the 0-th is the program's path.                      *)
(***************************************************************************)
EXTENDS Integers, Sequences

\* The indices of an argument, and those of them that another argument follows.
Places(argv, lit)   == {k \in 1 .. Len(argv) - 1 : argv[k + 1] = lit}
Followed(argv, lit) == {k \in Places(argv, lit) : k + 1 < Len(argv)}

LastOf(places) == CHOOSE k \in places : \A j \in places : j <= k

\* The last index of an argument, 0 if there is none.
arg_find(argv, lit) ==
  IF Places(argv, lit) = {} THEN 0 ELSE LastOf(Places(argv, lit))

\* The argument after the last one that has one, "" for NULL.
arg_find_value(argv, lit) ==
  IF Followed(argv, lit) = {} THEN "" ELSE argv[LastOf(Followed(argv, lit)) + 2]

=============================================================================
