----------------------------- MODULE MCAssembler -----------------------------
(* Every source of four lines, each one of a few kinds.                      *)
EXTENDS Assembler

MCArity     == [w \in {"rec", "call", "set", "fset", "push"} |->
                  CASE w = "rec" -> 0 [] w \in {"set", "fset"} -> 2 [] OTHER -> 1]
MCRegister  == [w \in {"r0", "r1"} |-> IF w = "r0" THEN 0 ELSE 1]
MCReference == [w \in {"Lf", "Lg", "Llong"} |->
                  CASE w = "Lf" -> "f" [] w = "Lg" -> "g" [] w = "Llong" -> "long"]
MCNumber    == [w \in {"5"} |-> 5]

Word(w) == [type |-> IF w \in DOMAIN MCNumber THEN "NUMBER" ELSE "WORD",
            literall |-> w]
COLON == [type |-> "COLON", literall |-> ""]
HASH  == [type |-> "HASH", literall |-> ""]
END   == [type |-> "EXPRESSION_END", literall |-> ""]

\* The kinds of lines: blank ones, labels, instructions of one token and of
\* more, and wrong ones.
Blank == { <<END>>, <<HASH, Word("rec"), COLON, END>> }
Label == { <<Word("f"), COLON, END>> }
OneWord == { <<Word("rec"), END>>, <<Word("rec"), HASH, Word("5"), END>> }
Long  == { <<Word("call"), Word("Lf"), END>>, <<Word("call"), Word("5"), END>>,
           <<Word("fset"), Word("r1"), Word("Lf"), END>> }
Wrong == { <<Word("5"), COLON, END>>, <<COLON, END>>, <<Word("push"), COLON, COLON, END>>,
           <<Word("set"), Word("r1"), END>>, <<Word("call"), Word("Llong"), END>>,
           <<Word("set"), COLON, Word("5"), END>>,
           <<Word("push"), Word("f"), END>>,
           <<Word("push"), Word("r0"), Word("r0"), Word("r0"), Word("r0"), END>> }

Flat(f) == f[1] \o f[2] \o f[3] \o f[4]

Texts(kinds) == [1 .. 4 -> kinds]

\* The line above k that is not blank, if any, is of that kind.
Follows(f, k, kind) ==
  \E j \in 1 .. k - 1 : f[j] \in kind /\ \A m \in j + 1 .. k - 1 : f[m] \in Blank

\* No instruction of one token comes right after a label.
SpacedText ==
  {Flat(f) : f \in {g \in Texts(Blank \cup Label \cup OneWord \cup Long) :
     \A j \in 1 .. 4 : g[j] \in OneWord => ~Follows(g, j, Label)}}

AnyText == {Flat(f) : f \in Texts(Blank \cup Label \cup OneWord \cup Long \cup Wrong)}

\* The end of the example of README.md, from its label Lrecend on; the labels
\* are called f and g here and push takes the place of ret.
ReadmeExample ==
  {<< Word("f"), COLON, HASH, Word("5"), END,
      Word("push"), Word("r0"), END,
      Word("g"), COLON, END,
      Word("rec"), HASH, Word("5"), END,
      Word("push"), Word("r0"), END,
      Word("call"), Word("5"), HASH, Word("5"), END,
      Word("push"), Word("r0"), END >>}

=============================================================================
