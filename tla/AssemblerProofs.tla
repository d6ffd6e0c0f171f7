---------------------------- MODULE AssemblerProofs ----------------------------
(***************************************************************************)
(* For every source and every size of the arrays: the passes keep to their *)
(* types, the second pass loses instructions of one word at most, and a    *)
(* source that is well spaced is assembled and indexed line by line, its   *)
(* references resolved.  Of one that is hardly spaced they lose the same   *)
(* lines and agree on the addresses of its labels.                         *)
(***************************************************************************)
EXTENDS Assembler, FiniteSetTheorems, SequenceTheorems, TLAPS

LEMMA Sizes ==
  /\ TK_SIZE \in Nat /\ TK_SIZE >= 2
  /\ LABELS_SIZE \in Nat /\ PROGRAM_SIZE \in Nat
BY AssemblerAssumption

\* A keyword is the text of a word, and so is the name of a label.
LEMMA TokenFacts ==
  ASSUME NEW t \in Token \cup {NoToken}
  PROVE  /\ t.literall \in DOMAIN Arity => t.type = "WORD"
         /\ t.type = "WORD" => t.literall \in Text
<1>1. "" \notin DOMAIN Arity
  BY AssemblerAssumption
<1>2. CASE t = NoToken
  BY <1>1, <1>2 DEF NoToken
<1>3. CASE t \in [type : {"WORD"}, literall : Text]
  BY <1>3
<1>4. CASE t \in [type : {"NUMBER"}, literall : Text \ DOMAIN Arity]
  BY <1>4
<1>5. CASE t \in [type : {"COLON", "HASH", "EXPRESSION_END", "SYMBOL"}, literall : {""}]
  BY <1>1, <1>5
<1> QED BY <1>2, <1>3, <1>4, <1>5 DEF Token

\* Every set of numbers has a smallest one.
LEMMA Smallest ==
  ASSUME NEW S \in SUBSET Nat, S # {}
  PROVE  \E n \in S : \A m \in S : n <= m
<1> DEFINE Below == {1 .. n : n \in S}
<1>1. Below \subseteq FiniteSubsetsOf(Nat) /\ Below # {}
  <2>1. ASSUME NEW n \in S
        PROVE  1 .. n \in SUBSET Nat /\ IsFiniteSet(1 .. n)
    BY FS_Interval
  <2> QED BY <2>1 DEF FiniteSubsetsOf
<1>2. IsWellFoundedOn(StrictSubsetOrdering(Nat), FiniteSubsetsOf(Nat))
  BY FS_StrictSubsetOrderingWellFounded
<1>3. PICK x \in Below : \A y \in Below : ~ (<<y, x>> \in StrictSubsetOrdering(Nat))
  <2> HIDE DEF Below
  <2> QED BY <1>1, <1>2, WFMin
<1>4. PICK n \in S : x = 1 .. n
  BY <1>3
<1>5. ASSUME NEW m \in S
      PROVE  n <= m
  <2>1. SUFFICES ASSUME m < n PROVE FALSE
    OBVIOUS
  <2>2. 1 .. m \in SUBSET Nat /\ 1 .. n \in SUBSET Nat /\ 1 .. m \subseteq 1 .. n
    BY <2>1
  <2>3. n \in 1 .. n /\ n \notin 1 .. m
    BY <2>1
  <2>4. 1 .. m # 1 .. n
    BY <2>3
  <2>5. <<1 .. m, x>> \in StrictSubsetOrdering(Nat)
    BY <1>4, <2>2, <2>4, Zenon DEF StrictSubsetOrdering
  <2> QED BY <1>3, <2>5
<1> QED BY <1>5

-----------------------------------------------------------------------------
(***************************************************************************)
(* Types.  Both passes count less lines than tokens, and the second one    *)
(* counts its instructions.                                                *)
(***************************************************************************)
LabelEntry(n) == [name : Text, address : 0 .. n]

Imm(n) == {0} \cup {Number[w] : w \in DOMAIN Number} \cup Garbage \cup 0 .. n

Instruction(n) == [op : DOMAIN Arity, regs : [1 .. 3 -> Nat], dval : Imm(n)]

Pass == {"index", "assemble", "done", "aborted", "undefined"}

\* The passes before their first step.
Started ==
  /\ pass = "index" /\ i = 1 /\ ic = 0 /\ lc = 0 /\ line_is_comment = FALSE
  /\ tk = [s \in 0 .. TK_SIZE - 1 |-> NoToken]
  /\ labels = <<>> /\ program = <<>>

\* All of TypeOK but the flag, and what the lengths follow from.
TypeInv ==
  /\ list \in Seq(Token) /\ Len(list) \in Nat
  /\ pass \in Pass
  /\ i \in 1 .. Len(list) + 1
  /\ tk \in [0 .. TK_SIZE - 1 -> Token \cup {NoToken}]
  /\ ic \in 0 .. TK_SIZE
  /\ lc \in Nat /\ lc < i
  /\ labels \in Seq(LabelEntry(Len(list))) /\ Len(labels) <= LABELS_SIZE
  /\ program \in Seq(Instruction(Len(list))) /\ Len(program) <= PROGRAM_SIZE
  /\ pass \in {"assemble", "done"} => lc = Len(program)
  /\ pass = "index" => program = <<>>

\* find_label returns the address of one of the labels.
LEMMA AddressType ==
  ASSUME TypeInv, NEW name, Found(name)
  PROVE  AddressOf(name) \in 0 .. Len(list)
<1> DEFINE S == {k \in DOMAIN labels : labels[k].name = name}
           First(k) == /\ labels[k].name = name
                       /\ \A j \in 1 .. k - 1 : labels[j].name # name
<1>1. DOMAIN labels = 1 .. Len(labels) /\ Len(labels) \in Nat
  BY DEF TypeInv
<1>2. PICK n \in S : \A m \in S : n <= m
  <2>1. S \subseteq Nat /\ S # {}
    BY <1>1 DEF Found
  <2> HIDE DEF S
  <2> QED BY <2>1, Smallest
<1>3. First(n)
  BY <1>1, <1>2
<1>4. \E k \in DOMAIN labels : First(k)
  BY <1>2, <1>3
<1>5. (CHOOSE k \in DOMAIN labels : First(k)) \in DOMAIN labels
  BY <1>4
<1>6. \A k \in DOMAIN labels : labels[k].address \in 0 .. Len(list)
  <2>1. Len(list) \in Nat
    BY DEF TypeInv
  <2>2. \A k \in DOMAIN labels : labels[k] \in LabelEntry(Len(list))
    BY <1>1, ElementOfSeq DEF TypeInv
  <2> QED BY <2>1, <2>2 DEF LabelEntry
<1> QED BY <1>5, <1>6 DEF AddressOf

LEMMA OperandValuesType ==
  ASSUME TypeInv, NEW w
  PROVE  OperandValues(w) \subseteq Imm(Len(list))
<1>1. CASE w \in DOMAIN Number
  <2>1. w \notin DOMAIN Reference
    BY <1>1, AssemblerAssumption
  <2>2. OperandValues(w) = {Number[w]}
    BY <1>1, <2>1 DEF OperandValues
  <2> QED BY <1>1, <2>2 DEF Imm
<1>2. CASE w \in DOMAIN Reference
  <2>1. w \notin DOMAIN Number
    BY <1>2, AssemblerAssumption
  <2>2. OperandValues(w) =
          Garbage \cup (IF Op \notin FloatKeyword /\ Found(Reference[w])
                        THEN {AddressOf(Reference[w])} ELSE {})
    BY <1>2, <2>1 DEF OperandValues
  <2>3. Found(Reference[w]) => AddressOf(Reference[w]) \in 0 .. Len(list)
    BY AddressType
  <2> QED BY <2>2, <2>3 DEF Imm
<1>3. CASE w \notin DOMAIN Number \cup DOMAIN Reference
  BY <1>3 DEF OperandValues, Imm
<1> QED BY <1>1, <1>2, <1>3

LEMMA ValuesType ==
  ASSUME TypeInv
  PROVE  Values \subseteq Imm(Len(list))
<1>1. 0 \in Imm(Len(list))
  BY DEF Imm
<1> QED BY <1>1, OperandValuesType DEF Values

LEMMA InitTypeInv == Init => TypeInv
<1>1. SUFFICES ASSUME Init PROVE TypeInv
  OBVIOUS
<1>2. list \in Seq(Token)
  BY <1>1, AssemblerAssumption DEF Init
<1>3. Len(list) \in Nat
  BY <1>2
<1>4. tk \in [0 .. TK_SIZE - 1 -> Token \cup {NoToken}]
  BY <1>1 DEF Init
<1>5. /\ labels \in Seq(LabelEntry(Len(list))) /\ Len(labels) = 0
      /\ program \in Seq(Instruction(Len(list))) /\ Len(program) = 0
  BY <1>1 DEF Init
<1>6. TK_SIZE \in Nat /\ LABELS_SIZE \in Nat /\ PROGRAM_SIZE \in Nat
  BY Sizes
<1> QED BY <1>1, <1>2, <1>3, <1>4, <1>5, <1>6 DEF Init, TypeInv, Pass

\* The token that is read.
LEMMA ReadToken ==
  ASSUME TypeInv, i <= Len(list)
  PROVE  /\ i \in 1 .. Len(list)
         /\ list[i] \in Token
         /\ i + 1 \in 1 .. Len(list) + 1
<1>1. Len(list) \in Nat /\ i \in 1 .. Len(list) /\ i + 1 \in 1 .. Len(list) + 1
  BY DEF TypeInv
<1> QED BY <1>1, ElementOfSeq DEF TypeInv

LEMMA CommentTypes == TypeInv /\ Comment => TypeInv'
<1>1. SUFFICES ASSUME TypeInv, Comment PROVE TypeInv'
  OBVIOUS
<1>2. i' \in 1 .. Len(list) + 1 /\ i' = i + 1 /\ i \in Nat
  BY <1>1, ReadToken DEF Comment, Walking
<1> QED BY <1>1, <1>2 DEF TypeInv, Comment

LEMMA CollectTypes == TypeInv /\ Collect => TypeInv'
<1>1. SUFFICES ASSUME TypeInv, Collect PROVE TypeInv'
  OBVIOUS
<1>2. i + 1 \in 1 .. Len(list) + 1 /\ list[i] \in Token /\ i \in Nat
  BY <1>1, ReadToken DEF Collect, Walking
<1>3. TK_SIZE \in Nat
  BY Sizes
<1>4. CASE ic < TK_SIZE
  BY <1>1, <1>2, <1>3, <1>4 DEF TypeInv, Collect
<1>5. CASE ~ (ic < TK_SIZE)
  BY <1>1, <1>5 DEF TypeInv, Collect, Pass
<1> QED BY <1>4, <1>5

LEMMA IndexTypes ==
  TypeInv /\ (IndexOneToken \/ IndexLine \/ IndexDone) => TypeInv'
<1>1. ASSUME TypeInv, IndexOneToken PROVE TypeInv'
  <2>1. i + 1 \in 1 .. Len(list) + 1 /\ i \in Nat
    BY <1>1, ReadToken DEF IndexOneToken, LineEnd
  <2> QED BY <1>1, <2>1 DEF TypeInv, IndexOneToken, LineEnd
<1>2. ASSUME TypeInv, IndexLine PROVE TypeInv'
  <2>1. i + 1 \in 1 .. Len(list) + 1 /\ i \in Nat
    BY <1>2, ReadToken DEF IndexLine, LineEnd
  <2>2. lc' \in Nat /\ lc' < i + 1
    BY <1>2, <2>1 DEF TypeInv, IndexLine, LineCounted
  <2>3. 0 \in 0 .. TK_SIZE
    BY Sizes
  <2> QED BY <1>2, <2>1, <2>2, <2>3 DEF TypeInv, IndexLine, LineEnd
<1>3. ASSUME TypeInv, IndexDone PROVE TypeInv'
  <2>1. 1 \in 1 .. Len(list) + 1 /\ 0 \in 0 .. TK_SIZE
    BY <1>3, Sizes DEF TypeInv
  <2>2. tk' \in [0 .. TK_SIZE - 1 -> Token \cup {NoToken}]
    BY <1>3 DEF IndexDone
  <2>3. lc' = 0 /\ program' = <<>> /\ Len(program') = 0
    BY <1>3 DEF IndexDone, FirstCount, TypeInv
  <2>4. /\ list' = list /\ labels' = labels /\ i' = 1 /\ pass = "index" /\ ic' = 0
        /\ pass' = "assemble"
    BY <1>3 DEF IndexDone
  <2> QED BY <1>3, <2>1, <2>2, <2>3, <2>4 DEF TypeInv, Pass
<1> QED BY <1>1, <1>2, <1>3

\* The entries of labels are names and addresses.
LEMMA IndexLabelTypes == TypeInv /\ IndexLabel => TypeInv'
<1>1. SUFFICES ASSUME TypeInv, IndexLabel PROVE TypeInv'
  OBVIOUS
<1>2. tk[0] \in Token \cup {NoToken}
  BY <1>1, Sizes DEF TypeInv
<1>3. tk[0].literall \in Text
  BY <1>1, <1>2, TokenFacts DEF IndexLabel, LooksLikeLabel
<1> DEFINE entry == [name |-> tk[0].literall, address |-> lc]
<1>4. entry \in LabelEntry(Len(list))
  BY <1>1, <1>3 DEF LabelEntry, TypeInv
<1>5. /\ Append(labels, entry) \in Seq(LabelEntry(Len(list)))
      /\ Len(Append(labels, entry)) = Len(labels) + 1
      /\ Len(labels) \in Nat
  <2> HIDE DEF entry
  <2> QED BY <1>1, <1>4, AppendProperties DEF TypeInv
<1>6. labels' \in Seq(LabelEntry(Len(list))) /\ Len(labels') <= LABELS_SIZE
  <2>1. CASE Len(labels) < LABELS_SIZE
    <3>1. labels' = Append(labels, entry)
      BY <1>1, <2>1 DEF IndexLabel
    <3> QED BY <1>5, <2>1, <3>1, Sizes
  <2>2. CASE ~ (Len(labels) < LABELS_SIZE)
    <3>1. labels' = labels
      BY <1>1, <2>2 DEF IndexLabel
    <3> QED BY <1>1, <3>1 DEF TypeInv
  <2> QED BY <2>1, <2>2
<1>7. i + 1 \in 1 .. Len(list) + 1 /\ i \in Nat
  BY <1>1, ReadToken DEF IndexLabel, LineEnd
<1>8. 0 \in 0 .. TK_SIZE
  BY Sizes
<1>9. /\ list' = list /\ tk' = tk /\ lc' = lc /\ program' = program
      /\ line_is_comment' = FALSE /\ pass = "index"
      /\ pass' \in {pass, "undefined"} /\ i' \in {i, i + 1} /\ ic' \in {ic, 0}
  BY <1>1 DEF IndexLabel, LineEnd
<1> QED BY <1>1, <1>6, <1>7, <1>8, <1>9 DEF TypeInv, Pass

LEMMA AssembleLineTypes == TypeInv /\ AssembleLine => TypeInv'
<1>1. SUFFICES ASSUME TypeInv, AssembleLine PROVE TypeInv'
  OBVIOUS
<1>2. PICK value \in Values : program' = Append(program, Assembled(value))
  BY <1>1 DEF AssembleLine
<1>3. value \in Imm(Len(list))
  BY <1>1, ValuesType
<1>4. Op \in DOMAIN Arity
  BY <1>1 DEF AssembleLine, Crashes
<1>5. \A t \in Registers : Register[Operand(t)] \in Nat
  BY AssemblerAssumption DEF Registers
<1>6. Assembled(value) \in Instruction(Len(list))
  BY <1>3, <1>4, <1>5 DEF Assembled, Instruction
<1>7. program' \in Seq(Instruction(Len(list))) /\ Len(program') = Len(program) + 1
  BY <1>1, <1>2, <1>6, AppendProperties DEF TypeInv
<1>8. lc = Len(program) /\ lc < PROGRAM_SIZE /\ lc \in Nat
  <2>1. pass = "assemble" /\ ~ (lc >= PROGRAM_SIZE)
    BY <1>1 DEF AssembleLine, LineEnd, Overruns
  <2> QED BY <1>1, <2>1, Sizes DEF TypeInv
<1>9. ClearedLine \in [0 .. TK_SIZE - 1 -> Token \cup {NoToken}]
  BY <1>1 DEF ClearedLine, TypeInv
<1>10. i + 1 \in 1 .. Len(list) + 1 /\ i \in Nat
  BY <1>1, ReadToken DEF AssembleLine, LineEnd
<1>11. /\ list' = list /\ tk' = ClearedLine /\ lc' = lc + 1 /\ labels' = labels
       /\ line_is_comment' = FALSE /\ pass = "assemble" /\ pass' = pass
       /\ i' = i + 1 /\ ic' = 0
  BY <1>1 DEF AssembleLine, LineEnd
<1>12. 0 \in 0 .. TK_SIZE /\ PROGRAM_SIZE \in Nat
  BY Sizes
<1> QED BY <1>1, <1>7, <1>8, <1>9, <1>10, <1>11, <1>12 DEF TypeInv

LEMMA AssembleTypes ==
  TypeInv /\ (SkipLabel \/ SkipEmptyLine \/ AssembleAborts \/ AssembleOverruns
              \/ AssembleDone)
    => TypeInv'
<1>1. ASSUME TypeInv, SkipLabel PROVE TypeInv'
  <2>1. i + 1 \in 1 .. Len(list) + 1 /\ i \in Nat
    BY <1>1, ReadToken DEF SkipLabel, LineEnd
  <2>2. ic' \in 0 .. TK_SIZE
    BY <1>1, Sizes DEF SkipLabel, TokensAfterLabel
  <2> QED BY <1>1, <2>1, <2>2 DEF TypeInv, SkipLabel
<1>2. ASSUME TypeInv, SkipEmptyLine PROVE TypeInv'
  <2>1. i + 1 \in 1 .. Len(list) + 1 /\ i \in Nat
    BY <1>2, ReadToken DEF SkipEmptyLine, LineEnd
  <2> QED BY <1>2, <2>1 DEF TypeInv, SkipEmptyLine
<1>3. ASSUME TypeInv, AssembleAborts \/ AssembleOverruns PROVE TypeInv'
  BY <1>3 DEF TypeInv, Pass, AssembleAborts, AssembleOverruns, LineEnd
<1>4. ASSUME TypeInv, AssembleDone PROVE TypeInv'
  BY <1>4 DEF TypeInv, Pass, AssembleDone
<1> QED BY <1>1, <1>2, <1>3, <1>4

LEMMA NextTypeInv == TypeInv /\ [Next]_vars => TypeInv'
<1>1. TypeInv /\ UNCHANGED vars => TypeInv'
  BY DEF TypeInv, vars
<1> QED BY <1>1, CommentTypes, CollectTypes, IndexTypes, IndexLabelTypes,
          AssembleLineTypes, AssembleTypes DEF Next, Step, Finished

LEMMA TypesInvariant == Spec => []TypeInv
BY InitTypeInv, NextTypeInv, PTL DEF Spec

LEMMA NextFlag == line_is_comment \in BOOLEAN /\ [Next]_vars => (line_is_comment \in BOOLEAN)'
BY DEF Next, Step, Finished, vars, Comment, Collect, IndexOneToken, IndexLabel,
       IndexLine, IndexDone, SkipLabel, AssembleLine, AssembleAborts, AssembleOverruns,
       SkipEmptyLine, AssembleDone

LEMMA ListFixed == [Next]_vars => list' = list
BY DEF Next, Step, Finished, vars, Comment, Collect, IndexOneToken, IndexLabel,
       IndexLine, IndexDone, SkipLabel, AssembleLine, AssembleAborts, AssembleOverruns,
       SkipEmptyLine, AssembleDone

LEMMA TypesMeant == TypeInv /\ line_is_comment \in BOOLEAN => TypeOK
<1>1. TypeInv => labels \in Seq([name : Text, address : 0 .. Len(list)])
  BY DEF TypeInv, LabelEntry
<1>2. TypeInv => program \in Seq([op : DOMAIN Arity, regs : [1 .. 3 -> Nat], dval : Immediate])
  BY DEF TypeInv, Instruction, Imm, Immediate
<1>3. TypeInv => lc \in 0 .. Len(list)
  BY DEF TypeInv
<1> QED BY <1>1, <1>2, <1>3, Zenon DEF TypeInv, TypeOK, Pass

\* The passes keep within the arrays they check, and the second pass has assembled
\* as many instructions as it has counted (basic_assembler.c, index_labels
\* and assemble_program).
THEOREM TypeCorrect == Spec => []TypeOK
<1>1. Init => line_is_comment \in BOOLEAN
  BY DEF Init
<1> QED BY <1>1, InitTypeInv, NextTypeInv, NextFlag, TypesMeant, PTL DEF Spec

-----------------------------------------------------------------------------
(***************************************************************************)
(* Lines.  What a line of the source is, against what the passes see of it *)
(* when they are at its end.                                               *)
(***************************************************************************)

\* The line that is being read starts at s.
InLine(s) ==
  /\ s \in 1 .. i
  /\ s = 1 \/ list[s - 1].type = "EXPRESSION_END"
  /\ \A k \in s .. i - 1 : list[k].type # "EXPRESSION_END"

\* The buffer holds its first tokens, up to a comment.
Buffered(s) ==
  /\ s + ic <= i
  /\ \A k \in 0 .. ic - 1 : tk[k] = list[s + k]
  /\ \A k \in s .. s + ic - 1 : list[k].type \notin {"HASH", "EXPRESSION_END"}
  /\ line_is_comment => s + ic < i /\ list[s + ic].type = "HASH"
  /\ ~line_is_comment => i = s + ic

LabelsAbove(s) == Cardinality({d \in LabelStarts : d < s})

\* Nothing about the source changes.
LEMMA SourceFixed ==
  ASSUME list' = list
  PROVE  /\ LineStarts' = LineStarts
         /\ InstructionStarts' = InstructionStarts
         /\ LabelStarts' = LabelStarts
         /\ \A x : Above(x)' = Above(x)
         /\ \A x : LabelsAbove(x)' = LabelsAbove(x)
         /\ WellSpaced' = WellSpaced
<1>1. LineStarts' = LineStarts
  BY DEF LineStarts
<1>2. LabelStarts' = LabelStarts
  BY <1>1 DEF LabelStarts
<1>3. InstructionStarts' = InstructionStarts
  BY <1>1, <1>2 DEF InstructionStarts
<1>4. \A x : Above(x)' = Above(x)
  BY <1>3 DEF Above
<1>5. \A x : LabelsAbove(x)' = LabelsAbove(x)
  BY <1>2 DEF LabelsAbove
<1>6. WellSpaced' = WellSpaced
  BY <1>2, <1>3, <1>4 DEF WellSpaced
<1> QED BY <1>1, <1>2, <1>3, <1>4, <1>5, <1>6

\* Lines are counted by numbers.
LEMMA StartsFinite ==
  ASSUME TypeInv
  PROVE  /\ LineStarts \subseteq 1 .. Len(list)
         /\ LabelStarts \subseteq LineStarts /\ InstructionStarts \subseteq LineStarts
         /\ IsFiniteSet(LabelStarts) /\ IsFiniteSet(InstructionStarts)
         /\ \A x : Above(x) \in Nat /\ LabelsAbove(x) \in Nat
<1>1. DOMAIN list = 1 .. Len(list) /\ Len(list) \in Nat
  BY DEF TypeInv
<1>2. LineStarts \subseteq 1 .. Len(list)
  BY <1>1 DEF LineStarts
<1>3. LabelStarts \subseteq LineStarts /\ InstructionStarts \subseteq LineStarts
  BY DEF LabelStarts, InstructionStarts
<1>4. IsFiniteSet(1 .. Len(list))
  BY <1>1, FS_Interval
<1>5. \A S \in SUBSET (1 .. Len(list)) : IsFiniteSet(S) /\ Cardinality(S) \in Nat
  BY <1>4, FS_Subset, FS_CardinalityType
<1>6. \A x : Above(x) \in Nat
  BY <1>2, <1>3, <1>5 DEF Above
<1>7. \A x : LabelsAbove(x) \in Nat
  BY <1>2, <1>3, <1>5 DEF LabelsAbove
<1> QED BY <1>2, <1>3, <1>5, <1>6, <1>7

\* No line has more instructions above it than there are.
LEMMA AboveBounded ==
  ASSUME TypeInv
  PROVE  /\ Cardinality(InstructionStarts) \in Nat
         /\ \A s : Above(s) \in Nat /\ Above(s) <= Cardinality(InstructionStarts)
<1>1. IsFiniteSet(InstructionStarts) /\ Cardinality(InstructionStarts) \in Nat
  BY StartsFinite, FS_CardinalityType
<1>2. \A s : {t \in InstructionStarts : t < s} \subseteq InstructionStarts
  OBVIOUS
<1>3. \A s : Above(s) <= Cardinality(InstructionStarts)
  BY <1>1, <1>2, FS_Subset DEF Above
<1> QED BY <1>1, <1>3, StartsFinite

\* A line has more lines above it than one further up.
LEMMA AboveGrows ==
  ASSUME TypeInv, NEW t \in InstructionStarts, NEW s \in Nat, t < s
  PROVE  Above(t) \in Nat /\ Above(t) < Above(s)
<1> DEFINE below == {u \in InstructionStarts : u < t}
           all   == {u \in InstructionStarts : u < s}
<1>1. InstructionStarts \subseteq Nat /\ IsFiniteSet(InstructionStarts) /\ t \in Nat
  BY StartsFinite DEF TypeInv
<1>2. IsFiniteSet(all) /\ below \subseteq all /\ t \in all /\ t \notin below
  <2>1. all \subseteq InstructionStarts
    OBVIOUS
  <2>2. IsFiniteSet(all)
    <3> HIDE DEF all
    <3> QED BY <1>1, <2>1, FS_Subset
  <2>3. ASSUME NEW u \in below PROVE u \in all
    <3>1. u \in Nat /\ u \in InstructionStarts /\ u < t
      BY <1>1, <2>3
    <3>2. u < s
      BY <1>1, <3>1
    <3> QED BY <3>1, <3>2
  <2>4. t \in all
    OBVIOUS
  <2>5. t \notin below
    BY <1>1
  <2>6. below \subseteq all
    <3> HIDE DEF below, all
    <3> QED BY <2>3
  <2> HIDE DEF below, all
  <2> QED BY <2>2, <2>4, <2>5, <2>6
<1>3. Cardinality(below) \in Nat /\ Cardinality(below) < Cardinality(all)
  <2> HIDE DEF below, all
  <2>1. below # all
    BY <1>2
  <2> QED BY <1>2, <2>1, FS_Subset, FS_CardinalityType
<1> QED BY <1>3 DEF Above

LEMMA LabelsAboveGrows ==
  ASSUME TypeInv, NEW d \in LabelStarts, NEW e \in LabelStarts, d <= e
  PROVE  LabelsAbove(d) <= LabelsAbove(e)
<1> DEFINE below == {u \in LabelStarts : u < d}
           all   == {u \in LabelStarts : u < e}
<1>1. LabelStarts \subseteq Nat /\ IsFiniteSet(LabelStarts)
  BY StartsFinite DEF TypeInv
<1>2. IsFiniteSet(all) /\ below \subseteq all
  <2>1. all \subseteq LabelStarts
    OBVIOUS
  <2>2. IsFiniteSet(all)
    <3> HIDE DEF all
    <3> QED BY <1>1, <2>1, FS_Subset
  <2>3. ASSUME NEW u \in below PROVE u \in all
    <3>1. u \in Nat /\ u \in LabelStarts /\ u < d /\ d \in Nat /\ e \in Nat
      BY <1>1, <2>3
    <3>2. u < e
      BY <3>1
    <3> QED BY <3>1, <3>2
  <2>4. below \subseteq all
    <3> HIDE DEF below, all
    <3> QED BY <2>3
  <2> HIDE DEF below, all
  <2> QED BY <2>2, <2>4
<1>3. Cardinality(below) <= Cardinality(all)
  <2> HIDE DEF below, all
  <2> QED BY <1>2, FS_Subset, FS_CardinalityType
<1> QED BY <1>3 DEF LabelsAbove

\* At the end of a line, the line is one more than those above it.
LEMMA LinesAtEnd ==
  ASSUME TypeInv, NEW s, InLine(s), i <= Len(list), Type = "EXPRESSION_END"
  PROVE  /\ s \in LineStarts
         /\ \A t \in LineStarts : t < i + 1 <=> t < s \/ t = s
         /\ Above(i + 1) = IF s \in InstructionStarts THEN Above(s) + 1 ELSE Above(s)
         /\ LabelsAbove(i + 1) =
              IF s \in LabelStarts THEN LabelsAbove(s) + 1 ELSE LabelsAbove(s)
<1>1. /\ Len(list) \in Nat /\ i \in 1 .. Len(list) /\ DOMAIN list = 1 .. Len(list)
      /\ s \in 1 .. i /\ list[i].type = "EXPRESSION_END"
  BY DEF TypeInv, InLine, Type
<1>2. s \in LineStarts
  BY <1>1 DEF InLine, LineStarts
<1>3. ASSUME NEW t \in LineStarts PROVE t < i + 1 <=> t < s \/ t = s
  <2>1. t \in 1 .. Len(list) /\ (t = 1 \/ list[t - 1].type = "EXPRESSION_END")
    BY <1>1, <1>3 DEF LineStarts
  <2>2. ASSUME s < t, t < i + 1 PROVE FALSE
    <3>1. t - 1 \in s .. i - 1 /\ t # 1
      BY <1>1, <2>1, <2>2
    <3> QED BY <2>1, <3>1 DEF InLine
  <2> QED BY <1>1, <2>1, <2>2
<1>4. \A S \in SUBSET LineStarts :
        {t \in S : t < i + 1} = IF s \in S THEN {t \in S : t < s} \cup {s}
                                          ELSE {t \in S : t < s}
  BY <1>3
<1>5. \A S \in SUBSET LineStarts : IsFiniteSet({t \in S : t < s})
  <2>1. IsFiniteSet(1 .. Len(list)) /\ LineStarts \subseteq 1 .. Len(list)
    BY <1>1, FS_Interval, StartsFinite
  <2> QED BY <2>1, FS_Subset
<1>6. s \notin {t \in InstructionStarts : t < s} /\ s \notin {t \in LabelStarts : t < s}
  BY <1>1
<1>7. InstructionStarts \in SUBSET LineStarts /\ LabelStarts \in SUBSET LineStarts
  BY StartsFinite
<1>8. Above(i + 1) = IF s \in InstructionStarts THEN Above(s) + 1 ELSE Above(s)
  <2>1. IsFiniteSet({t \in InstructionStarts : t < s})
    BY <1>5, <1>7
  <2>2. Cardinality({t \in InstructionStarts : t < s} \cup {s})
          = Cardinality({t \in InstructionStarts : t < s}) + 1
    BY <1>6, <2>1, FS_AddElement
  <2> QED BY <1>4, <1>7, <2>2 DEF Above
<1>9. LabelsAbove(i + 1) = IF s \in LabelStarts THEN LabelsAbove(s) + 1 ELSE LabelsAbove(s)
  <2>1. IsFiniteSet({t \in LabelStarts : t < s})
    BY <1>5, <1>7
  <2>2. Cardinality({t \in LabelStarts : t < s} \cup {s})
          = Cardinality({t \in LabelStarts : t < s}) + 1
    BY <1>6, <2>1, FS_AddElement
  <2> QED BY <1>4, <1>7, <2>2 DEF LabelsAbove
<1> QED BY <1>2, <1>3, <1>8, <1>9

\* At the end of the source all lines are above.
LEMMA LinesAtEndOfSource ==
  ASSUME TypeInv, NEW s, InLine(s), i > Len(list)
  PROVE  /\ \A t \in LineStarts : t < s
         /\ Above(s) = Cardinality(InstructionStarts)
         /\ LabelsAbove(s) = Cardinality(LabelStarts)
<1>1. Len(list) \in Nat /\ i = Len(list) + 1 /\ DOMAIN list = 1 .. Len(list) /\ s \in 1 .. i
  BY DEF TypeInv, InLine
<1>2. ASSUME NEW t \in LineStarts PROVE t < s
  <2>1. t \in 1 .. Len(list)
    BY <1>1, <1>2 DEF LineStarts
  <2>2. PICK e \in t .. Len(list) : list[e].type = "EXPRESSION_END"
    BY <1>2 DEF LineStarts
  <2>3. ~ (e \in s .. i - 1)
    BY <2>2 DEF InLine
  <2> QED BY <1>1, <2>1, <2>2, <2>3
<1>3. InstructionStarts \subseteq LineStarts /\ LabelStarts \subseteq LineStarts
  BY StartsFinite
<1>4. {t \in InstructionStarts : t < s} = InstructionStarts
  BY <1>2, <1>3
<1>5. {t \in LabelStarts : t < s} = LabelStarts
  BY <1>2, <1>3
<1> QED BY <1>2, <1>4, <1>5 DEF Above, LabelsAbove

\* What the buffer tells of the line at its end: the first token says whether it
\* is empty, and the second, if it is one of the line's, whether it is a label.
LEMMA LineMeaning ==
  ASSUME TypeInv, NEW s, InLine(s), Buffered(s), i <= Len(list), Type = "EXPRESSION_END"
  PROVE  /\ ic = 0 => s \notin InstructionStarts /\ s \notin LabelStarts
         /\ ic # 0 => /\ tk[0] = list[s]
                      /\ s \in LabelStarts <=> ic # 1 /\ LooksLikeLabel
                      /\ s \in InstructionStarts <=> s \notin LabelStarts
         /\ ic = 1 => list[s + 1].type \in {"HASH", "EXPRESSION_END"}
<1>1. /\ ic \in Nat /\ s \in Nat /\ i \in Nat /\ s >= 1
      /\ list[i].type = "EXPRESSION_END"
  BY Sizes DEF TypeInv, InLine, Type
<1>2. s \in LineStarts
  BY LinesAtEnd
<1>3. list[s + ic].type \in {"HASH", "EXPRESSION_END"}
  BY <1>1 DEF Buffered
<1>4. ASSUME ic = 0 PROVE s \notin InstructionStarts /\ s \notin LabelStarts
  <2>1. list[s].type \in {"HASH", "EXPRESSION_END"}
    BY <1>1, <1>3, <1>4
  <2> QED BY <2>1 DEF InstructionStarts, LabelStarts
<1>5. ASSUME ic # 0
      PROVE  tk[0] = list[s] /\ list[s].type \notin {"HASH", "EXPRESSION_END"}
  <2>1. 0 \in 0 .. ic - 1 /\ s \in s .. s + ic - 1 /\ s + 0 = s
    BY <1>1, <1>5
  <2> QED BY <2>1 DEF Buffered
<1>6. ASSUME ic # 0, ic # 1
      PROVE  tk[1] = list[s + 1]
  <2>1. 1 \in 0 .. ic - 1
    BY <1>1, <1>6
  <2> QED BY <2>1 DEF Buffered
<1>7. ASSUME ic # 0
      PROVE  s \in LabelStarts <=> ic # 1 /\ LooksLikeLabel
  <2>1. CASE ic = 1
    <3>1. list[s + 1].type # "COLON"
      BY <1>3, <2>1
    <3> QED BY <2>1, <3>1 DEF LabelStarts
  <2>2. CASE ic # 1
    BY <1>2, <1>5, <1>6, <1>7, <2>2 DEF LabelStarts, LooksLikeLabel, SecondIsColon
  <2> QED BY <2>1, <2>2
<1>8. ASSUME ic # 0
      PROVE  s \in InstructionStarts <=> s \notin LabelStarts
  BY <1>2, <1>5, <1>8 DEF InstructionStarts
<1> QED BY <1>3, <1>4, <1>5, <1>7, <1>8

\* Comment and Collect leave the line what it is, and collect no colon for a
\* line that has only one token.
LEMMA LineGoesOn ==
  ASSUME TypeInv, NEW s, InLine(s), Buffered(s), Comment \/ (Collect /\ pass' = pass)
  PROVE  /\ InLine(s)' /\ Buffered(s)'
         /\ ic' <= 1 /\ SecondIsColon' => ic <= 1 /\ SecondIsColon
<1>1. /\ ic \in Nat /\ s \in Nat /\ i \in Nat /\ s >= 1 /\ s <= i /\ list' = list
      /\ tk \in [0 .. TK_SIZE - 1 -> Token \cup {NoToken}] /\ TK_SIZE \in Nat /\ TK_SIZE >= 2
  BY Sizes DEF TypeInv, InLine, Comment, Collect
<1>2. i' = i + 1 /\ list[i].type # "EXPRESSION_END"
  <2>1. CASE Comment
    <3>1. CASE line_is_comment
      BY <2>1, <3>1 DEF Comment, Type
    <3>2. CASE ~ line_is_comment
      BY <2>1, <3>2 DEF Comment, Type
    <3> QED BY <2>1, <3>1, <3>2 DEF Comment
  <2>2. CASE Collect /\ pass' = pass
    <3>1. ic < TK_SIZE
      BY <2>2 DEF Collect, Walking
    <3> QED BY <2>2, <3>1 DEF Collect, Type
  <2> QED BY <2>1, <2>2
<1>3. InLine(s)'
  <2>1. ASSUME NEW k \in s .. i' - 1 PROVE list[k].type # "EXPRESSION_END"
    <3>1. k \in s .. i - 1 \/ k = i
      BY <1>1, <1>2
    <3> QED BY <1>2, <3>1 DEF InLine
  <2>2. s \in 1 .. i'
    BY <1>1, <1>2
  <2> QED BY <1>1, <2>1, <2>2 DEF InLine
<1>4. CASE Comment
  <2>1. ic' = ic /\ tk' = tk /\ line_is_comment'
    BY <1>4 DEF Comment
  <2>2. s + ic < i + 1 /\ list[s + ic].type = "HASH"
    <3>1. CASE line_is_comment
      BY <1>1, <3>1 DEF Buffered
    <3>2. CASE ~ line_is_comment
      <4>1. i = s + ic /\ list[i].type = "HASH"
        BY <1>4, <3>2 DEF Buffered, Comment, Type
      <4> QED BY <1>1, <4>1
    <3> QED BY <3>1, <3>2
  <2>3. Buffered(s)'
    <3>1. s + ic' <= i'
      BY <1>1, <1>2, <2>1, <2>2
    <3> QED BY <1>1, <1>2, <2>1, <2>2, <3>1 DEF Buffered
  <2> QED BY <1>3, <2>1, <2>3 DEF SecondIsColon
<1>5. CASE Collect /\ pass' = pass
  <2>1. ~ line_is_comment /\ list[i].type \notin {"HASH", "EXPRESSION_END"} /\ i = s + ic
    BY <1>5 DEF Collect, Type, Buffered
  <2>2. ic < TK_SIZE
    BY <1>5 DEF Collect, Walking
  <2>3. tk' = [tk EXCEPT ![ic] = list[i]] /\ ic' = ic + 1 /\ line_is_comment' = line_is_comment
    BY <1>5, <2>2 DEF Collect
  <2>4. ASSUME NEW k \in 0 .. ic' - 1 PROVE tk'[k] = list[s + k]
    <3>1. k \in 0 .. TK_SIZE - 1 /\ ic \in 0 .. TK_SIZE - 1
      BY <1>1, <2>2, <2>3
    <3>2. CASE k = ic
      BY <1>1, <2>1, <2>3, <3>1, <3>2
    <3>3. CASE k # ic
      <4>1. k \in 0 .. ic - 1
        BY <1>1, <2>3, <3>3
      <4> QED BY <1>1, <2>3, <3>1, <3>3, <4>1 DEF Buffered
    <3> QED BY <3>2, <3>3
  <2>5. ASSUME NEW k \in s .. s + ic' - 1 PROVE list[k].type \notin {"HASH", "EXPRESSION_END"}
    <3>1. k \in s .. s + ic - 1 \/ k = i
      BY <1>1, <2>1, <2>3
    <3> QED BY <2>1, <3>1 DEF Buffered
  <2>6. ~ line_is_comment'
    BY <2>1, <2>3
  <2>7. s + ic' <= i' /\ i' = s + ic'
    BY <1>1, <1>2, <2>1, <2>3
  <2>8. Buffered(s)'
    BY <1>1, <2>4, <2>5, <2>6, <2>7 DEF Buffered
  <2>9. ic' <= 1 /\ SecondIsColon' => ic <= 1 /\ SecondIsColon
    <3>1. ic' <= 1 => ic = 0 /\ tk'[1] = tk[1]
      BY <1>1, <2>3
    <3> QED BY <3>1 DEF SecondIsColon
  <2> QED BY <1>3, <2>8, <2>9
<1> QED BY <1>4, <1>5

\* The next line starts with nothing in the buffer.
LEMMA LineStarted ==
  ASSUME TypeInv, i <= Len(list), Type = "EXPRESSION_END", NEW n, n = i + 1,
         list' = list, i' = i + 1, ic' = 0, ~ line_is_comment'
  PROVE  InLine(n)' /\ Buffered(n)'
<1>1. i \in Nat /\ i >= 1 /\ n \in Nat /\ n - 1 = i
  BY DEF TypeInv
<1>2. n \in 1 .. i' /\ list'[n - 1].type = "EXPRESSION_END" /\ n .. i' - 1 = {}
  BY <1>1 DEF Type
<1>3. InLine(n)'
  BY <1>2 DEF InLine
<1>4. 0 .. ic' - 1 = {} /\ n .. n + ic' - 1 = {} /\ n + ic' <= i' /\ i' = n + ic'
  BY <1>1
<1>5. Buffered(n)'
  BY <1>4 DEF Buffered
<1> QED BY <1>3, <1>5

-----------------------------------------------------------------------------
(***************************************************************************)
(* assemble_program.  In any source the program is made of some of the     *)
(* instructions above the line; those that are not kept have one token.    *)
(* In a source that is well spaced all are kept, since a colon that is     *)
(* left in tk[1] is that of a label with no instruction below it yet.      *)
(***************************************************************************)
ColonOfLabel(s) ==
  ic <= 1 /\ SecondIsColon => \E d \in LabelStarts : d < s /\ Above(d) = Above(s)

Below(kept, t) == Cardinality({u \in kept : u < t})

Kept(kept, s) ==
  /\ \A t \in kept : t < s
  /\ Cardinality(kept) = Len(program)
  /\ \A t \in kept : program[Below(kept, t) + 1].op = list[t].literall
  /\ \A t \in InstructionStarts \ kept :
       t < s => list[t + 1].type \in {"HASH", "EXPRESSION_END"}
  /\ WellSpaced => \A t \in InstructionStarts : t < s => t \in kept

AssembleLineInv(s, kept) ==
  /\ InLine(s) /\ Buffered(s)
  /\ WellSpaced => ColonOfLabel(s)
  /\ Kept(kept, s)

\* Such a source is assembled line by line.
WellSpacedAssembled == WellSpaced => EveryLineAssembled

AssembleInv ==
  /\ pass = "assemble" =>
       \E s \in Nat, kept \in SUBSET InstructionStarts : AssembleLineInv(s, kept)
  /\ OnlyLoneWordsLost
  /\ WellSpacedAssembled

\* The second pass starts above the first line.
LEMMA AssembleStarts ==
  ASSUME TypeInv, TypeInv', IndexDone
  PROVE  AssembleInv'
<1>1. /\ list' = list /\ pass' = "assemble" /\ i' = 1 /\ ic' = 0 /\ ~ line_is_comment'
      /\ program' = <<>> /\ ~ SecondIsColon'
  <2>1. tk' = [t \in 0 .. TK_SIZE - 1 |-> NoToken] /\ 1 \in 0 .. TK_SIZE - 1
    BY Sizes DEF IndexDone
  <2>2. ~ SecondIsColon'
    BY <2>1 DEF SecondIsColon, NoToken
  <2>3. program' = <<>>
    BY DEF IndexDone, TypeInv
  <2> QED BY <2>2, <2>3 DEF IndexDone
<1>2. InLine(1)'
  BY <1>1 DEF InLine
<1>3. Buffered(1)'
  BY <1>1 DEF Buffered
<1>4. ColonOfLabel(1)'
  BY <1>1 DEF ColonOfLabel
<1>5. \A t \in InstructionStarts' : ~ (t < 1)
  BY <1>1, StartsFinite, SourceFixed
<1>6. Kept({}, 1)'
  BY <1>1, <1>5, FS_EmptySet DEF Kept
<1>7. AssembleLineInv(1, {})'
  BY <1>2, <1>3, <1>4, <1>6 DEF AssembleLineInv
<1>8. \E s \in Nat, kept \in SUBSET InstructionStarts' : AssembleLineInv(s, kept)'
  BY <1>7
<1> QED BY <1>1, <1>8 DEF AssembleInv, OnlyLoneWordsLost, WellSpacedAssembled, EveryLineAssembled

LEMMA AssembleGoesOn ==
  ASSUME TypeInv, AssembleInv, pass = "assemble", Comment \/ (Collect /\ pass' = pass)
  PROVE  AssembleInv'
<1>1. PICK s \in Nat, kept \in SUBSET InstructionStarts : AssembleLineInv(s, kept)
  BY DEF AssembleInv
<1>2. list' = list /\ program' = program /\ pass' = pass
  BY DEF Comment, Collect
<1>3. /\ InLine(s)' /\ Buffered(s)'
      /\ ic' <= 1 /\ SecondIsColon' => ic <= 1 /\ SecondIsColon
  BY <1>1, LineGoesOn DEF AssembleLineInv
<1>4. WellSpaced' => ColonOfLabel(s)'
  BY <1>1, <1>2, <1>3, SourceFixed DEF AssembleLineInv, ColonOfLabel
<1>5. Kept(kept, s)'
  BY <1>1, <1>2, SourceFixed DEF AssembleLineInv, Kept
<1>6. AssembleLineInv(s, kept)' /\ kept \in SUBSET InstructionStarts'
  BY <1>1, <1>2, <1>3, <1>4, <1>5, SourceFixed DEF AssembleLineInv
<1> QED BY <1>2, <1>6 DEF AssembleInv, OnlyLoneWordsLost, WellSpacedAssembled, EveryLineAssembled

\* A label, or an instruction of one token that is taken for one.
LEMMA SkipLabelKeeps ==
  ASSUME TypeInv, AssembleInv, SkipLabel
  PROVE  AssembleInv'
<1>1. PICK s \in Nat, kept \in SUBSET InstructionStarts : AssembleLineInv(s, kept)
  BY DEF AssembleInv, SkipLabel, LineEnd
<1>n. PICK n \in Nat : n = i + 1
  BY DEF TypeInv
<1>2. /\ list' = list /\ program' = program /\ pass' = "assemble" /\ pass = "assemble"
      /\ i <= Len(list) /\ Type = "EXPRESSION_END" /\ LooksLikeLabel /\ ic # 0
      /\ i' = i + 1 /\ ic' = 0 /\ ~ line_is_comment' /\ tk' = tk
  BY DEF SkipLabel, LineEnd, TokensAfterLabel, LooksLikeLabel
<1>3. InLine(s) /\ Buffered(s) /\ s < n
  BY <1>n, <1>1 DEF AssembleLineInv, InLine, TypeInv
<1>4. /\ s \in LineStarts
      /\ \A t \in LineStarts : t < n <=> t < s \/ t = s
      /\ Above(n) = IF s \in InstructionStarts THEN Above(s) + 1 ELSE Above(s)
  BY <1>n, <1>2, <1>3, LinesAtEnd
<1>5. /\ s \in LabelStarts <=> ic # 1
      /\ s \in InstructionStarts <=> ic = 1
      /\ ic = 1 => list[s + 1].type \in {"HASH", "EXPRESSION_END"}
  BY <1>2, <1>3, LineMeaning
<1>6. WellSpaced => ic # 1
  <2>1. SUFFICES ASSUME WellSpaced, ic = 1 PROVE FALSE
    OBVIOUS
  <2>2. PICK d \in LabelStarts : d < s /\ Above(d) = Above(s)
    BY <1>1, <1>2, <2>1 DEF AssembleLineInv, ColonOfLabel, LooksLikeLabel
  <2>3. s > d /\ d \in Nat
    BY <1>3, <2>2, StartsFinite
  <2> QED BY <1>5, <2>1, <2>2, <2>3 DEF WellSpaced
<1>7. InLine(n)' /\ Buffered(n)'
  BY <1>n, <1>2, LineStarted
<1>8. WellSpaced' => ColonOfLabel(n)'
  BY <1>2, <1>3, <1>4, <1>5, <1>6, SourceFixed DEF ColonOfLabel
<1>9. \A t \in kept : t < n
  BY <1>1, <1>3, <1>4, StartsFinite DEF AssembleLineInv, Kept
<1>10. \A t \in InstructionStarts : t < n => t < s \/ (t = s /\ ic = 1)
  BY <1>4, <1>5, StartsFinite
<1>11. Kept(kept, n)'
  BY <1>1, <1>2, <1>5, <1>6, <1>9, <1>10, SourceFixed DEF AssembleLineInv, Kept
<1>12. AssembleLineInv(n, kept)' /\ kept \in SUBSET InstructionStarts'
  BY <1>2, <1>7, <1>8, <1>11, SourceFixed DEF AssembleLineInv
<1>13. \E m \in Nat, k \in SUBSET InstructionStarts' : AssembleLineInv(m, k)'
  BY <1>3, <1>12
<1> QED BY <1>2, <1>13 DEF AssembleInv, OnlyLoneWordsLost, WellSpacedAssembled, EveryLineAssembled

LEMMA SkipEmptyLineKeeps ==
  ASSUME TypeInv, AssembleInv, SkipEmptyLine
  PROVE  AssembleInv'
<1>1. PICK s \in Nat, kept \in SUBSET InstructionStarts : AssembleLineInv(s, kept)
  BY DEF AssembleInv, SkipEmptyLine, LineEnd
<1>n. PICK n \in Nat : n = i + 1
  BY DEF TypeInv
<1>2. /\ list' = list /\ program' = program /\ pass' = "assemble" /\ pass = "assemble"
      /\ i <= Len(list) /\ Type = "EXPRESSION_END" /\ ic = 0
      /\ i' = i + 1 /\ ic' = 0 /\ ~ line_is_comment' /\ tk' = tk
  BY DEF SkipEmptyLine, LineEnd
<1>3. InLine(s) /\ Buffered(s) /\ s < n
  BY <1>n, <1>1 DEF AssembleLineInv, InLine, TypeInv
<1>4. s \notin InstructionStarts
  BY <1>2, <1>3, LineMeaning
<1>5. /\ \A t \in LineStarts : t < n <=> t < s \/ t = s
      /\ Above(n) = Above(s)
  BY <1>n, <1>2, <1>3, <1>4, LinesAtEnd
<1>6. InLine(n)' /\ Buffered(n)'
  BY <1>n, <1>2, LineStarted
<1>7. \A d \in LabelStarts : d < s => d < n
  BY <1>3, StartsFinite
<1>8. WellSpaced' => ColonOfLabel(n)'
  BY <1>1, <1>2, <1>5, <1>7, SourceFixed DEF AssembleLineInv, ColonOfLabel, SecondIsColon
<1>9. \A t \in InstructionStarts : t < n <=> t < s
  BY <1>4, <1>5, StartsFinite
<1>10. Kept(kept, n)'
  BY <1>1, <1>2, <1>9, SourceFixed DEF AssembleLineInv, Kept
<1>11. AssembleLineInv(n, kept)' /\ kept \in SUBSET InstructionStarts'
  BY <1>2, <1>6, <1>8, <1>10, SourceFixed DEF AssembleLineInv
<1>12. \E m \in Nat, k \in SUBSET InstructionStarts' : AssembleLineInv(m, k)'
  BY <1>3, <1>11
<1> QED BY <1>2, <1>12 DEF AssembleInv, OnlyLoneWordsLost, WellSpacedAssembled, EveryLineAssembled

\* The buffer has no colon behind a line that was assembled.
LEMMA ClearedColon ==
  ASSUME TypeInv, AssembleLine
  PROVE  ~ SecondIsColon'
<1>1. tk' = ClearedLine /\ ~ LooksLikeLabel /\ ic # 0
  BY DEF AssembleLine
<1>2. tk'[1] = IF 1 < ic THEN NoToken ELSE tk[1]
  BY <1>1, Sizes DEF ClearedLine
<1>3. Op \in DOMAIN Arity /\ tk[0] \in Token \cup {NoToken}
  BY Sizes DEF AssembleLine, Crashes, TypeInv
<1>4. tk[0].type = "WORD"
  BY <1>3, TokenFacts DEF Op
<1>5. ~ SecondIsColon
  BY <1>1, <1>4 DEF LooksLikeLabel
<1>6. tk[1].type # "COLON" /\ NoToken.type # "COLON"
  BY <1>5 DEF SecondIsColon, NoToken
<1> QED BY <1>2, <1>6 DEF SecondIsColon

\* A line that is assembled is an instruction, and goes behind those that are
\* kept.
LEMMA AssembleLineKeeps ==
  ASSUME TypeInv, TypeInv', AssembleInv, AssembleLine
  PROVE  AssembleInv'
<1>1. PICK s \in Nat, kept \in SUBSET InstructionStarts : AssembleLineInv(s, kept)
  BY DEF AssembleInv, AssembleLine, LineEnd
<1>n. PICK n \in Nat : n = i + 1
  BY DEF TypeInv
<1>2. /\ list' = list /\ pass' = "assemble" /\ pass = "assemble"
      /\ i <= Len(list) /\ Type = "EXPRESSION_END" /\ ~ LooksLikeLabel /\ ic # 0
      /\ i' = i + 1 /\ ic' = 0 /\ ~ line_is_comment' /\ tk' = ClearedLine
  BY DEF AssembleLine, LineEnd
<1>3. InLine(s) /\ Buffered(s) /\ s < n
  BY <1>n, <1>1 DEF AssembleLineInv, InLine, TypeInv
<1>4. s \in InstructionStarts /\ s \notin LabelStarts /\ tk[0] = list[s]
  BY <1>2, <1>3, LineMeaning
<1>5. \A t \in LineStarts : t < n <=> t < s \/ t = s
  BY <1>n, <1>2, <1>3, LinesAtEnd
<1>6. InLine(n)' /\ Buffered(n)'
  BY <1>n, <1>2, LineStarted
<1>7. ~ SecondIsColon'
  BY ClearedColon
<1>8. ColonOfLabel(n)'
  BY <1>7 DEF ColonOfLabel
<1> DEFINE more == kept \cup {s}
<1>9. IsFiniteSet(kept) /\ s \notin kept /\ Cardinality(kept) = Len(program)
  <2>1. IsFiniteSet(kept)
    BY StartsFinite, FS_Subset
  <2> QED BY <1>1, <2>1 DEF AssembleLineInv, Kept
<1>10. Cardinality(more) = Len(program) + 1
  BY <1>9, FS_AddElement
<1>11. PICK value \in Values : program' = Append(program, Assembled(value))
  BY DEF AssembleLine
<1>12. /\ Len(program) \in Nat /\ Len(program') = Len(program) + 1
       /\ \A k \in 1 .. Len(program) : program'[k] = program[k]
       /\ program'[Len(program) + 1].op = list[s].literall
  <2>1. Assembled(value).op = list[s].literall
    BY <1>4 DEF Assembled, Op
  <2>2. program \in Seq(Instruction(Len(list))) /\ program' \in Seq(Instruction(Len(list)))
    BY DEF TypeInv, AssembleLine
  <2> HIDE DEF AssembleLine
  <2> QED BY <1>11, <2>1, <2>2
<1>13. \A t \in kept : t < s /\ t \in Nat
  BY <1>1, StartsFinite DEF AssembleLineInv, Kept
<1>14. ASSUME NEW t \in more
       PROVE  program'[Below(more, t) + 1].op = list[t].literall
  <2>1. {u \in more : u < t} = {u \in kept : u < t}
    BY <1>13, <1>14
  <2>2. Below(more, t) = Below(kept, t)
    BY <2>1 DEF Below
  <2>3. CASE t = s
    <3>1. {u \in kept : u < t} = kept
      BY <1>13, <2>3
    <3> QED BY <1>9, <1>12, <2>2, <2>3, <3>1 DEF Below
  <2>4. CASE t \in kept
    <3>1. {u \in kept : u < t} \in SUBSET kept /\ {u \in kept : u < t} # kept
      BY <1>13, <2>4
    <3>2. Below(kept, t) \in Nat /\ Below(kept, t) < Len(program)
      BY <1>9, <1>12, <3>1, FS_Subset, FS_CardinalityType DEF Below
    <3>3. Below(kept, t) + 1 \in 1 .. Len(program)
      BY <1>12, <3>2
    <3> QED BY <1>1, <1>12, <2>2, <2>4, <3>3 DEF AssembleLineInv, Kept
  <2> QED BY <1>14, <2>3, <2>4
<1>15. \A t \in more : t < n
  BY <1>3, <1>13, <1>n
<1>16. \A t \in InstructionStarts : t < n => t < s \/ t = s
  BY <1>5, StartsFinite
<1>17. Kept(more, n)'
  <2>1. \A t \in InstructionStarts \ more :
          t < n => list[t + 1].type \in {"HASH", "EXPRESSION_END"}
    BY <1>1, <1>16 DEF AssembleLineInv, Kept
  <2>2. WellSpaced => \A t \in InstructionStarts : t < n => t \in more
    BY <1>1, <1>16 DEF AssembleLineInv, Kept
  <2>3. \A t \in more : program'[Below(more, t) + 1].op = list[t].literall
    BY <1>14
  <2> HIDE DEF more
  <2> QED BY <1>2, <1>10, <1>12, <1>15, <2>1, <2>2, <2>3, SourceFixed DEF Kept
<1>18. more \in SUBSET InstructionStarts'
  BY <1>2, <1>4, SourceFixed
<1>19. AssembleLineInv(n, more)'
  BY <1>6, <1>8, <1>17 DEF AssembleLineInv
<1>20. \E m \in Nat, k \in SUBSET InstructionStarts' : AssembleLineInv(m, k)'
  <2> HIDE DEF more
  <2> QED BY <1>18, <1>19
<1> QED BY <1>2, <1>20 DEF AssembleInv, OnlyLoneWordsLost, WellSpacedAssembled, EveryLineAssembled

\* At the end of the source, the instructions above are all there are.
LEMMA AssembleDoneKeeps ==
  ASSUME TypeInv, AssembleInv, AssembleDone
  PROVE  AssembleInv'
<1>1. PICK s \in Nat, kept \in SUBSET InstructionStarts : AssembleLineInv(s, kept)
  BY DEF AssembleInv, AssembleDone
<1>2. list' = list /\ program' = program /\ pass' = "done" /\ i > Len(list)
  BY DEF AssembleDone, TypeInv
<1>3. \A t \in InstructionStarts : t < s
  BY <1>1, <1>2, LinesAtEndOfSource, StartsFinite DEF AssembleLineInv
<1>4. /\ Cardinality(kept) = Len(program)
      /\ \A t \in kept : program[Cardinality({u \in kept : u < t}) + 1].op = list[t].literall
      /\ \A t \in InstructionStarts \ kept : list[t + 1].type \in {"HASH", "EXPRESSION_END"}
  BY <1>1, <1>3 DEF AssembleLineInv, Kept, Below
<1>5. OnlyLoneWordsLost'
  BY <1>2, <1>4, SourceFixed DEF OnlyLoneWordsLost
<1>6. WellSpaced => kept = InstructionStarts
  BY <1>1, <1>3 DEF AssembleLineInv, Kept
<1>7. WellSpacedAssembled'
  BY <1>2, <1>4, <1>6, SourceFixed DEF WellSpacedAssembled, EveryLineAssembled, Above
<1> QED BY <1>2, <1>5, <1>7 DEF AssembleInv

LEMMA NextAssembleInv ==
  ASSUME TypeInv, TypeInv', AssembleInv, [Next]_vars
  PROVE  AssembleInv'
<1>1. CASE UNCHANGED vars
  <2>1. UNCHANGED <<list, pass, i, tk, ic, line_is_comment, program>>
    BY <1>1 DEF vars
  <2>2. OnlyLoneWordsLost' /\ WellSpacedAssembled'
    BY <2>1, SourceFixed
      DEF AssembleInv, OnlyLoneWordsLost, WellSpacedAssembled, EveryLineAssembled
  <2>3. CASE pass = "assemble"
    <3>1. PICK s \in Nat, kept \in SUBSET InstructionStarts : AssembleLineInv(s, kept)
      BY <2>3 DEF AssembleInv
    <3>2. InLine(s)' /\ Buffered(s)'
      BY <2>1, <3>1 DEF AssembleLineInv, InLine, Buffered
    <3>3. WellSpaced' => ColonOfLabel(s)'
      BY <2>1, <3>1, SourceFixed DEF AssembleLineInv, ColonOfLabel, SecondIsColon
    <3>4. Kept(kept, s)'
      BY <2>1, <3>1, SourceFixed DEF AssembleLineInv, Kept
    <3>5. AssembleLineInv(s, kept)' /\ kept \in SUBSET InstructionStarts'
      BY <2>1, <3>2, <3>3, <3>4, SourceFixed DEF AssembleLineInv
    <3> QED BY <2>2, <3>5 DEF AssembleInv
  <2> QED BY <2>1, <2>2, <2>3 DEF AssembleInv
<1>2. CASE Step
  <2>1. CASE pass = "index" /\ pass' # "assemble"
    <3>1. pass' # "done"
      BY <1>2, <2>1 DEF Step, Comment, Collect, IndexOneToken, IndexLabel, IndexLine,
           IndexDone, SkipLabel, AssembleLine, AssembleAborts, AssembleOverruns,
           SkipEmptyLine, AssembleDone, LineEnd
    <3> QED BY <2>1, <3>1
          DEF AssembleInv, OnlyLoneWordsLost, WellSpacedAssembled, EveryLineAssembled
  <2>2. CASE pass = "index" /\ pass' = "assemble"
    <3>1. IndexDone
      BY <1>2, <2>2 DEF Step, Comment, Collect, IndexOneToken, IndexLabel, IndexLine,
           SkipLabel, AssembleLine, AssembleAborts, AssembleOverruns,
           SkipEmptyLine, AssembleDone, LineEnd
    <3> QED BY <3>1, AssembleStarts
  <2>3. CASE pass # "index"
    <3>1. CASE Comment \/ (Collect /\ pass' = pass)
      <4>1. pass = "assemble"
        BY <2>3, <3>1 DEF Comment, Collect, Walking
      <4> QED BY <3>1, <4>1, AssembleGoesOn
    <3>2. CASE pass' \in {"undefined", "aborted"}
      BY <3>2 DEF AssembleInv, OnlyLoneWordsLost, WellSpacedAssembled, EveryLineAssembled
    <3>3. CASE IndexOneToken \/ IndexLabel \/ IndexLine \/ IndexDone
      BY <2>3, <3>3 DEF IndexOneToken, IndexLabel, IndexLine, IndexDone, LineEnd
    <3>4. Collect => pass' = pass \/ pass' = "undefined"
      BY DEF Collect
    <3>5. AssembleAborts \/ AssembleOverruns => pass' \in {"undefined", "aborted"}
      BY DEF AssembleAborts, AssembleOverruns
    <3> QED BY <1>2, <3>1, <3>2, <3>3, <3>4, <3>5, SkipLabelKeeps, AssembleLineKeeps,
              SkipEmptyLineKeeps, AssembleDoneKeeps DEF Step
  <2> QED BY <2>1, <2>2, <2>3
<1> QED BY <1>1, <1>2 DEF Next, Finished

LEMMA AssembleInvariant == Spec => []AssembleInv
<1>1. Init => AssembleInv
  BY DEF Init, AssembleInv, OnlyLoneWordsLost, WellSpacedAssembled, EveryLineAssembled
<1>2. TypeInv /\ TypeInv' /\ AssembleInv /\ [Next]_vars => AssembleInv'
  BY NextAssembleInv
<1> QED BY <1>1, <1>2, TypesInvariant, PTL DEF Spec

\* Whatever the text, an assembler that ends has lost instructions of one word
\* at most, and assembled the others in their order (assemble_program).
THEOREM LinesWithOperandsKept == Spec => []OnlyLoneWordsLost
<1>1. AssembleInv => OnlyLoneWordsLost
  BY DEF AssembleInv
<1> QED BY <1>1, AssembleInvariant, PTL

-----------------------------------------------------------------------------
(***************************************************************************)
(* index_labels.  In a source that is well spaced and whose instructions   *)
(* all start with a word, the pass counts the instructions above the line  *)
(* and has the labels above it in its table.  An instruction that starts   *)
(* with no word stops the second pass, so a source that is assembled has   *)
(* none.                                                                   *)
(***************************************************************************)
Proper == WellSpaced /\ \A t \in InstructionStarts : list[t].type = "WORD"

Place(d) == LabelsAbove(d) + 1

Known(d) ==
  /\ Place(d) \in DOMAIN labels
  /\ labels[Place(d)] = [name |-> list[d].literall, address |-> Above(d)]

IndexLineInv(s) ==
  /\ InLine(s) /\ Buffered(s)
  /\ ColonOfLabel(s)
  /\ lc = Above(s)
  /\ Len(labels) = LabelsAbove(s)
  /\ \A d \in LabelStarts : d < s => Known(d)
  /\ \A k \in DOMAIN labels : \E d \in LabelStarts : d < s /\ k = Place(d)

IndexInv ==
  /\ pass = "index" /\ Proper => \E s \in Nat : IndexLineInv(s)
  /\ pass \in {"assemble", "done"} /\ Proper =>
       /\ Len(labels) = Cardinality(LabelStarts)
       /\ \A d \in LabelStarts : Known(d)
       /\ \A k \in DOMAIN labels : \E d \in LabelStarts : k = Place(d)

LEMMA ProperFixed ==
  ASSUME list' = list
  PROVE  Proper' = Proper
BY SourceFixed DEF Proper

LEMMA KnownFixed ==
  ASSUME list' = list, labels' = labels
  PROVE  \A d : Known(d)' = Known(d) /\ Place(d)' = Place(d)
BY SourceFixed DEF Known, Place

LEMMA InitIndexInv ==
  ASSUME TypeInv, Started
  PROVE  IndexInv
<1>1. /\ pass = "index" /\ i = 1 /\ ic = 0 /\ lc = 0 /\ ~ line_is_comment
      /\ Len(labels) = 0 /\ DOMAIN labels = {}
  BY DEF Started
<1>2. InLine(1) /\ Buffered(1)
  BY <1>1 DEF InLine, Buffered
<1>3. ColonOfLabel(1)
  <2>1. tk = [t \in 0 .. TK_SIZE - 1 |-> NoToken] /\ 1 \in 0 .. TK_SIZE - 1
    BY Sizes DEF Started
  <2>2. ~ SecondIsColon
    BY <2>1 DEF SecondIsColon, NoToken
  <2> QED BY <2>2 DEF ColonOfLabel
<1>4. {t \in InstructionStarts : t < 1} = {} /\ {t \in LabelStarts : t < 1} = {}
  BY StartsFinite DEF TypeInv
<1>5. Above(1) = 0 /\ LabelsAbove(1) = 0
  BY <1>4, FS_EmptySet DEF Above, LabelsAbove
<1>6. \A d \in LabelStarts : ~ (d < 1)
  BY <1>4
<1>7. IndexLineInv(1)
  BY <1>1, <1>2, <1>3, <1>5, <1>6 DEF IndexLineInv
<1> QED BY <1>1, <1>7 DEF IndexInv

LEMMA IndexGoesOn ==
  ASSUME TypeInv, IndexInv, pass = "index", Comment \/ (Collect /\ pass' = pass)
  PROVE  IndexInv'
<1>1. list' = list /\ labels' = labels /\ lc' = lc /\ pass' = "index"
  BY DEF Comment, Collect
<1>2. SUFFICES ASSUME Proper PROVE \E s \in Nat : IndexLineInv(s)'
  BY <1>1, ProperFixed DEF IndexInv
<1>3. PICK s \in Nat : IndexLineInv(s)
  BY <1>2 DEF IndexInv
<1>4. /\ InLine(s)' /\ Buffered(s)'
      /\ ic' <= 1 /\ SecondIsColon' => ic <= 1 /\ SecondIsColon
  BY <1>3, LineGoesOn DEF IndexLineInv
<1>5. ColonOfLabel(s)'
  BY <1>1, <1>3, <1>4, SourceFixed DEF IndexLineInv, ColonOfLabel
<1>6. IndexLineInv(s)'
  BY <1>1, <1>3, <1>4, <1>5, SourceFixed, KnownFixed DEF IndexLineInv
<1> QED BY <1>6

\* No line of one token is taken for a label.
LEMMA NoLoneLabel ==
  ASSUME TypeInv, Proper, NEW s \in Nat, IndexLineInv(s),
         i <= Len(list), Type = "EXPRESSION_END", LooksLikeLabel
  PROVE  ic # 1
<1>1. SUFFICES ASSUME ic = 1 PROVE FALSE
  OBVIOUS
<1>2. InLine(s) /\ Buffered(s)
  BY DEF IndexLineInv
<1>3. s \in InstructionStarts /\ list[s + 1].type \in {"HASH", "EXPRESSION_END"}
  BY <1>1, <1>2, LineMeaning
<1>4. PICK d \in LabelStarts : d < s /\ Above(d) = Above(s)
  BY <1>1 DEF IndexLineInv, ColonOfLabel, LooksLikeLabel
<1>5. s > d
  BY <1>4, StartsFinite
<1> QED BY <1>3, <1>4, <1>5 DEF Proper, WellSpaced

LEMMA IndexOneTokenKeeps ==
  ASSUME TypeInv, IndexInv, IndexOneToken
  PROVE  IndexInv'
<1>1. /\ list' = list /\ pass' = "index" /\ pass = "index" /\ ic = 1 /\ LooksLikeLabel
      /\ i <= Len(list) /\ Type = "EXPRESSION_END"
  BY DEF IndexOneToken, LineEnd
<1>2. ~ Proper
  <2>1. SUFFICES ASSUME Proper PROVE FALSE
    OBVIOUS
  <2>2. PICK s \in Nat : IndexLineInv(s)
    BY <1>1, <2>1 DEF IndexInv
  <2> QED BY <1>1, <2>1, <2>2, NoLoneLabel
<1> QED BY <1>1, <1>2, ProperFixed DEF IndexInv

\* A label goes to the table with the count of instructions above it.
LEMMA IndexLabelKeeps ==
  ASSUME TypeInv, TypeInv', IndexInv, IndexLabel
  PROVE  IndexInv'
<1>1. /\ list' = list /\ lc' = lc /\ tk' = tk /\ pass = "index" /\ ~ line_is_comment'
      /\ LooksLikeLabel /\ ic # 0 /\ ic # 1 /\ i <= Len(list) /\ Type = "EXPRESSION_END"
  BY DEF IndexLabel, LineEnd, LooksLikeLabel
<1>2. CASE ~ (Len(labels) < LABELS_SIZE)
  <2>1. pass' = "undefined"
    BY <1>2 DEF IndexLabel
  <2> QED BY <2>1 DEF IndexInv
<1>3. CASE Len(labels) < LABELS_SIZE
  <2>1. /\ labels' = Append(labels, [name |-> tk[0].literall, address |-> lc])
        /\ i' = i + 1 /\ ic' = 0 /\ pass' = "index"
    BY <1>1, <1>3 DEF IndexLabel
  <2>2. SUFFICES ASSUME Proper PROVE \E s \in Nat : IndexLineInv(s)'
    BY <1>1, <2>1, ProperFixed DEF IndexInv
  <2>3. PICK s \in Nat : IndexLineInv(s)
    BY <1>1, <2>2 DEF IndexInv
  <2>n. PICK n \in Nat : n = i + 1
    BY DEF TypeInv
  <2>4. InLine(s) /\ Buffered(s) /\ s < n
    <3>1. InLine(s) /\ Buffered(s)
      BY <2>3 DEF IndexLineInv
    <3>2. s <= i /\ i \in Nat
      BY <3>1 DEF InLine, TypeInv
    <3> QED BY <2>n, <3>1, <3>2
  <2>5. s \in LabelStarts /\ s \notin InstructionStarts /\ tk[0] = list[s]
    BY <1>1, <2>4, LineMeaning
  <2>6. /\ \A t \in LineStarts : t < n <=> t < s \/ t = s
        /\ Above(n) = Above(s)
        /\ LabelsAbove(n) = LabelsAbove(s) + 1
    BY <1>1, <2>4, <2>5, <2>n, LinesAtEnd
  <2>7. InLine(n)' /\ Buffered(n)'
    BY <1>1, <2>1, <2>n, LineStarted
  <2>8. ColonOfLabel(n)'
    BY <1>1, <2>4, <2>5, <2>6, SourceFixed DEF ColonOfLabel
  <2>9. /\ Len(labels) \in Nat /\ Len(labels') = Len(labels) + 1
        /\ \A k \in 1 .. Len(labels) : labels'[k] = labels[k]
        /\ labels'[Len(labels) + 1] = [name |-> list[s].literall, address |-> Above(s)]
    <3>1. labels \in Seq(LabelEntry(Len(list)))
      BY DEF TypeInv
    <3>2. labels' = Append(labels, [name |-> list[s].literall, address |-> Above(s)])
      BY <2>1, <2>3, <2>5 DEF IndexLineInv
    <3> QED BY <3>1, <3>2
  <2>10. DOMAIN labels = 1 .. Len(labels) /\ DOMAIN labels' = 1 .. Len(labels')
    BY DEF TypeInv
  <2>11. ASSUME NEW d \in LabelStarts, d < n PROVE Known(d)'
    <3>1. d < s \/ d = s
      BY <2>6, <2>11, StartsFinite
    <3>2. CASE d = s
      <4>1. Len(labels) + 1 \in DOMAIN labels'
        BY <2>9, <2>10
      <4>2. Place(d)' = Len(labels) + 1
        BY <1>1, <2>3, <3>2, SourceFixed DEF IndexLineInv, Place
      <4> QED BY <1>1, <2>9, <3>2, <4>1, <4>2, SourceFixed DEF Known
    <3>3. CASE d < s
      <4>1. /\ Place(d) \in DOMAIN labels
            /\ labels[Place(d)] = [name |-> list[d].literall, address |-> Above(d)]
        BY <2>3, <3>3 DEF IndexLineInv, Known
      <4>2. Place(d) \in DOMAIN labels' /\ labels'[Place(d)] = labels[Place(d)]
        BY <2>9, <2>10, <4>1
      <4>3. Place(d)' = Place(d)
        BY <1>1, SourceFixed DEF Place
      <4> QED BY <1>1, <4>1, <4>2, <4>3, SourceFixed DEF Known
    <3> QED BY <3>1, <3>2, <3>3
  <2>12. lc' = Above(n)' /\ Len(labels') = LabelsAbove(n)'
    BY <1>1, <2>3, <2>6, <2>9, SourceFixed DEF IndexLineInv
  <2>13. \A d \in LabelStarts' : d < n => Known(d)'
    BY <1>1, <2>11, SourceFixed
  <2>14. ASSUME NEW k \in DOMAIN labels'
         PROVE  \E d \in LabelStarts' : d < n /\ k = Place(d)'
    <3>1. k \in DOMAIN labels \/ k = Len(labels) + 1
      BY <2>9, <2>10, <2>14
    <3>2. \A d : Place(d)' = Place(d)
      BY <1>1, SourceFixed DEF Place
    <3>3. CASE k = Len(labels) + 1
      <4>1. k = Place(s)'
        BY <2>3, <3>2, <3>3 DEF IndexLineInv, Place
      <4> QED BY <1>1, <2>4, <2>5, <4>1, SourceFixed
    <3>4. CASE k \in DOMAIN labels
      <4>1. PICK d \in LabelStarts : d < s /\ k = Place(d)
        BY <2>3, <3>4 DEF IndexLineInv
      <4>2. d < n
        BY <2>6, <4>1, StartsFinite
      <4> QED BY <1>1, <3>2, <4>1, <4>2, SourceFixed
    <3> QED BY <3>1, <3>3, <3>4
  <2>15. IndexLineInv(n)'
    BY <2>7, <2>8, <2>12, <2>13, <2>14 DEF IndexLineInv
  <2> QED BY <2>15
<1> QED BY <1>2, <1>3

\* Any other line is an instruction if it is not empty.
LEMMA IndexLineKeeps ==
  ASSUME TypeInv, IndexInv, IndexLine
  PROVE  IndexInv'
<1>1. /\ list' = list /\ labels' = labels /\ tk' = tk /\ pass = "index" /\ pass' = "index"
      /\ ~ line_is_comment' /\ ~ LooksLikeLabel /\ i <= Len(list)
      /\ Type = "EXPRESSION_END" /\ i' = i + 1 /\ ic' = 0 /\ lc' = LineCounted
  BY DEF IndexLine, LineEnd
<1>2. SUFFICES ASSUME Proper PROVE \E s \in Nat : IndexLineInv(s)'
  BY <1>1, ProperFixed DEF IndexInv
<1>3. PICK s \in Nat : IndexLineInv(s)
  BY <1>1, <1>2 DEF IndexInv
<1>n. PICK n \in Nat : n = i + 1
  BY DEF TypeInv
<1>4. InLine(s) /\ Buffered(s) /\ s < n
  BY <1>3, <1>n DEF IndexLineInv, InLine, TypeInv
<1>5. s \notin LabelStarts /\ (s \in InstructionStarts <=> ic # 0)
  BY <1>1, <1>4, LineMeaning
<1>6. /\ \A t \in LineStarts : t < n <=> t < s \/ t = s
      /\ Above(n) = IF ic # 0 THEN Above(s) + 1 ELSE Above(s)
      /\ LabelsAbove(n) = LabelsAbove(s)
  BY <1>1, <1>4, <1>5, <1>n, LinesAtEnd
<1>7. InLine(n)' /\ Buffered(n)'
  BY <1>1, <1>n, LineStarted
<1>8. ic # 0 => ~ SecondIsColon
  <2>1. ic # 0 => tk[0].type = "WORD"
    BY <1>1, <1>2, <1>4, <1>5, LineMeaning DEF Proper
  <2> QED BY <1>1, <2>1 DEF LooksLikeLabel
<1>9. lc' = Above(n)
  BY <1>1, <1>3, <1>6, <1>8 DEF LineCounted, IndexLineInv
<1>10. \A d \in LabelStarts : d < s => d < n
  BY <1>4, StartsFinite
<1>11. ColonOfLabel(n)'
  <2>1. CASE ic # 0
    BY <1>1, <1>8, <2>1 DEF ColonOfLabel, SecondIsColon
  <2>2. CASE ic = 0
    BY <1>1, <1>3, <1>6, <1>10, <2>2, SourceFixed
      DEF IndexLineInv, ColonOfLabel, SecondIsColon
  <2> QED BY <2>1, <2>2
<1>12. \A d \in LabelStarts : d < n => d < s
  BY <1>5, <1>6, StartsFinite
<1>13. \A k \in DOMAIN labels' : \E d \in LabelStarts' : d < n /\ k = Place(d)'
  BY <1>1, <1>3, <1>10, SourceFixed, KnownFixed DEF IndexLineInv
<1>14. IndexLineInv(n)'
  BY <1>1, <1>3, <1>6, <1>7, <1>9, <1>11, <1>12, <1>13, SourceFixed, KnownFixed
     DEF IndexLineInv
<1> QED BY <1>14

LEMMA IndexDoneKeeps ==
  ASSUME TypeInv, IndexInv, IndexDone
  PROVE  IndexInv'
<1>1. /\ list' = list /\ labels' = labels /\ pass = "index" /\ pass' = "assemble"
      /\ i > Len(list)
  BY DEF IndexDone
<1>2. SUFFICES ASSUME Proper
               PROVE  /\ Len(labels) = Cardinality(LabelStarts)
                      /\ \A d \in LabelStarts : Known(d)
                      /\ \A k \in DOMAIN labels : \E d \in LabelStarts : k = Place(d)
  BY <1>1, SourceFixed, ProperFixed, KnownFixed DEF IndexInv
<1>3. PICK s \in Nat : IndexLineInv(s)
  BY <1>1, <1>2 DEF IndexInv
<1>4. (\A t \in LineStarts : t < s) /\ LabelsAbove(s) = Cardinality(LabelStarts)
  BY <1>1, <1>3, LinesAtEndOfSource DEF IndexLineInv
<1> QED BY <1>3, <1>4, StartsFinite DEF IndexLineInv

LEMMA NextIndexInv ==
  ASSUME TypeInv, TypeInv', IndexInv, [Next]_vars
  PROVE  IndexInv'
<1>1. CASE UNCHANGED vars
  <2>1. UNCHANGED <<list, pass, i, tk, ic, lc, line_is_comment, labels>>
    BY <1>1 DEF vars
  <2>2. CASE pass = "index" /\ Proper
    <3>1. PICK s \in Nat : IndexLineInv(s)
      BY <2>2 DEF IndexInv
    <3>2. InLine(s)' /\ Buffered(s)'
      BY <2>1, <3>1 DEF IndexLineInv, InLine, Buffered
    <3>3. ColonOfLabel(s)'
      BY <2>1, <3>1, SourceFixed DEF IndexLineInv, ColonOfLabel, SecondIsColon
    <3>4. IndexLineInv(s)'
      BY <2>1, <3>1, <3>2, <3>3, SourceFixed, KnownFixed DEF IndexLineInv
    <3> QED BY <2>1, <2>2, <3>4 DEF IndexInv
  <2>3. CASE ~ (pass = "index" /\ Proper)
    BY <2>1, <2>3, SourceFixed, ProperFixed, KnownFixed DEF IndexInv
  <2> QED BY <2>2, <2>3
<1>2. ASSUME list' = list, labels' = labels, pass \in {"assemble", "done"},
             pass' # "index"
      PROVE  IndexInv'
  BY <1>2, SourceFixed, ProperFixed, KnownFixed DEF IndexInv
<1>3. CASE pass' \in {"aborted", "undefined"}
  BY <1>3 DEF IndexInv
<1>4. CASE Comment \/ (Collect /\ pass' = pass)
  <2>1. list' = list /\ labels' = labels /\ pass' = pass /\ pass \in {"index", "assemble"}
    BY <1>4 DEF Comment, Collect, Walking
  <2> QED BY <1>2, <1>4, <2>1, IndexGoesOn
<1>5. Collect => pass' = pass \/ pass' = "undefined"
  BY DEF Collect
<1>6. AssembleAborts \/ AssembleOverruns => pass' \in {"aborted", "undefined"}
  BY DEF AssembleAborts, AssembleOverruns
<1>7. ASSUME SkipLabel \/ AssembleLine \/ SkipEmptyLine \/ AssembleDone
      PROVE  IndexInv'
  <2>1. list' = list /\ labels' = labels /\ pass = "assemble" /\ pass' # "index"
    BY <1>7 DEF SkipLabel, AssembleLine, SkipEmptyLine, AssembleDone, LineEnd
  <2> QED BY <1>2, <2>1
<1> QED BY <1>1, <1>3, <1>4, <1>5, <1>6, <1>7, IndexOneTokenKeeps, IndexLabelKeeps,
          IndexLineKeeps, IndexDoneKeeps DEF Next, Step, Finished

LEMMA IndexInvariant == Spec => []IndexInv
<1>1. TypeInv /\ Init => IndexInv
  BY InitIndexInv DEF Init, Started
<1>2. TypeInv /\ TypeInv' /\ IndexInv /\ [Next]_vars => IndexInv'
  BY NextIndexInv
<1> QED BY <1>1, <1>2, TypesInvariant, PTL DEF Spec

\* Where the source is assembled line by line, its instructions are words.
LEMMA AssembledIsProper ==
  ASSUME TypeInv, AssembleInv, pass = "done", WellSpaced
  PROVE  Proper
<1>1. /\ Len(program) = Cardinality(InstructionStarts)
      /\ \A s \in InstructionStarts : program[Above(s) + 1].op = list[s].literall
  BY DEF AssembleInv, WellSpacedAssembled, EveryLineAssembled
<1>2. ASSUME NEW s \in InstructionStarts PROVE list[s].type = "WORD"
  <2>1. s \in 1 .. Len(list) /\ Len(list) \in Nat /\ Len(program) \in Nat
    BY <1>2, StartsFinite DEF TypeInv
  <2>2. /\ {t \in InstructionStarts : t < s} \in SUBSET InstructionStarts
        /\ {t \in InstructionStarts : t < s} # InstructionStarts
    BY <1>2, <2>1
  <2>3. Above(s) \in Nat /\ Above(s) < Len(program)
    BY <1>1, <2>1, <2>2, StartsFinite, FS_Subset, FS_CardinalityType DEF Above
  <2>4. Above(s) + 1 \in 1 .. Len(program)
    BY <2>1, <2>3
  <2>5. program[Above(s) + 1] \in Instruction(Len(list))
    BY <2>4, ElementOfSeq DEF TypeInv
  <2>6. list[s].literall \in DOMAIN Arity
    BY <1>1, <1>2, <2>5 DEF Instruction
  <2>7. list[s] \in Token
    BY <2>1, ElementOfSeq DEF TypeInv
  <2> QED BY <2>6, <2>7, TokenFacts
<1> QED BY <1>2 DEF Proper

\* If it is assembled, such a source has all its labels in the table, each with
\* the address of the first instruction below it (index_labels).
THEOREM WellSpacedSourcesIndexed == Spec => []WellSpacedIndexed
<1>1. ASSUME TypeInv, AssembleInv, IndexInv PROVE WellSpacedIndexed
  <2>1. SUFFICES ASSUME WellSpaced, pass = "done" PROVE EveryLabelFound
    BY DEF WellSpacedIndexed, EveryLabelFound
  <2>2. Proper
    BY <1>1, <2>1, AssembledIsProper
  <2> QED BY <1>1, <2>1, <2>2 DEF IndexInv, Known, EveryLabelFound
<1> QED BY <1>1, TypesInvariant, AssembleInvariant, IndexInvariant, PTL

-----------------------------------------------------------------------------
(***************************************************************************)
(* References.  In a source that is well spaced, each line that is         *)
(* assembled is found where the instructions above it say, and a reference *)
(* has the address that find_label gives it - the labels do not change any *)
(* more - unless parse_reg takes it for a value.                           *)
(***************************************************************************)
LookedUp(name) == Garbage \cup (IF Found(name) THEN {AddressOf(name)} ELSE {})

Resolved(t) ==
  \A name : RefersTo(t, name) => program[Above(t) + 1].dval \in LookedUp(name)

ReferenceLineInv(s) ==
  /\ InLine(s) /\ Buffered(s)
  /\ ColonOfLabel(s)
  /\ Len(program) = Above(s)
  /\ \A t \in InstructionStarts : t < s => Resolved(t)

ReferencesInv ==
  WellSpaced =>
    /\ pass = "assemble" => \E s \in Nat : ReferenceLineInv(s)
    /\ pass = "done" => \A t \in InstructionStarts : Resolved(t)

LEMMA ReferencesFixed ==
  ASSUME list' = list
  PROVE  /\ \A t, name : RefersTo(t, name)' = RefersTo(t, name)
         /\ \A d : FirstOfName(d)' = FirstOfName(d)
         /\ labels' = labels => \A name : LookedUp(name)' = LookedUp(name)
<1>1. \A t : OperandsOf(t)' = OperandsOf(t)
  BY DEF OperandsOf
<1>2. labels' = labels => \A name : LookedUp(name)' = LookedUp(name)
  BY DEF LookedUp, Found, AddressOf
<1> QED BY <1>1, <1>2, SourceFixed DEF RefersTo, FirstOfName

LEMMA ResolvedFixed ==
  ASSUME list' = list, labels' = labels, program' = program
  PROVE  \A t : Resolved(t)' = Resolved(t)
BY ReferencesFixed, SourceFixed DEF Resolved

\* The operands of a line are those in the buffer, at its end.
LEMMA OperandsBuffered ==
  ASSUME TypeInv, NEW s, InLine(s), Buffered(s), ic # 0, i <= Len(list),
         Type = "EXPRESSION_END"
  PROVE  /\ OperandsOf(s) = s + 1 .. s + ic - 1
         /\ \A t \in 1 .. ic - 1 : Operand(t) = list[s + t].literall
<1>1. /\ ic \in Nat /\ ic >= 1 /\ s \in Nat /\ i \in Nat /\ Len(list) \in Nat /\ s >= 1
      /\ s + ic <= i /\ list[i].type = "EXPRESSION_END"
  BY Sizes DEF TypeInv, InLine, Buffered, Type
<1>2. list[s + ic].type \in {"HASH", "EXPRESSION_END"}
  BY <1>1 DEF Buffered
<1>3. \A k \in s .. s + ic - 1 : list[k].type \notin {"HASH", "EXPRESSION_END"}
  BY DEF Buffered
<1>4. ASSUME NEW k \in s + 1 .. s + ic - 1
      PROVE  k \in OperandsOf(s)
  <2>1. k \in s + 1 .. Len(list)
    BY <1>1, <1>4
  <2>2. \A j \in s + 1 .. k : j \in s .. s + ic - 1
    BY <1>1, <1>4
  <2> QED BY <1>3, <2>1, <2>2 DEF OperandsOf
<1>5. ASSUME NEW k \in OperandsOf(s)
      PROVE  k \in s + 1 .. s + ic - 1
  <2>1. k \in s + 1 .. Len(list)
    BY <1>5 DEF OperandsOf
  <2>2. ~ (s + ic \in s + 1 .. k)
    BY <1>2, <1>5 DEF OperandsOf
  <2> QED BY <1>1, <2>1, <2>2
<1>6. ASSUME NEW t \in 1 .. ic - 1
      PROVE  Operand(t) = list[s + t].literall
  <2>1. t \in 0 .. ic - 1
    BY <1>1
  <2> QED BY <2>1 DEF Buffered, Operand
<1>7. OperandsOf(s) \subseteq s + 1 .. s + ic - 1
  BY <1>5
<1> QED BY <1>4, <1>6, <1>7

\* What assemble_line makes of a reference.
LEMMA ReferenceValue ==
  ASSUME TypeInv, NEW s, InLine(s), Buffered(s), ic # 0, i <= Len(list),
         Type = "EXPRESSION_END", NEW name, RefersTo(s, name)
  PROVE  Values \subseteq LookedUp(name)
<1>1. /\ ic \in Nat /\ ic >= 1 /\ s \in Nat
      /\ OperandsOf(s) = s + 1 .. s + ic - 1
      /\ \A t \in 1 .. ic - 1 : Operand(t) = list[s + t].literall
  <2>1. ic \in Nat /\ s \in Nat
    BY DEF TypeInv, InLine
  <2>2. ic >= 1
    BY <2>1
  <2> QED BY <2>1, <2>2, OperandsBuffered
<1>2. Op = list[s].literall
  BY LineMeaning DEF Op
<1>3. Op \in DOMAIN Arity /\ Arity[Op] \in Nat /\ Op \notin FloatKeyword
  <2>1. list[s].literall \in DOMAIN Arity \ FloatKeyword
    BY DEF RefersTo
  <2>2. \A w \in DOMAIN Arity : Arity[w] \in 0 .. 3
    BY AssemblerAssumption
  <2> QED BY <1>2, <2>1, <2>2
<1>4. s + 1 \in OperandsOf(s) /\ s + 1 .. s + ic - 1 = s + 1 .. s + Arity[Op]
  BY <1>1, <1>2 DEF RefersTo
<1>5. ic >= 2 /\ ic = Arity[Op] + 1
  <2>1. s + 1 \in s + 1 .. s + ic - 1 /\ s + 1 \in s + 1 .. s + Arity[Op]
    BY <1>1, <1>4
  <2>2. 1 <= ic - 1 /\ 1 <= Arity[Op]
    BY <1>1, <1>3, <2>1
  <2>3. s + ic - 1 \in s + 1 .. s + ic - 1 /\ s + Arity[Op] \in s + 1 .. s + Arity[Op]
    BY <1>1, <1>3, <2>2
  <2>4. s + ic - 1 \in s + 1 .. s + Arity[Op] /\ s + Arity[Op] \in s + 1 .. s + ic - 1
    BY <1>4, <2>3
  <2> DEFINE a == Arity[Op]
  <2>5. a \in Nat /\ s + ic - 1 \in s + 1 .. s + a /\ s + a \in s + 1 .. s + ic - 1
    BY <1>3, <2>4
  <2> HIDE DEF a
  <2>6. ic - 1 <= a /\ a <= ic - 1
    BY <1>1, <2>5
  <2>7. ic = a + 1 /\ 1 <= ic - 1
    BY <1>1, <2>2, <2>5, <2>6
  <2> QED BY <1>1, <2>7 DEF a
<1>6. Operands = 1 .. ic - 1
  BY <1>3, <1>5 DEF Operands
<1>7. /\ Operand(1) \in DOMAIN Reference /\ Reference[Operand(1)] = name
      /\ Operand(1) \notin DOMAIN Register /\ Operand(1) \notin DOMAIN Number
  <2>1. Operand(1) = list[s + 1].literall
    BY <1>1, <1>5
  <2>2. Operand(1) \in DOMAIN Reference /\ Reference[Operand(1)] = name
    BY <1>4, <2>1 DEF RefersTo
  <2> QED BY <2>2, AssemblerAssumption
<1>8. ASSUME NEW t \in 2 .. ic - 1
      PROVE  Operand(t) \in DOMAIN Register
  <2>1. /\ s + t \in OperandsOf(s) /\ s + t # s + 1
        /\ Operand(t) = list[s + t].literall
    BY <1>1, <1>8
  <2> QED BY <2>1 DEF RefersTo
<1>9. Operands \ Registers = {1}
  <2>1. 1 \in Operands /\ 1 \notin Registers
    BY <1>5, <1>6, <1>7 DEF Registers
  <2>2. ASSUME NEW t \in Operands, t # 1
        PROVE  t \in Registers
    <3>1. t \in 2 .. ic - 1
      BY <1>1, <1>6, <2>2
    <3> QED BY <1>8, <2>2, <3>1 DEF Registers
  <2> QED BY <2>1, <2>2
<1>10. ~ LeavesValue(Operand(1))
  BY <1>3, <1>7 DEF LeavesValue
<1>11. Values = OperandValues(Operand(1))
  <2> DEFINE Last(t) == \A u \in {1} : u > t => LeavesValue(Operand(u))
  <2>1. {zero \in {0} : Last(0)} = {} /\ {t \in {1} : Last(t)} = {1}
    BY <1>10
  <2> HIDE DEF Last
  <2>2. Values = {zero \in {0} : Last(0)}
                 \cup UNION {OperandValues(Operand(t)) : t \in {u \in {1} : Last(u)}}
    BY <1>9 DEF Values, Last
  <2> QED BY <2>1, <2>2
<1>12. OperandValues(Operand(1)) = LookedUp(name)
  BY <1>3, <1>7 DEF OperandValues, LookedUp
<1> QED BY <1>11, <1>12

LEMMA ReferencesStart ==
  ASSUME TypeInv, TypeInv', IndexDone
  PROVE  ReferencesInv'
<1>1. /\ list' = list /\ pass' = "assemble" /\ i' = 1 /\ ic' = 0 /\ ~ line_is_comment'
      /\ Len(program') = 0 /\ ~ SecondIsColon'
  <2>1. tk' = [t \in 0 .. TK_SIZE - 1 |-> NoToken] /\ 1 \in 0 .. TK_SIZE - 1
    BY Sizes DEF IndexDone
  <2>2. ~ SecondIsColon'
    BY <2>1 DEF SecondIsColon, NoToken
  <2>3. program' = <<>>
    BY DEF IndexDone, TypeInv
  <2> QED BY <2>2, <2>3 DEF IndexDone
<1>2. InLine(1)' /\ Buffered(1)' /\ ColonOfLabel(1)'
  BY <1>1 DEF InLine, Buffered, ColonOfLabel
<1>3. \A t \in InstructionStarts' : ~ (t < 1)
  BY <1>1, StartsFinite, SourceFixed
<1>4. {t \in InstructionStarts' : t < 1} = {}
  BY <1>3
<1>5. Above(1)' = 0
  BY <1>4, FS_EmptySet DEF Above
<1>6. ReferenceLineInv(1)'
  BY <1>1, <1>2, <1>3, <1>5 DEF ReferenceLineInv
<1> QED BY <1>1, <1>6 DEF ReferencesInv

LEMMA ReferencesGoOn ==
  ASSUME TypeInv, ReferencesInv, pass = "assemble", Comment \/ (Collect /\ pass' = pass)
  PROVE  ReferencesInv'
<1>1. list' = list /\ labels' = labels /\ program' = program /\ pass' = "assemble"
  BY DEF Comment, Collect
<1>2. SUFFICES ASSUME WellSpaced PROVE \E s \in Nat : ReferenceLineInv(s)'
  BY <1>1, SourceFixed DEF ReferencesInv
<1>3. PICK s \in Nat : ReferenceLineInv(s)
  BY <1>2 DEF ReferencesInv
<1>4. /\ InLine(s)' /\ Buffered(s)'
      /\ ic' <= 1 /\ SecondIsColon' => ic <= 1 /\ SecondIsColon
  BY <1>3, LineGoesOn DEF ReferenceLineInv
<1>5. ColonOfLabel(s)'
  BY <1>1, <1>3, <1>4, SourceFixed DEF ReferenceLineInv, ColonOfLabel
<1>6. ReferenceLineInv(s)'
  BY <1>1, <1>3, <1>4, <1>5, SourceFixed, ResolvedFixed DEF ReferenceLineInv
<1> QED BY <1>6

\* The line that ends is a label or empty.
LEMMA ReferencesSkip ==
  ASSUME TypeInv, ReferencesInv, SkipLabel \/ SkipEmptyLine
  PROVE  ReferencesInv'
<1>n. PICK n \in Nat : n = i + 1
  BY DEF TypeInv
<1>1. /\ list' = list /\ labels' = labels /\ program' = program /\ tk' = tk
      /\ pass = "assemble" /\ pass' = "assemble"
      /\ i <= Len(list) /\ Type = "EXPRESSION_END"
      /\ i' = i + 1 /\ ic' = 0 /\ ~ line_is_comment'
      /\ ic = 0 \/ LooksLikeLabel
  BY DEF SkipLabel, SkipEmptyLine, LineEnd, TokensAfterLabel
<1>2. SUFFICES ASSUME WellSpaced PROVE \E s \in Nat : ReferenceLineInv(s)'
  BY <1>1, SourceFixed DEF ReferencesInv
<1>3. PICK s \in Nat : ReferenceLineInv(s)
  BY <1>1, <1>2 DEF ReferencesInv
<1>4. InLine(s) /\ Buffered(s) /\ s < n
  BY <1>n, <1>3 DEF ReferenceLineInv, InLine, TypeInv
<1>5. /\ \A t \in LineStarts : t < n <=> t < s \/ t = s
      /\ Above(n) = IF s \in InstructionStarts THEN Above(s) + 1 ELSE Above(s)
  BY <1>n, <1>1, <1>4, LinesAtEnd
<1>6. /\ ic # 0 => (s \in LabelStarts <=> ic # 1 /\ LooksLikeLabel)
      /\ ic # 0 => (s \in InstructionStarts <=> s \notin LabelStarts)
      /\ ic = 1 => list[s + 1].type \in {"HASH", "EXPRESSION_END"}
      /\ ic = 0 => s \notin InstructionStarts /\ s \notin LabelStarts
  BY <1>1, <1>4, LineMeaning
<1>7. ic # 1
  <2>1. SUFFICES ASSUME ic = 1 PROVE FALSE
    OBVIOUS
  <2>2. s \in InstructionStarts /\ LooksLikeLabel
    BY <1>1, <1>6, <2>1
  <2>3. PICK d \in LabelStarts : d < s /\ Above(d) = Above(s)
    BY <1>3, <2>1, <2>2 DEF ReferenceLineInv, ColonOfLabel, LooksLikeLabel
  <2>4. s > d
    BY <1>4, <2>3, StartsFinite
  <2> QED BY <1>2, <1>6, <2>1, <2>2, <2>3, <2>4 DEF WellSpaced
<1>8. s \notin InstructionStarts /\ Above(n) = Above(s)
  BY <1>1, <1>5, <1>6, <1>7
<1>9. InLine(n)' /\ Buffered(n)'
  BY <1>n, <1>1, LineStarted
<1>10. ColonOfLabel(n)'
  <2>1. CASE ic = 0
    BY <1>1, <1>3, <1>4, <1>5, <1>8, <2>1, SourceFixed, StartsFinite
       DEF ReferenceLineInv, ColonOfLabel, SecondIsColon
  <2>2. CASE ic # 0
    <3>1. s \in LabelStarts
      BY <1>1, <1>6, <1>7, <2>2
    <3> QED BY <1>1, <1>4, <1>8, <3>1, SourceFixed DEF ColonOfLabel
  <2> QED BY <2>1, <2>2
<1>11. \A t \in InstructionStarts : t < n => t < s
  BY <1>5, <1>8, StartsFinite
<1>12. ReferenceLineInv(n)'
  BY <1>1, <1>3, <1>8, <1>9, <1>10, <1>11, SourceFixed, ResolvedFixed DEF ReferenceLineInv
<1> QED BY <1>12

\* An instruction is assembled.
LEMMA ReferencesAssembled ==
  ASSUME TypeInv, TypeInv', ReferencesInv, AssembleLine
  PROVE  ReferencesInv'
<1>n. PICK n \in Nat : n = i + 1
  BY DEF TypeInv
<1>1. /\ list' = list /\ labels' = labels /\ pass' = "assemble" /\ pass = "assemble"
      /\ i <= Len(list) /\ Type = "EXPRESSION_END" /\ ~ LooksLikeLabel /\ ic # 0
      /\ i' = i + 1 /\ ic' = 0 /\ ~ line_is_comment' /\ tk' = ClearedLine
  BY DEF AssembleLine, LineEnd
<1>2. SUFFICES ASSUME WellSpaced PROVE \E s \in Nat : ReferenceLineInv(s)'
  BY <1>1, SourceFixed DEF ReferencesInv
<1>3. PICK s \in Nat : ReferenceLineInv(s)
  BY <1>1, <1>2 DEF ReferencesInv
<1>4. InLine(s) /\ Buffered(s) /\ s < n
  BY <1>n, <1>3 DEF ReferenceLineInv, InLine, TypeInv
<1>5. s \in InstructionStarts
  BY <1>1, <1>4, LineMeaning
<1>6. /\ \A t \in LineStarts : t < n <=> t < s \/ t = s
      /\ Above(n) = Above(s) + 1
  BY <1>n, <1>1, <1>4, <1>5, LinesAtEnd
<1>7. InLine(n)' /\ Buffered(n)'
  BY <1>n, <1>1, LineStarted
<1>8. ~ SecondIsColon'
  BY ClearedColon
<1>9. PICK value \in Values : program' = Append(program, Assembled(value))
  BY DEF AssembleLine
<1>10. /\ Len(program) \in Nat /\ Len(program') = Len(program) + 1
       /\ \A k \in 1 .. Len(program) : program'[k] = program[k]
       /\ program'[Len(program) + 1].dval = value
  <2>1. Assembled(value).dval = value
    BY DEF Assembled
  <2>2. program \in Seq(Instruction(Len(list)))
    BY DEF TypeInv
  <2> HIDE DEF AssembleLine
  <2> QED BY <1>9, <2>1, <2>2
<1>11. Len(program) = Above(s)
  BY <1>3 DEF ReferenceLineInv
<1>12. ASSUME NEW t \in InstructionStarts, t < n PROVE Resolved(t)'
  <2>1. t < s \/ t = s
    BY <1>6, <1>12, StartsFinite
  <2>2. ASSUME NEW name, RefersTo(t, name) PROVE program'[Above(t) + 1].dval \in LookedUp(name)
    <3>1. CASE t = s
      <4>1. value \in LookedUp(name)
        BY <1>1, <1>4, <2>2, <3>1, ReferenceValue
      <4> QED BY <1>10, <1>11, <3>1, <4>1
    <3>2. CASE t < s
      <4>1. Above(t) < Above(s) /\ Above(t) \in Nat
        BY <1>4, <3>2, AboveGrows
      <4>2. Above(t) + 1 \in 1 .. Len(program)
        BY <1>10, <1>11, <4>1
      <4>3. program[Above(t) + 1].dval \in LookedUp(name)
        BY <1>3, <2>2, <3>2 DEF ReferenceLineInv, Resolved
      <4> QED BY <1>10, <4>2, <4>3
    <3> QED BY <2>1, <3>1, <3>2
  <2> QED BY <1>1, <2>2, ReferencesFixed, SourceFixed DEF Resolved
<1>13. ReferenceLineInv(n)'
  BY <1>1, <1>6, <1>7, <1>8, <1>10, <1>11, <1>12, SourceFixed
     DEF ReferenceLineInv, ColonOfLabel
<1> QED BY <1>13

LEMMA ReferencesDone ==
  ASSUME TypeInv, ReferencesInv, AssembleDone
  PROVE  ReferencesInv'
<1>1. /\ list' = list /\ labels' = labels /\ program' = program
      /\ pass = "assemble" /\ pass' = "done" /\ i > Len(list)
  BY DEF AssembleDone, TypeInv
<1>2. SUFFICES ASSUME WellSpaced PROVE \A t \in InstructionStarts : Resolved(t)'
  BY <1>1, SourceFixed DEF ReferencesInv
<1>3. PICK s \in Nat : ReferenceLineInv(s)
  BY <1>1, <1>2 DEF ReferencesInv
<1>4. \A t \in InstructionStarts : t < s
  BY <1>1, <1>3, LinesAtEndOfSource, StartsFinite DEF ReferenceLineInv
<1> QED BY <1>1, <1>3, <1>4, ResolvedFixed DEF ReferenceLineInv

LEMMA NextReferencesInv ==
  ASSUME TypeInv, TypeInv', ReferencesInv, [Next]_vars
  PROVE  ReferencesInv'
<1>1. CASE UNCHANGED vars
  <2>1. UNCHANGED <<list, pass, i, tk, ic, line_is_comment, labels, program>>
    BY <1>1 DEF vars
  <2>2. \A s : ReferenceLineInv(s)' = ReferenceLineInv(s)
    BY <2>1, SourceFixed, ResolvedFixed
       DEF ReferenceLineInv, InLine, Buffered, ColonOfLabel, SecondIsColon
  <2> QED BY <2>1, <2>2, SourceFixed, ResolvedFixed DEF ReferencesInv
<1>2. CASE pass' \notin {"assemble", "done"}
  BY <1>2 DEF ReferencesInv
<1>3. CASE Comment \/ (Collect /\ pass' = pass)
  <2>1. pass' = pass /\ pass \in {"index", "assemble"}
    BY <1>3 DEF Comment, Collect, Walking
  <2> QED BY <1>2, <1>3, <2>1, ReferencesGoOn
<1>4. Collect => pass' = pass \/ pass' = "undefined"
  BY DEF Collect
<1>5. IndexOneToken \/ IndexLabel \/ IndexLine \/ AssembleAborts \/ AssembleOverruns
        => pass' \notin {"assemble", "done"}
  BY DEF IndexOneToken, IndexLabel, IndexLine, AssembleAborts, AssembleOverruns, LineEnd
<1> QED BY <1>1, <1>2, <1>3, <1>4, <1>5, ReferencesStart, ReferencesSkip, ReferencesAssembled,
          ReferencesDone DEF Next, Step, Finished

\* find_label gives the first label of a name the address that the first pass has
\* noted for it.
LEMMA FirstLabelFound ==
  ASSUME TypeInv, IndexInv, pass = "done", Proper, NEW d \in LabelStarts, FirstOfName(d)
  PROVE  Found(list[d].literall) /\ AddressOf(list[d].literall) = Above(d)
<1> DEFINE name == list[d].literall
           First(k) == /\ labels[k].name = name
                       /\ \A j \in 1 .. k - 1 : labels[j].name # name
<1>1. DOMAIN labels = 1 .. Len(labels) /\ Len(labels) \in Nat
  BY DEF TypeInv
<1>0. /\ \A e \in LabelStarts : Known(e)
      /\ \A k \in DOMAIN labels : \E e \in LabelStarts : k = Place(e)
  BY DEF IndexInv
<1>2. /\ Place(d) \in DOMAIN labels
      /\ labels[Place(d)] = [name |-> name, address |-> Above(d)]
  BY <1>0 DEF Known
<1>3. ASSUME NEW j \in DOMAIN labels, labels[j].name = name
      PROVE  Place(d) <= j
  <2>1. PICK e \in LabelStarts : j = Place(e)
    BY <1>3, <1>0
  <2>2. labels[Place(e)] = [name |-> list[e].literall, address |-> Above(e)]
    BY <1>0 DEF Known
  <2>5. labels[j].name = list[e].literall
    BY <2>1, <2>2
  <2>3. d <= e
    BY <1>3, <2>5 DEF FirstOfName
  <2>4. LabelsAbove(d) <= LabelsAbove(e)
    BY <2>3, LabelsAboveGrows
  <2> QED BY <2>1, <2>4, StartsFinite DEF Place
<1>4. First(Place(d))
  <2>1. ASSUME NEW j \in 1 .. Place(d) - 1 PROVE labels[j].name # name
    <3>1. j \in DOMAIN labels /\ ~ (Place(d) <= j)
      BY <1>1, <1>2
    <3> QED BY <1>3, <3>1
  <2> QED BY <1>2, <2>1
<1>5. ASSUME NEW k \in DOMAIN labels, First(k) PROVE k = Place(d)
  <2>1. Place(d) <= k
    BY <1>3, <1>5
  <2>2. ~ (Place(d) \in 1 .. k - 1)
    BY <1>2, <1>5
  <2> QED BY <1>1, <1>2, <2>1, <2>2
<1>6. (CHOOSE k \in DOMAIN labels : First(k)) = Place(d)
  <2> HIDE DEF First
  <2> QED BY <1>2, <1>4, <1>5
<1>7. AddressOf(name) = labels[CHOOSE k \in DOMAIN labels : First(k)].address
  BY DEF AddressOf
<1>8. Found(name)
  BY <1>2 DEF Found
<1>9. labels[Place(d)].address = Above(d)
  BY <1>2
<1> HIDE DEF First
<1> QED BY <1>6, <1>7, <1>8, <1>9

LEMMA ResolvedMeant ==
  ASSUME TypeInv, AssembleInv, IndexInv, ReferencesInv
  PROVE  WellSpacedResolved
<1>1. SUFFICES ASSUME pass = "done", WellSpaced,
                      NEW s \in InstructionStarts, NEW d \in LabelStarts,
                      RefersTo(s, list[d].literall), FirstOfName(d)
               PROVE  program[Above(s) + 1].dval \in Garbage \cup {Above(d)}
  BY DEF WellSpacedResolved
<1>2. Proper
  BY <1>1, AssembledIsProper
<1>3. Found(list[d].literall) /\ AddressOf(list[d].literall) = Above(d)
  BY <1>1, <1>2, FirstLabelFound
<1>4. program[Above(s) + 1].dval \in LookedUp(list[d].literall)
  BY <1>1 DEF ReferencesInv, Resolved
<1> QED BY <1>3, <1>4 DEF LookedUp

\* Whatever the source, if it is well spaced and assembled, a reference in it has
\* the address of the first instruction below the label that it names, unless
\* parse_reg took it for a value (assemble_line, find_label).
THEOREM WellSpacedReferencesResolved == Spec => []WellSpacedResolved
<1>1. Init => ReferencesInv
  BY DEF Init, ReferencesInv
<1>2. TypeInv /\ TypeInv' /\ ReferencesInv /\ [Next]_vars => ReferencesInv'
  BY NextReferencesInv
<1>3. TypeInv /\ AssembleInv /\ IndexInv /\ ReferencesInv => WellSpacedResolved
  BY ResolvedMeant
<1> QED BY <1>1, <1>2, <1>3, TypesInvariant, AssembleInvariant, IndexInvariant, PTL DEF Spec

-----------------------------------------------------------------------------
(***************************************************************************)
(* The limits of the arrays.  Both passes gather the tokens of a line one  *)
(* after the other, the first one perhaps behind one that the line above   *)
(* has left over.  It notes no more labels than there are lines above that *)
(* are one or start with a colon, and the second pass has no more          *)
(* instructions than there are above.                                      *)
(***************************************************************************)
Marks == LabelStarts \cup ColonStarts

MarksAbove(s) == Cardinality({t \in Marks : t < s})

\* tk has b tokens of earlier lines and then those of the line.
Gathered(s, b) ==
  /\ InLine(s)
  /\ b <= ic /\ ic - b <= i - s
  /\ ~line_is_comment => ic - b = i - s
  /\ \A k \in b .. ic - 1 : tk[k] = list[s + k - b]
  /\ Len(labels) <= MarksAbove(s)

LimitsInv ==
  /\ pass = "index" => \E s \in Nat, b \in 0 .. 1 : Gathered(s, b)
  /\ FittingSourcesDefined

LEMMA LimitsFixed ==
  ASSUME list' = list
  PROVE  /\ FitsArrays' = FitsArrays /\ Marks' = Marks
         /\ \A x : MarksAbove(x)' = MarksAbove(x)
<1>1. LineStarts' = LineStarts /\ LabelStarts' = LabelStarts
      /\ InstructionStarts' = InstructionStarts
  BY SourceFixed
<1>2. ColonStarts' = ColonStarts
  BY <1>1 DEF ColonStarts
<1>3. Marks' = Marks
  BY <1>1, <1>2 DEF Marks
<1>4. \A x : MarksAbove(x)' = MarksAbove(x)
  BY <1>3 DEF MarksAbove
<1>5. FitsArrays' = FitsArrays
  BY <1>1, <1>2 DEF FitsArrays
<1> QED BY <1>3, <1>4, <1>5

LEMMA MarksFinite ==
  ASSUME TypeInv
  PROVE  /\ Marks \subseteq LineStarts /\ IsFiniteSet(Marks) /\ Cardinality(Marks) \in Nat
         /\ \A S \in SUBSET Marks :
              IsFiniteSet(S) /\ Cardinality(S) \in Nat /\ Cardinality(S) <= Cardinality(Marks)
<1>1. Marks \subseteq LineStarts
  BY StartsFinite DEF Marks, ColonStarts
<1>2. IsFiniteSet(1 .. Len(list)) /\ Marks \subseteq 1 .. Len(list)
  <2>1. Len(list) \in Nat
    BY DEF TypeInv
  <2>2. IsFiniteSet(1 .. Len(list))
    BY <2>1, FS_Interval
  <2> QED BY <1>1, <2>2, StartsFinite
<1>3. IsFiniteSet(Marks) /\ Cardinality(Marks) \in Nat
  BY <1>2, FS_Subset, FS_CardinalityType
<1> QED BY <1>1, <1>3, FS_Subset, FS_CardinalityType

\* Below a line there are as many as above it, and one more if it is one.
LEMMA MarksAtEnd ==
  ASSUME TypeInv, NEW s, InLine(s), i <= Len(list), Type = "EXPRESSION_END"
  PROVE  /\ MarksAbove(s) \in Nat /\ MarksAbove(i + 1) \in Nat
         /\ MarksAbove(s) <= MarksAbove(i + 1)
         /\ s \in Marks => /\ MarksAbove(s) + 1 = MarksAbove(i + 1)
                           /\ MarksAbove(i + 1) <= Cardinality(Marks)
<1> DEFINE above == {t \in Marks : t < s}
           below == {t \in Marks : t < i + 1}
<1>1. \A t \in Marks : t < i + 1 <=> t < s \/ t = s
  BY LinesAtEnd, MarksFinite
<1>2. above \subseteq below /\ above \in SUBSET Marks /\ below \in SUBSET Marks
  BY <1>1
<1>3. s \notin above
  BY DEF InLine, TypeInv
<1>4. s \in Marks => below = above \cup {s}
  BY <1>1
<1>5. MarksAbove(s) = Cardinality(above) /\ MarksAbove(i + 1) = Cardinality(below)
  BY DEF MarksAbove
<1> HIDE DEF above, below
<1>6. /\ IsFiniteSet(above) /\ Cardinality(above) \in Nat
      /\ IsFiniteSet(below) /\ Cardinality(below) \in Nat
      /\ Cardinality(below) <= Cardinality(Marks)
  BY <1>2, MarksFinite
<1>7. Cardinality(above) <= Cardinality(below)
  BY <1>2, <1>6, FS_Subset
<1>8. s \in Marks => Cardinality(below) = Cardinality(above) + 1
  BY <1>3, <1>4, <1>6, FS_AddElement
<1> QED BY <1>5, <1>6, <1>7, <1>8

\* A line as long as the buffer, less one token, does not fit.
LEMMA LongLine ==
  ASSUME TypeInv, NEW s \in Nat, InLine(s), i <= Len(list), Type # "EXPRESSION_END",
         TK_SIZE <= i - s + 1
  PROVE  ~FitsArrays
<1>1. /\ TK_SIZE \in Nat /\ TK_SIZE >= 2 /\ Len(list) \in Nat /\ i \in Nat
      /\ s >= 1 /\ s <= i
  BY Sizes DEF TypeInv, InLine
<1>2. s \in 1 .. Len(list) - TK_SIZE + 1
  BY <1>1
<1>3. ASSUME NEW e \in s .. s + TK_SIZE - 1 PROVE list[e].type # "EXPRESSION_END"
  <2>1. e \in s .. i - 1 \/ e = i
    BY <1>1
  <2> QED BY <2>1 DEF InLine, Type
<1> QED BY <1>2, <1>3 DEF FitsArrays

LEMMA InitLimitsInv ==
  ASSUME TypeInv, Started
  PROVE  LimitsInv
<1>1. /\ pass = "index" /\ i = 1 /\ ic = 0 /\ ~ line_is_comment /\ Len(labels) = 0
  BY DEF Started
<1>2. InLine(1)
  BY <1>1 DEF InLine
<1>3. {t \in Marks : t < 1} \in SUBSET Marks
  OBVIOUS
<1>4. MarksAbove(1) \in Nat
  BY <1>3, MarksFinite DEF MarksAbove
<1>5. Gathered(1, 0)
  BY <1>1, <1>2, <1>4 DEF Gathered
<1> QED BY <1>1, <1>5 DEF LimitsInv, FittingSourcesDefined

\* Another token of the line, or none.
LEMMA IndexGathers ==
  ASSUME TypeInv, LimitsInv, pass = "index", Comment \/ Collect
  PROVE  LimitsInv'
<1>1. PICK s \in Nat, b \in 0 .. 1 : Gathered(s, b)
  BY DEF LimitsInv
<1>2. /\ ic \in Nat /\ i \in Nat /\ i <= Len(list) /\ TK_SIZE \in Nat /\ list' = list
      /\ tk \in [0 .. TK_SIZE - 1 -> Token \cup {NoToken}] /\ labels' = labels
      /\ InLine(s) /\ s <= i /\ s >= 1 /\ b \in Nat
  BY <1>1, Sizes DEF TypeInv, Comment, Collect, Walking, Gathered, InLine
<1>3. Type # "EXPRESSION_END"
  BY DEF Comment, Collect
<1>4. ASSUME i' = i + 1 PROVE InLine(s)'
  <2>1. \A k \in s .. i' - 1 : k \in s .. i - 1 \/ k = i
    BY <1>2, <1>4
  <2> QED BY <1>2, <1>3, <1>4, <2>1 DEF InLine, Type
<1>5. CASE Comment
  <2>1. i' = i + 1 /\ ic' = ic /\ tk' = tk /\ line_is_comment' /\ pass' = pass
    BY <1>5 DEF Comment
  <2>2. Gathered(s, b)'
    BY <1>1, <1>2, <1>4, <2>1, LimitsFixed DEF Gathered
  <2> QED BY <2>1, <2>2 DEF LimitsInv, FittingSourcesDefined
<1>6. CASE Collect /\ ic < TK_SIZE
  <2>1. /\ i' = i + 1 /\ ic' = ic + 1 /\ tk' = [tk EXCEPT ![ic] = list[i]]
        /\ ~ line_is_comment /\ line_is_comment' = line_is_comment /\ pass' = pass
    BY <1>6 DEF Collect
  <2>2. ic - b = i - s /\ b <= ic
    BY <1>1, <2>1 DEF Gathered
  <2>3. ASSUME NEW k \in b .. ic' - 1 PROVE tk'[k] = list[s + k - b]
    <3>1. k \in 0 .. TK_SIZE - 1 /\ ic \in 0 .. TK_SIZE - 1 /\ k \in Nat
      BY <1>2, <1>6, <2>1
    <3>2. CASE k = ic
      <4>1. s + k - b = i
        BY <1>2, <2>2, <3>2
      <4> QED BY <1>2, <2>1, <3>1, <3>2, <4>1
    <3>3. CASE k # ic
      <4>1. k \in b .. ic - 1
        BY <1>2, <2>1, <3>1, <3>3
      <4> QED BY <1>1, <1>2, <2>1, <3>1, <3>3, <4>1 DEF Gathered
    <3> QED BY <3>2, <3>3
  <2>4. Gathered(s, b)'
    BY <1>1, <1>2, <1>4, <2>1, <2>2, <2>3, LimitsFixed DEF Gathered
  <2> QED BY <2>1, <2>4 DEF LimitsInv, FittingSourcesDefined
<1>7. CASE Collect /\ ~ (ic < TK_SIZE)
  <2>1. ~ line_is_comment /\ pass' = "undefined"
    BY <1>7 DEF Collect
  <2>2. TK_SIZE <= i - s + 1
    BY <1>1, <1>2, <1>7, <2>1 DEF Gathered
  <2> QED BY <1>2, <1>3, <2>1, <2>2, LongLine, LimitsFixed DEF LimitsInv, FittingSourcesDefined
<1> QED BY <1>5, <1>6, <1>7

\* The next line, behind the b tokens that are left.
LEMMA NextGathered ==
  ASSUME TypeInv, NEW s \in Nat, InLine(s), i <= Len(list), Type = "EXPRESSION_END",
         Len(labels') <= MarksAbove(i + 1), list' = list, i' = i + 1,
         NEW b \in 0 .. 1, ic' = b, ~ line_is_comment'
  PROVE  \E n \in Nat : Gathered(n, b)'
<1>n. PICK n \in Nat : n = i + 1
  BY DEF TypeInv
<1>1. i \in Nat /\ i >= 1 /\ n - 1 = i
  BY <1>n DEF TypeInv
<1>2. n \in 1 .. i' /\ list'[n - 1].type = "EXPRESSION_END" /\ n .. i' - 1 = {}
  BY <1>n, <1>1 DEF Type
<1>3. InLine(n)'
  BY <1>2 DEF InLine
<1>4. ic' - b = i' - n /\ b .. ic' - 1 = {} /\ b <= ic' /\ ic' - b <= i' - n
  BY <1>n, <1>1
<1>5. Gathered(n, b)'
  BY <1>n, <1>3, <1>4, LimitsFixed DEF Gathered
<1> QED BY <1>5

\* The ends of lines.
LEMMA IndexLineGathers ==
  ASSUME TypeInv, LimitsInv, IndexOneToken \/ IndexLabel \/ IndexLine
  PROVE  LimitsInv'
<1>1. /\ pass = "index" /\ i <= Len(list) /\ Type = "EXPRESSION_END" /\ list' = list
      /\ ~ line_is_comment'
  BY DEF IndexOneToken, IndexLabel, IndexLine, LineEnd
<1>2. PICK s \in Nat, b \in 0 .. 1 : Gathered(s, b)
  BY <1>1 DEF LimitsInv
<1>3. InLine(s) /\ Len(labels) <= MarksAbove(s) /\ Len(labels) \in Nat
  BY <1>2 DEF Gathered, TypeInv
<1>4. /\ MarksAbove(s) \in Nat /\ MarksAbove(i + 1) \in Nat
      /\ MarksAbove(s) <= MarksAbove(i + 1)
      /\ s \in Marks => /\ MarksAbove(s) + 1 = MarksAbove(i + 1)
                        /\ MarksAbove(i + 1) <= Cardinality(Marks)
  BY <1>1, <1>3, MarksAtEnd
<1>5. Len(labels) <= MarksAbove(i + 1)
  BY <1>3, <1>4
<1>6. CASE IndexOneToken
  <2>1. labels' = labels /\ i' = i + 1 /\ ic' = 1 /\ pass' = pass
    BY <1>6 DEF IndexOneToken
  <2>2. \E n \in Nat : Gathered(n, 1)'
    BY <1>1, <1>3, <1>5, <2>1, NextGathered
  <2> QED BY <1>1, <2>1, <2>2 DEF LimitsInv, FittingSourcesDefined
<1>7. CASE IndexLine
  <2>1. labels' = labels /\ i' = i + 1 /\ ic' = 0 /\ pass' = pass
    BY <1>7 DEF IndexLine
  <2>2. \E n \in Nat : Gathered(n, 0)'
    BY <1>1, <1>3, <1>5, <2>1, NextGathered
  <2> QED BY <1>1, <2>1, <2>2 DEF LimitsInv, FittingSourcesDefined
<1>8. CASE IndexLabel
  <2>1. LooksLikeLabel /\ ic # 1 /\ ic # 0
    BY <1>8 DEF IndexLabel, LooksLikeLabel
  <2>2. ic \in Nat /\ ic >= 2
    BY <2>1, Sizes DEF TypeInv
  <2>3. s \in LineStarts
    BY <1>1, <1>3, LinesAtEnd
  <2>4. s \in Marks
    <3>1. CASE b = 0
      <4>1. 0 \in b .. ic - 1 /\ 1 \in b .. ic - 1 /\ s + 0 - b = s /\ s + 1 - b = s + 1
        BY <2>2, <3>1
      <4>2. tk[0] = list[s] /\ tk[1] = list[s + 1]
        BY <1>2, <4>1 DEF Gathered
      <4> QED BY <2>1, <2>3, <4>2 DEF Marks, LabelStarts, LooksLikeLabel, SecondIsColon
    <3>2. CASE b = 1
      <4>1. 1 \in b .. ic - 1 /\ s + 1 - b = s
        BY <2>2, <3>2
      <4>2. tk[1] = list[s]
        BY <1>2, <4>1 DEF Gathered
      <4> QED BY <2>1, <2>3, <4>2 DEF Marks, ColonStarts, LooksLikeLabel, SecondIsColon
    <3> QED BY <3>1, <3>2
  <2>5. CASE Len(labels) < LABELS_SIZE
    <3>1. /\ labels' = Append(labels, [name |-> tk[0].literall, address |-> lc])
          /\ i' = i + 1 /\ ic' = 0 /\ pass' = pass
      BY <1>8, <2>5 DEF IndexLabel
    <3>2. Len(labels') = Len(labels) + 1
      <4>1. labels \in Seq(LabelEntry(Len(list)))
        BY DEF TypeInv
      <4> QED BY <3>1, <4>1
    <3>3. Len(labels') <= MarksAbove(i + 1)
      BY <1>3, <1>4, <2>4, <3>2
    <3>4. \E n \in Nat : Gathered(n, 0)'
      BY <1>1, <1>3, <3>1, <3>3, NextGathered
    <3> QED BY <1>1, <3>1, <3>4 DEF LimitsInv, FittingSourcesDefined
  <2>6. CASE ~ (Len(labels) < LABELS_SIZE)
    <3>1. pass' = "undefined"
      BY <1>8, <2>6 DEF IndexLabel
    <3>2. ~ (Cardinality(Marks) <= LABELS_SIZE)
      BY <1>3, <1>4, <2>4, <2>6, MarksFinite, Sizes
    <3>3. ~ FitsArrays
      BY <3>2 DEF FitsArrays, Marks
    <3> QED BY <1>1, <3>1, <3>3, LimitsFixed DEF LimitsInv, FittingSourcesDefined
  <2> QED BY <2>5, <2>6
<1> QED BY <1>6, <1>7, <1>8

\* Where the second pass goes beyond an array, the source is not within the limits.
LEMMA AssembleLimits ==
  ASSUME TypeInv, AssembleInv, pass = "assemble", AssembleOverruns \/ Collect,
         pass' = "undefined"
  PROVE  ~FitsArrays
<1>1. PICK s \in Nat, kept \in SUBSET InstructionStarts : AssembleLineInv(s, kept)
  BY DEF AssembleInv
<1>2. InLine(s) /\ Buffered(s) /\ Kept(kept, s)
  BY <1>1 DEF AssembleLineInv
<1>3. /\ ic \in Nat /\ i \in Nat /\ TK_SIZE \in Nat /\ s >= 1 /\ Len(list) \in Nat
      /\ DOMAIN list = 1 .. Len(list)
  BY <1>2, Sizes DEF TypeInv, InLine
<1>4. CASE Collect
  <2>1. ~ line_is_comment /\ Type # "EXPRESSION_END" /\ i <= Len(list) /\ ~ (ic < TK_SIZE)
    BY <1>4 DEF Collect, Walking
  <2>2. TK_SIZE <= i - s + 1
    BY <1>2, <1>3, <2>1 DEF Buffered
  <2> QED BY <1>2, <2>1, <2>2, LongLine
<1>5. CASE AssembleOverruns
  <2>1. /\ i <= Len(list) /\ Type = "EXPRESSION_END" /\ ~ LooksLikeLabel /\ ic # 0
        /\ Overruns
    BY <1>5 DEF AssembleOverruns, LineEnd
  <2>2. ASSUME NEW t \in Operands, Operand(t) \in TooLong
        PROVE  ~FitsArrays
    <3>1. t \in Nat /\ t >= 1 /\ t <= ic - 1
      BY <1>3, <2>2 DEF Operands
    <3>2. t \in 0 .. ic - 1 /\ s + t - 1 \in s .. s + ic - 1 /\ s + t \in 1 .. Len(list)
          /\ s + t # 1
      BY <1>2, <1>3, <2>1, <3>1 DEF Buffered
    <3>3. tk[t] = list[s + t] /\ list[s + t - 1].type # "EXPRESSION_END"
      BY <1>2, <3>2 DEF Buffered
    <3> QED BY <1>3, <2>2, <3>2, <3>3 DEF FitsArrays, Operand
  <2>3. CASE lc >= PROGRAM_SIZE
    <3>1. s \in InstructionStarts
      BY <1>2, <2>1, LineMeaning
    <3>2. s \notin kept /\ Cardinality(kept) = lc
      BY <1>2 DEF Kept, TypeInv
    <3>3. IsFiniteSet(InstructionStarts) /\ IsFiniteSet(kept)
      BY StartsFinite, FS_Subset
    <3>4. Cardinality(kept \cup {s}) = lc + 1
      BY <3>2, <3>3, FS_AddElement
    <3>5. kept \cup {s} \subseteq InstructionStarts
      BY <3>1
    <3>6. Cardinality(kept \cup {s}) <= Cardinality(InstructionStarts)
      BY <3>3, <3>5, FS_Subset
    <3>7. ~ (Cardinality(InstructionStarts) <= PROGRAM_SIZE)
      BY <2>3, <3>4, <3>6, AboveBounded, Sizes DEF TypeInv
    <3> QED BY <3>7 DEF FitsArrays
  <2> QED BY <2>1, <2>2, <2>3 DEF Overruns
<1> QED BY <1>4, <1>5

LEMMA NextLimitsInv ==
  ASSUME TypeInv, AssembleInv, LimitsInv, [Next]_vars
  PROVE  LimitsInv'
<1>1. CASE UNCHANGED vars
  <2>1. UNCHANGED <<list, pass, i, tk, ic, line_is_comment, labels>>
    BY <1>1 DEF vars
  <2>2. FittingSourcesDefined'
    BY <2>1, LimitsFixed DEF LimitsInv, FittingSourcesDefined
  <2>3. CASE pass = "index"
    <3>1. PICK s \in Nat, b \in 0 .. 1 : Gathered(s, b)
      BY <2>3 DEF LimitsInv
    <3>2. Gathered(s, b)'
      BY <2>1, <3>1, LimitsFixed DEF Gathered, InLine
    <3> QED BY <2>2, <3>2 DEF LimitsInv
  <2> QED BY <2>1, <2>2, <2>3 DEF LimitsInv
<1>2. CASE Step
  <2>1. CASE pass = "index" /\ (Comment \/ Collect)
    BY <2>1, IndexGathers
  <2>2. CASE IndexOneToken \/ IndexLabel \/ IndexLine
    BY <2>2, IndexLineGathers
  <2>3. CASE pass = "assemble" /\ (AssembleOverruns \/ Collect) /\ pass' = "undefined"
    <3>1. list' = list
      BY <2>3 DEF AssembleOverruns, Collect
    <3> QED BY <2>3, <3>1, AssembleLimits, LimitsFixed DEF LimitsInv, FittingSourcesDefined
  <2>4. CASE pass' \notin {"index", "undefined"}
    BY <2>4 DEF LimitsInv, FittingSourcesDefined
  <2>5. pass' \notin {"index", "undefined"} \/ (pass = "index" /\ (Comment \/ Collect))
        \/ IndexOneToken \/ IndexLabel \/ IndexLine
        \/ (pass = "assemble" /\ (AssembleOverruns \/ Collect) /\ pass' = "undefined")
    BY <1>2 DEF Step, Comment, Collect, Walking, IndexDone, SkipLabel, AssembleLine,
         AssembleAborts, AssembleOverruns, SkipEmptyLine, AssembleDone, LineEnd
  <2> QED BY <2>1, <2>2, <2>3, <2>4, <2>5
<1> QED BY <1>1, <1>2 DEF Next, Finished

\* Whatever the sizes of the arrays, the passes write to no place beyond one unless the
\* source has a line, a label, an instruction or a word too many or too long for them.
THEOREM FittingSourcesAssembled == Spec => []FittingSourcesDefined
<1>1. Init => LimitsInv
  <2>1. Init => TypeInv /\ Started
    BY InitTypeInv DEF Init, Started
  <2> QED BY <2>1, InitLimitsInv
<1>2. TypeInv /\ AssembleInv /\ LimitsInv /\ [Next]_vars => LimitsInv'
  BY NextLimitsInv
<1>3. LimitsInv => FittingSourcesDefined
  BY DEF LimitsInv
<1> QED BY <1>1, <1>2, <1>3, TypesInvariant, AssembleInvariant, PTL DEF Spec

-----------------------------------------------------------------------------
(***************************************************************************)
(* Sources that are hardly spaced.  Both passes take an instruction of one *)
(* word that comes next to a label for a label, and tk[1] stays a colon.   *)
(* The second pass passes over it, the first one leaves it in the buffer   *)
(* and reads the next line as the rest of it; that line is a longer one    *)
(* and is counted once.  So each pass has counted the lines that are kept. *)
(***************************************************************************)
AfterLabel(s) == \E d \in LabelStarts : d < s /\ Above(d) = Above(s)

\* The last instruction above is one that comes next to a label.
Pending(s) == \E t \in NextToLabel : t < s /\ Above(s) = Above(t) + 1

\* An instruction that starts with no word stops the second pass.
ProperUpTo(s) == \A t \in InstructionStarts : t < s => list[t].type = "WORD"

\* The table has label d with the number of kept lines above it.
Noted(d) ==
  [name |-> list[d].literall, address |-> Below(KeptLines, d)]
    \in {labels[k] : k \in DOMAIN labels}

\* Whether a colon is left in tk[1].
ColonLeft(s) == ic <= 1 => (SecondIsColon <=> AfterLabel(s) \/ Pending(s))

\* Nothing about the source changes.
LEMMA SpacingFixed ==
  ASSUME list' = list
  PROVE  /\ NextToLabel' = NextToLabel /\ KeptLines' = KeptLines
         /\ HardlySpaced' = HardlySpaced
         /\ \A x : AfterLabel(x)' = AfterLabel(x) /\ Pending(x)' = Pending(x)
         /\ \A x : ProperUpTo(x)' = ProperUpTo(x)
         /\ \A x : Below(KeptLines, x)' = Below(KeptLines, x)
<1>1. NextToLabel' = NextToLabel
  BY SourceFixed DEF NextToLabel, Lone
<1>2. KeptLines' = KeptLines
  BY <1>1, SourceFixed DEF KeptLines
<1>3. HardlySpaced' = HardlySpaced
  BY <1>1, SourceFixed DEF HardlySpaced, Lone
<1>4. \A x : AfterLabel(x)' = AfterLabel(x)
  BY SourceFixed DEF AfterLabel
<1>5. \A x : Pending(x)' = Pending(x)
  BY <1>1, SourceFixed DEF Pending
<1>6. \A x : ProperUpTo(x)' = ProperUpTo(x)
  BY SourceFixed DEF ProperUpTo
<1>7. \A x : Below(KeptLines, x)' = Below(KeptLines, x)
  BY <1>2 DEF Below
<1> QED BY <1>1, <1>2, <1>3, <1>4, <1>5, <1>6, <1>7

\* The lines that are kept are counted by numbers.
LEMMA KeptFinite ==
  ASSUME TypeInv
  PROVE  /\ KeptLines \in SUBSET LineStarts /\ IsFiniteSet(KeptLines)
         /\ Cardinality(KeptLines) \in Nat
         /\ \A x : Below(KeptLines, x) \in Nat
<1>1. KeptLines \subseteq InstructionStarts
  BY DEF KeptLines
<1>2. KeptLines \in SUBSET LineStarts /\ IsFiniteSet(KeptLines)
  BY <1>1, StartsFinite, FS_Subset
<1>3. ASSUME NEW x PROVE Below(KeptLines, x) \in Nat
  <2>1. {u \in KeptLines : u < x} \subseteq KeptLines
    OBVIOUS
  <2> QED BY <1>2, <2>1, FS_Subset, FS_CardinalityType DEF Below
<1> QED BY <1>2, <1>3, FS_CardinalityType

\* Further down there are no fewer instructions above.
LEMMA AboveMonotone ==
  ASSUME TypeInv, NEW d \in Nat, NEW e \in Nat, d <= e
  PROVE  Above(d) \in Nat /\ Above(e) \in Nat /\ Above(d) <= Above(e)
<1> DEFINE fewer == {u \in InstructionStarts : u < d}
           more  == {u \in InstructionStarts : u < e}
<1>1. \A u \in InstructionStarts : u \in Nat
  BY StartsFinite DEF TypeInv
<1>2. fewer \subseteq more
  BY <1>1
<1>3. more \subseteq InstructionStarts
  OBVIOUS
<1>4. Above(d) = Cardinality(fewer) /\ Above(e) = Cardinality(more)
  BY DEF Above
<1> HIDE DEF fewer, more
<1> QED BY <1>2, <1>3, <1>4, StartsFinite, FS_Subset, FS_CardinalityType

\* Below a line there are as many lines of a kind as above it, or one more.
LEMMA BelowAtEnd ==
  ASSUME TypeInv, NEW s, InLine(s), i <= Len(list), Type = "EXPRESSION_END"
  PROVE  Below(KeptLines, i + 1) = IF s \in KeptLines THEN Below(KeptLines, s) + 1
                                                     ELSE Below(KeptLines, s)
<1> DEFINE above == {u \in KeptLines : u < s}
           below == {u \in KeptLines : u < i + 1}
<1>1. \A u \in KeptLines : u < i + 1 <=> u < s \/ u = s
  BY LinesAtEnd, KeptFinite
<1>2. s \notin above
  BY DEF InLine, TypeInv
<1>3. below = IF s \in KeptLines THEN above \cup {s} ELSE above
  BY <1>1
<1>4. above \subseteq KeptLines
  OBVIOUS
<1>5. Below(KeptLines, s) = Cardinality(above) /\ Below(KeptLines, i + 1) = Cardinality(below)
  BY DEF Below
<1> HIDE DEF above, below
<1>6. IsFiniteSet(above)
  BY <1>4, KeptFinite, FS_Subset
<1>7. Cardinality(above \cup {s}) = Cardinality(above) + 1
  BY <1>2, <1>6, FS_AddElement
<1> QED BY <1>3, <1>5, <1>7

\* What is next to a label, and what is below that, from one line to the next.
LEMMA SpacingAtEnd ==
  ASSUME TypeInv, NEW s \in Nat, InLine(s), i <= Len(list), Type = "EXPRESSION_END"
  PROVE  /\ s \notin InstructionStarts =>
              /\ AfterLabel(i + 1) <=> AfterLabel(s) \/ s \in LabelStarts
              /\ Pending(i + 1) <=> Pending(s)
         /\ s \in InstructionStarts =>
              /\ ~AfterLabel(i + 1)
              /\ Pending(i + 1) <=> s \in NextToLabel
              /\ s \in NextToLabel <=> Lone(s) /\ AfterLabel(s)
<1>1. /\ \A t \in LineStarts : t < i + 1 <=> t < s \/ t = s
      /\ Above(i + 1) = IF s \in InstructionStarts THEN Above(s) + 1 ELSE Above(s)
  BY LinesAtEnd
<1>2. /\ LabelStarts \subseteq LineStarts /\ InstructionStarts \subseteq LineStarts
      /\ \A t \in LineStarts : t \in Nat
      /\ \A x : Above(x) \in Nat
  BY StartsFinite DEF TypeInv
<1>3. NextToLabel \subseteq InstructionStarts
  BY DEF NextToLabel
<1>4. ASSUME s \notin InstructionStarts
      PROVE  /\ AfterLabel(i + 1) <=> AfterLabel(s) \/ s \in LabelStarts
             /\ Pending(i + 1) <=> Pending(s)
  <2>1. Above(i + 1) = Above(s)
    BY <1>1, <1>4
  <2>2. AfterLabel(i + 1) <=> AfterLabel(s) \/ s \in LabelStarts
    BY <1>1, <1>2, <2>1 DEF AfterLabel
  <2>3. Pending(i + 1) <=> Pending(s)
    BY <1>1, <1>2, <1>3, <1>4, <2>1 DEF Pending
  <2> QED BY <2>2, <2>3
<1>5. ASSUME s \in InstructionStarts
      PROVE  /\ ~AfterLabel(i + 1)
             /\ Pending(i + 1) <=> s \in NextToLabel
             /\ s \in NextToLabel <=> Lone(s) /\ AfterLabel(s)
  <2>1. Above(i + 1) = Above(s) + 1
    BY <1>1, <1>5
  <2>2. ASSUME NEW d \in LabelStarts, d < i + 1, Above(d) = Above(i + 1) PROVE FALSE
    <3>1. d <= s /\ d \in Nat
      BY <1>1, <1>2, <2>2
    <3>2. Above(d) <= Above(s)
      BY <3>1, AboveMonotone
    <3> QED BY <1>2, <2>1, <2>2, <3>2
  <2>3. ASSUME NEW t \in NextToLabel, t < i + 1, Above(i + 1) = Above(t) + 1, t # s
        PROVE  FALSE
    <3>1. t \in InstructionStarts /\ t < s
      BY <1>1, <1>2, <1>3, <2>3
    <3>2. Above(t) < Above(s)
      BY <3>1, AboveGrows
    <3> QED BY <1>2, <2>1, <2>3, <3>2
  <2>4. s \in NextToLabel => Pending(i + 1)
    BY <1>1, <1>2, <1>5, <2>1 DEF Pending
  <2>5. s \in NextToLabel <=> Lone(s) /\ AfterLabel(s)
    BY <1>5 DEF NextToLabel, AfterLabel
  <2>6. ~AfterLabel(i + 1)
    BY <2>2 DEF AfterLabel
  <2>7. Pending(i + 1) => s \in NextToLabel
    BY <2>3 DEF Pending
  <2> QED BY <2>4, <2>5, <2>6, <2>7
<1> QED BY <1>4, <1>5

\* Below a lost line comes no label and no other instruction of one word.
LEMMA PendingMeans ==
  ASSUME TypeInv, HardlySpaced, NEW s \in Nat, Pending(s)
  PROVE  s \notin LabelStarts /\ (s \in InstructionStarts => ~Lone(s))
<1>1. PICK t \in NextToLabel : t < s /\ Above(s) = Above(t) + 1
  BY DEF Pending
<1>2. SUFFICES ASSUME s \in LabelStarts \cup {u \in InstructionStarts : Lone(u)}
               PROVE  FALSE
  OBVIOUS
<1>3. PICK m \in InstructionStarts : t < m /\ m < s
  BY <1>1, <1>2 DEF HardlySpaced
<1>4. t \in InstructionStarts /\ m \in Nat
  BY StartsFinite DEF NextToLabel, TypeInv
<1>5. Above(t) < Above(m) /\ Above(m) < Above(s)
  BY <1>3, <1>4, AboveGrows
<1>6. Above(t) \in Nat /\ Above(m) \in Nat /\ Above(s) \in Nat
  BY StartsFinite
<1> QED BY <1>1, <1>5, <1>6

\* Behind b tokens of the line above, the buffer holds those of the line, up to a comment.
Glued(s, b) ==
  /\ b <= ic /\ ic - b <= i - s
  /\ \A k \in b .. ic - 1 : tk[k] = list[s + k - b]
  /\ \A k \in s .. s + ic - b - 1 : list[k].type \notin {"HASH", "EXPRESSION_END"}
  /\ line_is_comment => ic - b < i - s /\ list[s + ic - b].type = "HASH"
  /\ ~line_is_comment => ic - b = i - s

\* The tokens of the line above that are left in the buffer.
Left(s) == IF Pending(s) THEN 1 ELSE 0

HardLineInv(s) ==
  /\ InLine(s)
  /\ Glued(s, Left(s))
  /\ Pending(s) => tk[0].type = "WORD"
  /\ ColonLeft(s)
  /\ lc = Below(KeptLines, s)

\* Of an improper source the pass only keeps what it has noted.
HardIndexInv ==
  /\ pass = "index" /\ HardlySpaced =>
       \E s \in Nat :
         /\ InLine(s)
         /\ ProperUpTo(s) => HardLineInv(s)
         /\ \A d \in LabelStarts : d < s /\ ProperUpTo(d) => Noted(d)
  /\ pass \in {"assemble", "done"} /\ HardlySpaced =>
       \A d \in LabelStarts : ProperUpTo(d) => Noted(d)

\* What the first pass makes of a line: only what is left over takes the first branch, and
\* only a label the second; of the other lines those that are kept are counted.
LEMMA LineIndexed ==
  ASSUME TypeInv, HardlySpaced, NEW s \in Nat, HardLineInv(s),
         i <= Len(list), Type = "EXPRESSION_END",
         s \in InstructionStarts => list[s].type = "WORD"
  PROVE  /\ LooksLikeLabel /\ ic = 1 <=> Pending(i + 1)
         /\ LooksLikeLabel /\ ic # 1 <=> s \in LabelStarts
         /\ s \in LabelStarts => tk[0] = list[s]
         /\ ~LooksLikeLabel => (ic # 0 /\ ~SecondIsColon <=> s \in KeptLines)
         /\ LooksLikeLabel => s \notin KeptLines
         /\ SecondIsColon <=> AfterLabel(i + 1) \/ Pending(i + 1)
<1>1. InLine(s) /\ Glued(s, Left(s)) /\ (Pending(s) => tk[0].type = "WORD") /\ ColonLeft(s)
  BY DEF HardLineInv
<1>2. ic \in Nat /\ i \in Nat
  BY Sizes DEF TypeInv
<1>3. /\ s \notin InstructionStarts =>
           /\ AfterLabel(i + 1) <=> AfterLabel(s) \/ s \in LabelStarts
           /\ Pending(i + 1) <=> Pending(s)
      /\ s \in InstructionStarts =>
           /\ ~AfterLabel(i + 1)
           /\ Pending(i + 1) <=> s \in NextToLabel
           /\ s \in NextToLabel <=> Lone(s) /\ AfterLabel(s)
  BY <1>1, SpacingAtEnd
<1>4. s \in LineStarts /\ list[i].type = "EXPRESSION_END"
  BY <1>1, LinesAtEnd DEF Type
<1>5. s \in KeptLines <=> s \in InstructionStarts /\ s \notin NextToLabel
  BY DEF KeptLines
<1>6. CASE ~Pending(s)
  <2>1. Glued(s, 0)
    BY <1>1, <1>6 DEF Left
  <2>2. Buffered(s)
    <3>1. s \in Nat /\ s <= i
      BY <1>1 DEF InLine, TypeInv
    <3>2. s + ic <= i
      BY <1>2, <2>1, <3>1 DEF Glued
    <3>3. \A k \in 0 .. ic - 1 : tk[k] = list[s + k]
      BY <1>2, <2>1, <3>1 DEF Glued
    <3>4. \A k \in s .. s + ic - 1 : list[k].type \notin {"HASH", "EXPRESSION_END"}
      BY <1>2, <2>1, <3>1 DEF Glued
    <3>5. line_is_comment => s + ic < i /\ list[s + ic].type = "HASH"
      BY <1>2, <2>1, <3>1 DEF Glued
    <3>6. ~line_is_comment => i = s + ic
      BY <1>2, <2>1, <3>1 DEF Glued
    <3> QED BY <3>2, <3>3, <3>4, <3>5, <3>6 DEF Buffered
  <2>3. /\ ic = 0 => s \notin InstructionStarts /\ s \notin LabelStarts
        /\ ic # 0 => /\ tk[0] = list[s]
                     /\ s \in LabelStarts <=> ic # 1 /\ LooksLikeLabel
                     /\ s \in InstructionStarts <=> s \notin LabelStarts
        /\ ic = 1 => Lone(s)
    BY <1>1, <2>2, LineMeaning DEF Lone
  <2>4. CASE ic = 0
    <3>1. ~LooksLikeLabel
      BY <2>4 DEF LooksLikeLabel
    <3>2. SecondIsColon <=> AfterLabel(s)
      BY <1>1, <1>6, <2>4 DEF ColonLeft
    <3> QED BY <1>3, <1>5, <1>6, <2>3, <2>4, <3>1, <3>2
  <2>5. CASE s \in LabelStarts
    <3>1. ic # 0 /\ ic # 1 /\ LooksLikeLabel /\ SecondIsColon
      BY <2>3, <2>5 DEF LooksLikeLabel
    <3>2. s \notin InstructionStarts
      BY <2>5 DEF InstructionStarts
    <3> QED BY <1>3, <1>5, <1>6, <2>3, <2>5, <3>1, <3>2
  <2>6. CASE ic = 1 /\ s \notin LabelStarts
    <3>1. s \in InstructionStarts /\ Lone(s) /\ tk[0].type = "WORD"
      BY <2>3, <2>6
    <3>2. SecondIsColon <=> AfterLabel(s)
      BY <1>1, <1>6, <2>6 DEF ColonLeft
    <3>3. LooksLikeLabel <=> SecondIsColon
      BY <2>6, <3>1 DEF LooksLikeLabel
    <3> QED BY <1>3, <1>5, <1>6, <2>6, <3>1, <3>2, <3>3
  <2>7. CASE ic \notin {0, 1} /\ s \notin LabelStarts
    <3>1. s \in InstructionStarts /\ tk[0].type = "WORD" /\ ~LooksLikeLabel
      BY <2>3, <2>7
    <3>2. ~SecondIsColon
      BY <2>7, <3>1 DEF LooksLikeLabel
    <3>3. s + 1 \in s .. s + ic - 1
      BY <1>2, <2>7
    <3>4. ~Lone(s)
      BY <2>2, <3>3 DEF Lone, Buffered
    <3> QED BY <1>3, <1>5, <1>6, <2>7, <3>1, <3>2, <3>4
  <2> QED BY <2>4, <2>5, <2>6, <2>7
<1>7. CASE Pending(s)
  <2>1. Glued(s, 1) /\ tk[0].type = "WORD" /\ ic >= 1 /\ s >= 1 /\ s <= i
    BY <1>1, <1>7 DEF Left, Glued, InLine
  <2>2. s \notin LabelStarts /\ (s \in InstructionStarts => ~Lone(s))
    BY <1>7, PendingMeans
  <2>3. CASE ic = 1
    <3>1. s + ic - 1 = s
      BY <2>3
    <3>2. list[s].type \in {"HASH", "EXPRESSION_END"}
      <4>1. CASE line_is_comment
        BY <2>1, <3>1, <4>1 DEF Glued
      <4>2. CASE ~line_is_comment
        <5>1. i = s
          BY <1>2, <2>1, <2>3, <4>2 DEF Glued
        <5> QED BY <1>4, <5>1
      <4> QED BY <4>1, <4>2
    <3>3. s \notin InstructionStarts
      BY <3>2 DEF InstructionStarts
    <3>4. SecondIsColon /\ LooksLikeLabel
      BY <1>1, <1>7, <2>1, <2>3 DEF ColonLeft, LooksLikeLabel
    <3> QED BY <1>3, <1>5, <1>7, <2>2, <2>3, <3>3, <3>4
  <2>4. CASE ic # 1
    <3>1. 1 \in 1 .. ic - 1 /\ s + 1 - 1 = s /\ s \in s .. s + ic - 1 - 1
      BY <1>2, <2>1, <2>4
    <3>2. tk[1] = list[s] /\ list[s].type \notin {"HASH", "EXPRESSION_END"}
      BY <2>1, <3>1 DEF Glued
    <3>3. s \in InstructionStarts
      BY <1>4, <2>2, <3>2 DEF InstructionStarts
    <3>4. ~SecondIsColon /\ ~LooksLikeLabel
      BY <3>2, <3>3 DEF SecondIsColon, LooksLikeLabel
    <3> QED BY <1>2, <1>3, <1>5, <2>1, <2>2, <2>4, <3>3, <3>4
  <2> QED BY <2>3, <2>4
<1> QED BY <1>6, <1>7

\* Comments and tokens leave the line what it is.
LEMMA StaysInLine ==
  ASSUME TypeInv, NEW s \in Nat, InLine(s), Comment \/ (Collect /\ pass' = pass)
  PROVE  InLine(s)' /\ i' = i + 1
<1>1. list' = list /\ i \in Nat /\ s >= 1 /\ s <= i
  BY DEF TypeInv, InLine, Comment, Collect
<1>2. i' = i + 1
  <2>1. Collect /\ pass' = pass => ic < TK_SIZE
    BY DEF Collect, Walking
  <2> QED BY <2>1 DEF Comment, Collect
<1>3. list[i].type # "EXPRESSION_END"
  BY DEF Comment, Collect, Type
<1>4. \A k \in s .. i' - 1 : k \in s .. i - 1 \/ k = i
  BY <1>1, <1>2
<1> QED BY <1>1, <1>2, <1>3, <1>4 DEF InLine

LEMMA GluedGoesOn ==
  ASSUME TypeInv, NEW s \in Nat, NEW b \in 0 .. 1, InLine(s), Glued(s, b),
         Comment \/ (Collect /\ pass' = pass)
  PROVE  /\ Glued(s, b)'
         /\ b >= 1 => tk'[0] = tk[0]
         /\ ic' <= 1 => ic <= 1 /\ (SecondIsColon' <=> SecondIsColon)
<1>1. /\ ic \in Nat /\ i \in Nat /\ s <= i /\ s >= 1 /\ b \in Nat /\ list' = list
      /\ tk \in [0 .. TK_SIZE - 1 -> Token \cup {NoToken}] /\ TK_SIZE \in Nat /\ TK_SIZE >= 2
      /\ i' = i + 1 /\ b <= ic
  <2>1. i' = i + 1
    BY StaysInLine
  <2>2. b <= ic /\ b \in Nat
    BY DEF Glued
  <2>3. list' = list
    BY DEF Comment, Collect
  <2> QED BY <2>1, <2>2, <2>3, Sizes DEF TypeInv, InLine
<1>2. CASE Comment
  <2>1. ic' = ic /\ tk' = tk /\ line_is_comment'
    BY <1>2 DEF Comment
  <2>2. ic - b < i + 1 - s /\ list[s + ic - b].type = "HASH"
    <3>1. CASE line_is_comment
      BY <1>1, <3>1 DEF Glued
    <3>2. CASE ~line_is_comment
      <4>1. ic - b = i - s /\ list[i].type = "HASH"
        BY <1>2, <3>2 DEF Glued, Comment, Type
      <4>2. s + ic - b = i
        BY <1>1, <4>1
      <4> QED BY <1>1, <4>1, <4>2
    <3> QED BY <3>1, <3>2
  <2>3. ic' - b <= i' - s
    BY <1>1, <2>1, <2>2
  <2>4. Glued(s, b)'
    BY <1>1, <2>1, <2>2, <2>3 DEF Glued
  <2> QED BY <1>1, <2>1, <2>4 DEF SecondIsColon
<1>3. CASE Collect /\ pass' = pass
  <2>1. ~line_is_comment /\ list[i].type \notin {"HASH", "EXPRESSION_END"} /\ ic < TK_SIZE
    BY <1>3 DEF Collect, Walking, Type
  <2>2. tk' = [tk EXCEPT ![ic] = list[i]] /\ ic' = ic + 1 /\ ~line_is_comment'
    BY <1>3, <2>1 DEF Collect
  <2>3. ic - b = i - s /\ s + ic - b = i
    BY <1>1, <2>1 DEF Glued
  <2>4. ASSUME NEW k \in b .. ic' - 1 PROVE tk'[k] = list[s + k - b]
    <3>1. k \in 0 .. TK_SIZE - 1 /\ ic \in 0 .. TK_SIZE - 1 /\ k \in Nat
      BY <1>1, <2>1, <2>2
    <3>2. CASE k = ic
      BY <1>1, <2>2, <2>3, <3>1, <3>2
    <3>3. CASE k # ic
      <4>1. k \in b .. ic - 1
        BY <1>1, <2>2, <3>1, <3>3
      <4> QED BY <1>1, <2>2, <3>1, <3>3, <4>1 DEF Glued
    <3> QED BY <3>2, <3>3
  <2>5. ASSUME NEW k \in s .. s + ic' - b - 1
        PROVE  list[k].type \notin {"HASH", "EXPRESSION_END"}
    <3>1. k \in s .. s + ic - b - 1 \/ k = i
      BY <1>1, <2>2, <2>3
    <3> QED BY <2>1, <3>1 DEF Glued
  <2>6. ic' - b = i' - s /\ b <= ic' /\ ic' - b <= i' - s
    BY <1>1, <2>2, <2>3
  <2>7. Glued(s, b)'
    BY <1>1, <2>2, <2>4, <2>5, <2>6 DEF Glued
  <2>8. b >= 1 => tk'[0] = tk[0]
    BY <1>1, <2>1, <2>2
  <2>9. ic' <= 1 => ic = 0 /\ tk'[1] = tk[1]
    BY <1>1, <2>1, <2>2
  <2> QED BY <2>7, <2>8, <2>9 DEF SecondIsColon
<1> QED BY <1>2, <1>3

LEMMA NotedFixed ==
  ASSUME list' = list, labels' = labels
  PROVE  \A d : Noted(d)' = Noted(d)
BY SpacingFixed DEF Noted

LEMMA HardIndexGoesOn ==
  ASSUME TypeInv, HardIndexInv, pass = "index", Comment \/ (Collect /\ pass' = pass)
  PROVE  HardIndexInv'
<1>1. list' = list /\ labels' = labels /\ lc' = lc /\ pass' = "index"
  BY DEF Comment, Collect
<1>2. SUFFICES ASSUME HardlySpaced
               PROVE  \E s \in Nat :
                        /\ InLine(s)'
                        /\ ProperUpTo(s) => HardLineInv(s)'
                        /\ \A d \in LabelStarts : d < s /\ ProperUpTo(d) => Noted(d)'
  BY <1>1, SpacingFixed, SourceFixed DEF HardIndexInv
<1>3. PICK s \in Nat :
        /\ InLine(s)
        /\ ProperUpTo(s) => HardLineInv(s)
        /\ \A d \in LabelStarts : d < s /\ ProperUpTo(d) => Noted(d)
  BY <1>2 DEF HardIndexInv
<1>4. InLine(s)'
  BY <1>3, StaysInLine
<1>5. ASSUME ProperUpTo(s) PROVE HardLineInv(s)'
  <2>1. HardLineInv(s)
    BY <1>3, <1>5
  <2>2. Left(s) \in 0 .. 1 /\ (Pending(s) => Left(s) >= 1) /\ Left(s)' = Left(s)
    BY <1>1, SpacingFixed DEF Left
  <2>3. /\ Glued(s, Left(s))'
        /\ Pending(s) => tk'[0] = tk[0]
        /\ ic' <= 1 => ic <= 1 /\ (SecondIsColon' <=> SecondIsColon)
    <3>1. PICK b \in 0 .. 1 : b = Left(s)
      BY <2>2
    <3>2. Glued(s, b)
      BY <2>1, <3>1 DEF HardLineInv
    <3>3. /\ Glued(s, b)'
          /\ b >= 1 => tk'[0] = tk[0]
          /\ ic' <= 1 => ic <= 1 /\ (SecondIsColon' <=> SecondIsColon)
      BY <1>3, <3>2, GluedGoesOn
    <3>4. Glued(s, Left(s))'
      BY <2>2, <3>1, <3>3 DEF Glued
    <3> QED BY <2>2, <3>1, <3>3, <3>4
  <2>4. ColonLeft(s)'
    BY <1>1, <2>1, <2>3, SpacingFixed DEF HardLineInv, ColonLeft
  <2> QED BY <1>1, <1>4, <2>1, <2>3, <2>4, SpacingFixed DEF HardLineInv
<1> QED BY <1>1, <1>3, <1>4, <1>5, NotedFixed

\* What the first pass goes on with below a line.
LEMMA NextLineGlued ==
  ASSUME TypeInv, NEW n \in Nat, n = i + 1, i <= Len(list), Type = "EXPRESSION_END",
         list' = list, i' = i + 1, ~line_is_comment'
  PROVE  /\ InLine(n)'
         /\ \A b \in 0 .. 1 : ic' = b => Glued(n, b)'
<1>1. i \in Nat /\ i >= 1 /\ n - 1 = i
  BY DEF TypeInv
<1>2. n \in 1 .. i' /\ list'[n - 1].type = "EXPRESSION_END" /\ n .. i' - 1 = {}
  BY <1>1 DEF Type
<1>3. InLine(n)'
  BY <1>2 DEF InLine
<1>4. ASSUME NEW b \in 0 .. 1, ic' = b PROVE Glued(n, b)'
  <2>1. /\ ic' - b = i' - n /\ b .. ic' - 1 = {} /\ b <= ic' /\ ic' - b <= i' - n
        /\ n .. n + ic' - b - 1 = {}
    BY <1>1, <1>4
  <2> QED BY <1>4, <2>1 DEF Glued
<1> QED BY <1>3, <1>4

\* The ends of lines in the first pass: the label that is noted has the count of the kept
\* lines above, and what was noted stays.
LEMMA HardLineKeeps ==
  ASSUME TypeInv, TypeInv', HardIndexInv, IndexOneToken \/ IndexLabel \/ IndexLine
  PROVE  HardIndexInv'
<1>1. /\ pass = "index" /\ i <= Len(list) /\ Type = "EXPRESSION_END" /\ list' = list
      /\ ~line_is_comment' /\ tk' = tk
  BY DEF IndexOneToken, IndexLabel, IndexLine, LineEnd
<1>2. CASE pass' = "undefined"
  BY <1>2 DEF HardIndexInv
<1>3. CASE pass' # "undefined"
  <2>1. pass' = "index" /\ i' = i + 1
    BY <1>3 DEF IndexOneToken, IndexLabel, IndexLine, LineEnd
  <2>2. SUFFICES ASSUME HardlySpaced
                 PROVE  \E n \in Nat :
                          /\ InLine(n)'
                          /\ ProperUpTo(n) => HardLineInv(n)'
                          /\ \A d \in LabelStarts : d < n /\ ProperUpTo(d) => Noted(d)'
    BY <1>1, <2>1, SpacingFixed, SourceFixed DEF HardIndexInv
  <2>3. PICK s \in Nat :
          /\ InLine(s)
          /\ ProperUpTo(s) => HardLineInv(s)
          /\ \A d \in LabelStarts : d < s /\ ProperUpTo(d) => Noted(d)
    BY <1>1, <2>2 DEF HardIndexInv
  <2>n. PICK n \in Nat : n = i + 1
    BY DEF TypeInv
  <2>4. /\ InLine(n)'
        /\ \A b \in 0 .. 1 : ic' = b => Glued(n, b)'
    BY <1>1, <2>1, <2>n, NextLineGlued
  <2>5. \A t \in LineStarts : t < n <=> t < s \/ t = s
    BY <1>1, <2>3, <2>n, LinesAtEnd
  <2>6. ASSUME NEW d, Noted(d) PROVE Noted(d)'
    <3>1. CASE labels' = labels
      BY <1>1, <2>6, <3>1, NotedFixed
    <3>2. CASE IndexLabel
      <4>1. labels' = Append(labels, [name |-> tk[0].literall, address |-> lc])
        BY <1>3, <3>2 DEF IndexLabel
      <4>2. labels \in Seq(LabelEntry(Len(list)))
        BY DEF TypeInv
      <4>3. \A k \in DOMAIN labels : k \in DOMAIN labels' /\ labels'[k] = labels[k]
        BY <4>1, <4>2
      <4>4. {labels[k] : k \in DOMAIN labels} \subseteq {labels'[k] : k \in DOMAIN labels'}
        BY <4>3
      <4> QED BY <1>1, <2>6, <4>4, SpacingFixed DEF Noted
    <3> QED BY <3>1, <3>2 DEF IndexOneToken, IndexLine
  <2>7. ASSUME ProperUpTo(s), s \in InstructionStarts => list[s].type = "WORD"
        PROVE  /\ LooksLikeLabel /\ ic = 1 <=> Pending(n)
               /\ LooksLikeLabel /\ ic # 1 <=> s \in LabelStarts
               /\ s \in LabelStarts => tk[0] = list[s]
               /\ ~LooksLikeLabel => (ic # 0 /\ ~SecondIsColon <=> s \in KeptLines)
               /\ LooksLikeLabel => s \notin KeptLines
               /\ SecondIsColon <=> AfterLabel(n) \/ Pending(n)
               /\ lc = Below(KeptLines, s)
    BY <1>1, <2>2, <2>3, <2>7, <2>n, LineIndexed DEF HardLineInv
  <2>8. ASSUME NEW d \in LabelStarts, d < n, ProperUpTo(d) PROVE Noted(d)'
    <3>1. CASE d = s
      <4>1. s \notin InstructionStarts
        BY <2>8, <3>1 DEF InstructionStarts
      <4>2. LooksLikeLabel /\ ic # 1 /\ tk[0] = list[s] /\ lc = Below(KeptLines, s)
        BY <2>7, <2>8, <3>1, <4>1
      <4>3. IndexLabel
        BY <4>2 DEF IndexOneToken, IndexLine
      <4>4. labels' = Append(labels, [name |-> list[s].literall,
                                      address |-> Below(KeptLines, s)])
        BY <1>3, <4>2, <4>3 DEF IndexLabel
      <4>5. labels \in Seq(LabelEntry(Len(list))) /\ labels' \in Seq(LabelEntry(Len(list)))
        BY <1>1 DEF TypeInv
      <4>6. /\ Len(labels) + 1 \in DOMAIN labels'
            /\ labels'[Len(labels) + 1] =
                 [name |-> list[s].literall, address |-> Below(KeptLines, s)]
        BY <4>4, <4>5
      <4> QED BY <1>1, <3>1, <4>6, SpacingFixed DEF Noted
    <3>2. CASE d # s
      <4>1. d < s
        BY <2>5, <2>8, <3>2, StartsFinite
      <4> QED BY <2>3, <2>6, <2>8, <4>1
    <3> QED BY <3>1, <3>2
  <2>9. ASSUME ProperUpTo(n) PROVE HardLineInv(n)'
    <3>1. \A t \in InstructionStarts : t < n <=> t < s \/ t = s
      BY <2>5, StartsFinite
    <3>2. ProperUpTo(s) /\ (s \in InstructionStarts => list[s].type = "WORD")
      BY <2>9, <3>1 DEF ProperUpTo
    <3>3. /\ LooksLikeLabel /\ ic = 1 <=> Pending(n)
          /\ LooksLikeLabel /\ ic # 1 <=> s \in LabelStarts
          /\ ~LooksLikeLabel => (ic # 0 /\ ~SecondIsColon <=> s \in KeptLines)
          /\ LooksLikeLabel => s \notin KeptLines
          /\ SecondIsColon <=> AfterLabel(n) \/ Pending(n)
          /\ lc = Below(KeptLines, s)
      BY <2>7, <3>2
    <3>4. Below(KeptLines, n) = IF s \in KeptLines THEN lc + 1 ELSE lc
      BY <1>1, <2>3, <2>n, <3>3, BelowAtEnd
    <3>5. ic' = Left(n) /\ lc' = Below(KeptLines, n)
      <4>1. CASE IndexOneToken
        BY <3>3, <3>4, <4>1 DEF IndexOneToken, Left
      <4>2. CASE IndexLabel
        BY <1>3, <3>3, <3>4, <4>2 DEF IndexLabel, Left
      <4>3. CASE IndexLine
        BY <3>3, <3>4, <4>3 DEF IndexLine, LineCounted, Left
      <4> QED BY <4>1, <4>2, <4>3
    <3>6. Left(n) \in 0 .. 1 /\ Left(n)' = Left(n)
      BY <1>1, SpacingFixed DEF Left
    <3>7. Glued(n, Left(n))'
      <4>1. PICK b \in 0 .. 1 : b = Left(n)
        BY <3>6
      <4>2. Glued(n, b)'
        BY <2>4, <3>5, <4>1
      <4> QED BY <3>6, <4>1, <4>2 DEF Glued
    <3>8. Pending(n)' => tk'[0].type = "WORD"
      BY <1>1, <3>3, SpacingFixed DEF LooksLikeLabel
    <3>9. ColonLeft(n)'
      BY <1>1, <3>3, SpacingFixed DEF ColonLeft, SecondIsColon
    <3> QED BY <1>1, <2>4, <3>5, <3>7, <3>8, <3>9, SpacingFixed DEF HardLineInv
  <2> QED BY <2>4, <2>8, <2>9
<1> QED BY <1>2, <1>3

LEMMA InitHardIndexInv ==
  ASSUME TypeInv, Started
  PROVE  HardIndexInv
<1>1. /\ pass = "index" /\ i = 1 /\ ic = 0 /\ lc = 0 /\ ~ line_is_comment
  BY DEF Started
<1>2. InLine(1)
  BY <1>1 DEF InLine
<1>3. ~SecondIsColon
  <2>1. tk = [t \in 0 .. TK_SIZE - 1 |-> NoToken] /\ 1 \in 0 .. TK_SIZE - 1
    BY Sizes DEF Started
  <2> QED BY <2>1 DEF SecondIsColon, NoToken
<1>4. \A t \in LineStarts : ~(t < 1)
  BY StartsFinite DEF TypeInv
<1>5. \A t \in LabelStarts \cup InstructionStarts : ~(t < 1)
  BY <1>4, StartsFinite
<1>6. ~AfterLabel(1) /\ ~Pending(1)
  BY <1>5 DEF AfterLabel, Pending, NextToLabel
<1>7. Below(KeptLines, 1) = 0
  <2>1. {u \in KeptLines : u < 1} = {}
    BY <1>5 DEF KeptLines
  <2> QED BY <2>1, FS_EmptySet DEF Below
<1>8. Glued(1, Left(1))
  <2>1. Left(1) = 0
    BY <1>6 DEF Left
  <2>2. Glued(1, 0)
    BY <1>1 DEF Glued
  <2> QED BY <2>1, <2>2
<1>9. HardLineInv(1)
  BY <1>1, <1>2, <1>3, <1>6, <1>7, <1>8 DEF HardLineInv, ColonLeft
<1> QED BY <1>1, <1>2, <1>5, <1>9 DEF HardIndexInv

LEMMA HardIndexDoneKeeps ==
  ASSUME TypeInv, HardIndexInv, IndexDone
  PROVE  HardIndexInv'
<1>1. /\ list' = list /\ labels' = labels /\ pass = "index" /\ pass' = "assemble"
      /\ i > Len(list)
  BY DEF IndexDone
<1>2. SUFFICES ASSUME HardlySpaced
               PROVE  \A d \in LabelStarts : ProperUpTo(d) => Noted(d)
  BY <1>1, SourceFixed, SpacingFixed, NotedFixed DEF HardIndexInv
<1>3. PICK s \in Nat :
        /\ InLine(s)
        /\ \A d \in LabelStarts : d < s /\ ProperUpTo(d) => Noted(d)
  BY <1>1, <1>2 DEF HardIndexInv
<1>4. \A t \in LineStarts : t < s
  BY <1>1, <1>3, LinesAtEndOfSource
<1> QED BY <1>3, <1>4, StartsFinite

LEMMA NextHardIndexInv ==
  ASSUME TypeInv, TypeInv', HardIndexInv, [Next]_vars
  PROVE  HardIndexInv'
<1>1. CASE UNCHANGED vars
  <2>1. UNCHANGED <<list, pass, i, tk, ic, lc, line_is_comment, labels>>
    BY <1>1 DEF vars
  <2>2. \A s : /\ InLine(s)' = InLine(s)
               /\ HardLineInv(s)' = HardLineInv(s)
    <3>1. \A s : InLine(s)' = InLine(s)
      BY <2>1 DEF InLine
    <3>2. \A s : Left(s)' = Left(s)
      BY <2>1, SpacingFixed DEF Left
    <3>3. \A s : Glued(s, Left(s))' = Glued(s, Left(s))
      BY <2>1, <3>2 DEF Glued
    <3>4. \A s : ColonLeft(s)' = ColonLeft(s)
      BY <2>1, SpacingFixed DEF ColonLeft, SecondIsColon
    <3> QED BY <2>1, <3>1, <3>3, <3>4, SpacingFixed DEF HardLineInv
  <2> QED BY <2>1, <2>2, SourceFixed, SpacingFixed, NotedFixed DEF HardIndexInv
<1>2. ASSUME list' = list, labels' = labels, pass \in {"assemble", "done"},
             pass' # "index"
      PROVE  HardIndexInv'
  BY <1>2, SourceFixed, SpacingFixed, NotedFixed DEF HardIndexInv
<1>3. CASE pass' \in {"aborted", "undefined"}
  BY <1>3 DEF HardIndexInv
<1>4. CASE Comment \/ (Collect /\ pass' = pass)
  <2>1. list' = list /\ labels' = labels /\ pass' = pass /\ pass \in {"index", "assemble"}
    BY <1>4 DEF Comment, Collect, Walking
  <2> QED BY <1>2, <1>4, <2>1, HardIndexGoesOn
<1>5. Collect => pass' = pass \/ pass' = "undefined"
  BY DEF Collect
<1>6. AssembleAborts \/ AssembleOverruns => pass' \in {"aborted", "undefined"}
  BY DEF AssembleAborts, AssembleOverruns
<1>7. ASSUME SkipLabel \/ AssembleLine \/ SkipEmptyLine \/ AssembleDone
      PROVE  HardIndexInv'
  <2>1. list' = list /\ labels' = labels /\ pass = "assemble" /\ pass' # "index"
    BY <1>7 DEF SkipLabel, AssembleLine, SkipEmptyLine, AssembleDone, LineEnd
  <2> QED BY <1>2, <2>1
<1> QED BY <1>1, <1>3, <1>4, <1>5, <1>6, <1>7, HardLineKeeps, HardIndexDoneKeeps
      DEF Next, Step, Finished

LEMMA HardIndexInvariant == Spec => []HardIndexInv
<1>1. TypeInv /\ Init => HardIndexInv
  BY InitHardIndexInv DEF Init, Started
<1>2. TypeInv /\ TypeInv' /\ HardIndexInv /\ [Next]_vars => HardIndexInv'
  BY NextHardIndexInv
<1> QED BY <1>1, <1>2, TypesInvariant, PTL DEF Spec

\* In the second pass each kept line above has its instruction.
HardAssembleLineInv(s) ==
  /\ InLine(s) /\ Buffered(s)
  /\ ProperUpTo(s)
  /\ ColonLeft(s)
  /\ lc = Below(KeptLines, s)
  /\ \A t \in KeptLines :
       t < s => program[Below(KeptLines, t) + 1].op = list[t].literall

HardAssembleInv ==
  /\ pass = "assemble" /\ HardlySpaced => \E s \in Nat : HardAssembleLineInv(s)
  /\ HardlySpacedAssembled

\* What it makes of a line: it passes over labels and what comes next to one, and
\* assembles the lines that are kept.
LEMMA LineAssembled ==
  ASSUME TypeInv, HardlySpaced, NEW s \in Nat, HardAssembleLineInv(s),
         i <= Len(list), Type = "EXPRESSION_END",
         s \in InstructionStarts => list[s].type = "WORD"
  PROVE  /\ LooksLikeLabel /\ ic # 1 <=> s \in LabelStarts
         /\ ic # 0 => tk[0] = list[s]
         /\ ic # 0 /\ ~LooksLikeLabel <=> s \in KeptLines
         /\ ~LooksLikeLabel /\ ic # 0 => ~AfterLabel(i + 1) /\ ~Pending(i + 1)
         /\ LooksLikeLabel \/ ic = 0 =>
              (SecondIsColon <=> AfterLabel(i + 1) \/ Pending(i + 1))
<1>1. InLine(s) /\ Buffered(s) /\ ColonLeft(s)
  BY DEF HardAssembleLineInv
<1>2. ic \in Nat /\ i \in Nat
  BY Sizes DEF TypeInv
<1>3. /\ s \notin InstructionStarts =>
           /\ AfterLabel(i + 1) <=> AfterLabel(s) \/ s \in LabelStarts
           /\ Pending(i + 1) <=> Pending(s)
      /\ s \in InstructionStarts =>
           /\ ~AfterLabel(i + 1)
           /\ Pending(i + 1) <=> s \in NextToLabel
           /\ s \in NextToLabel <=> Lone(s) /\ AfterLabel(s)
  BY <1>1, SpacingAtEnd
<1>4. /\ ic = 0 => s \notin InstructionStarts /\ s \notin LabelStarts
      /\ ic # 0 => /\ tk[0] = list[s]
                   /\ s \in LabelStarts <=> ic # 1 /\ LooksLikeLabel
                   /\ s \in InstructionStarts <=> s \notin LabelStarts
      /\ ic = 1 => Lone(s)
  BY <1>1, LineMeaning DEF Lone
<1>5. s \in KeptLines <=> s \in InstructionStarts /\ s \notin NextToLabel
  BY DEF KeptLines
<1>6. CASE ic = 0
  <2>1. ~LooksLikeLabel
    BY <1>6 DEF LooksLikeLabel
  <2>2. SecondIsColon <=> AfterLabel(s) \/ Pending(s)
    BY <1>1, <1>6 DEF ColonLeft
  <2> QED BY <1>3, <1>4, <1>5, <1>6, <2>1, <2>2
<1>7. CASE s \in LabelStarts
  <2>1. ic # 0 /\ ic # 1 /\ LooksLikeLabel /\ SecondIsColon
    BY <1>4, <1>7 DEF LooksLikeLabel
  <2> QED BY <1>3, <1>4, <1>5, <1>7, <2>1
<1>8. CASE ic = 1 /\ s \notin LabelStarts
  <2>1. s \in InstructionStarts /\ Lone(s) /\ tk[0].type = "WORD"
    BY <1>4, <1>8
  <2>2. ~Pending(s)
    BY <2>1, PendingMeans
  <2>3. LooksLikeLabel <=> SecondIsColon
    BY <1>8, <2>1 DEF LooksLikeLabel
  <2>4. SecondIsColon <=> AfterLabel(s)
    BY <1>1, <1>8, <2>2 DEF ColonLeft
  <2> QED BY <1>3, <1>4, <1>5, <1>8, <2>1, <2>3, <2>4
<1>9. CASE ic \notin {0, 1} /\ s \notin LabelStarts
  <2>1. s \in InstructionStarts /\ ~LooksLikeLabel
    BY <1>4, <1>9
  <2>2. s + 1 \in s .. s + ic - 1
    BY <1>2, <1>9
  <2>3. ~Lone(s)
    BY <1>1, <2>2 DEF Lone, Buffered
  <2> QED BY <1>3, <1>4, <1>5, <1>9, <2>1, <2>3
<1> QED BY <1>6, <1>7, <1>8, <1>9

LEMMA HardAssembleStarts ==
  ASSUME TypeInv, TypeInv', IndexDone
  PROVE  HardAssembleInv'
<1>1. /\ list' = list /\ pass' = "assemble" /\ i' = 1 /\ ic' = 0 /\ ~ line_is_comment'
      /\ lc' = 0
  BY DEF IndexDone, FirstCount
<1>2. ~SecondIsColon'
  <2>1. tk' = [t \in 0 .. TK_SIZE - 1 |-> NoToken] /\ 1 \in 0 .. TK_SIZE - 1
    BY Sizes DEF IndexDone
  <2> QED BY <2>1 DEF SecondIsColon, NoToken
<1>3. InLine(1)' /\ Buffered(1)'
  BY <1>1 DEF InLine, Buffered
<1>4. \A t \in LabelStarts \cup InstructionStarts : ~(t < 1)
  BY StartsFinite DEF TypeInv
<1>5. ~AfterLabel(1) /\ ~Pending(1) /\ ProperUpTo(1)
  BY <1>4 DEF AfterLabel, Pending, NextToLabel, ProperUpTo
<1>6. Below(KeptLines, 1) = 0
  <2>1. {u \in KeptLines : u < 1} = {}
    BY <1>4 DEF KeptLines
  <2> QED BY <2>1, FS_EmptySet DEF Below
<1>7. ColonLeft(1)'
  BY <1>1, <1>2, <1>5, SpacingFixed DEF ColonLeft
<1>8. \A t \in KeptLines' : ~(t < 1)
  BY <1>1, <1>4, SpacingFixed DEF KeptLines
<1>9. HardAssembleLineInv(1)'
  BY <1>1, <1>3, <1>5, <1>6, <1>7, <1>8, SpacingFixed DEF HardAssembleLineInv
<1> QED BY <1>1, <1>9 DEF HardAssembleInv, HardlySpacedAssembled

LEMMA HardAssembleGoesOn ==
  ASSUME TypeInv, HardAssembleInv, pass = "assemble", Comment \/ (Collect /\ pass' = pass)
  PROVE  HardAssembleInv'
<1>1. list' = list /\ program' = program /\ pass' = "assemble" /\ lc' = lc
  BY DEF Comment, Collect
<1>2. SUFFICES ASSUME HardlySpaced PROVE \E s \in Nat : HardAssembleLineInv(s)'
  BY <1>1, SpacingFixed DEF HardAssembleInv, HardlySpacedAssembled
<1>3. PICK s \in Nat : HardAssembleLineInv(s)
  BY <1>2 DEF HardAssembleInv
<1>4. InLine(s) /\ Buffered(s) /\ i \in Nat /\ ic \in Nat
  BY <1>3, Sizes DEF HardAssembleLineInv, TypeInv
<1>5. InLine(s)' /\ Buffered(s)'
  BY <1>4, LineGoesOn
<1>6. ic' <= 1 => ic <= 1 /\ SecondIsColon' = SecondIsColon
  <2>1. CASE Comment
    BY <2>1 DEF Comment, SecondIsColon
  <2>2. CASE Collect /\ pass' = pass
    <3>1. ic < TK_SIZE /\ tk' = [tk EXCEPT ![ic] = list[i]] /\ ic' = ic + 1
      BY <2>2 DEF Collect, Walking
    <3>2. ic' <= 1 => ic = 0 /\ tk'[1] = tk[1]
      BY <1>4, <3>1, Sizes DEF TypeInv
    <3> QED BY <3>2 DEF SecondIsColon
  <2> QED BY <2>1, <2>2
<1>7. ColonLeft(s)'
  BY <1>1, <1>3, <1>6, SpacingFixed DEF HardAssembleLineInv, ColonLeft
<1>8. \A t \in KeptLines' :
        t < s => program'[Below(KeptLines', t) + 1].op = list'[t].literall
  BY <1>1, <1>3, SpacingFixed DEF HardAssembleLineInv
<1>9. HardAssembleLineInv(s)'
  BY <1>1, <1>3, <1>5, <1>7, <1>8, SpacingFixed DEF HardAssembleLineInv
<1> QED BY <1>9

\* The ends of lines in the second pass: the kept line is the next instruction.
LEMMA HardAssembleLineKeeps ==
  ASSUME TypeInv, TypeInv', HardAssembleInv, SkipLabel \/ AssembleLine \/ SkipEmptyLine
  PROVE  HardAssembleInv'
<1>1. /\ list' = list /\ pass' = "assemble" /\ pass = "assemble"
      /\ i <= Len(list) /\ Type = "EXPRESSION_END"
      /\ i' = i + 1 /\ ~line_is_comment'
  BY DEF SkipLabel, AssembleLine, SkipEmptyLine, LineEnd
<1>2. ic' = 0
  BY DEF SkipLabel, AssembleLine, SkipEmptyLine, TokensAfterLabel
<1>3. SUFFICES ASSUME HardlySpaced PROVE \E s \in Nat : HardAssembleLineInv(s)'
  BY <1>1, SpacingFixed DEF HardAssembleInv, HardlySpacedAssembled
<1>4. PICK s \in Nat : HardAssembleLineInv(s)
  BY <1>1, <1>3 DEF HardAssembleInv
<1>n. PICK n \in Nat : n = i + 1
  BY DEF TypeInv
<1>5. InLine(s) /\ Buffered(s) /\ s \in Nat /\ lc = Below(KeptLines, s) /\ ProperUpTo(s)
  BY <1>4 DEF HardAssembleLineInv
<1>6. InLine(n)' /\ Buffered(n)'
  BY <1>1, <1>2, <1>n, LineStarted
<1>7. \A t \in LineStarts : t < n <=> t < s \/ t = s
  BY <1>1, <1>5, <1>n, LinesAtEnd
<1>8. s \in InstructionStarts => list[s].type = "WORD"
  <2>1. ic = 0 => s \notin InstructionStarts
    BY <1>1, <1>5, LineMeaning
  <2>2. ic # 0 => tk[0] = list[s]
    BY <1>1, <1>5, LineMeaning
  <2>3. AssembleLine => tk[0].type = "WORD"
    <3>1. AssembleLine => Op \in DOMAIN Arity
      BY DEF AssembleLine, Crashes
    <3>2. tk[0] \in Token \cup {NoToken}
      BY Sizes DEF TypeInv
    <3> QED BY <3>1, <3>2, TokenFacts DEF Op
  <2>4. SkipLabel => tk[0].type = "WORD"
    BY DEF SkipLabel, LooksLikeLabel
  <2>5. SkipEmptyLine => ic = 0
    BY DEF SkipEmptyLine
  <2> QED BY <2>1, <2>2, <2>3, <2>4, <2>5
<1>9. /\ ic # 0 => tk[0] = list[s]
      /\ ic # 0 /\ ~LooksLikeLabel <=> s \in KeptLines
      /\ ~LooksLikeLabel /\ ic # 0 => ~AfterLabel(n) /\ ~Pending(n)
      /\ LooksLikeLabel \/ ic = 0 => (SecondIsColon <=> AfterLabel(n) \/ Pending(n))
  BY <1>1, <1>3, <1>4, <1>8, <1>n, LineAssembled
<1>10. ProperUpTo(n)
  BY <1>5, <1>7, <1>8, StartsFinite DEF ProperUpTo
<1>11. Below(KeptLines, n) = IF s \in KeptLines THEN lc + 1 ELSE lc
  BY <1>1, <1>5, <1>n, BelowAtEnd
<1>12. \A t \in KeptLines : t < n <=> t < s \/ t = s
  BY <1>7, KeptFinite
<1>13. CASE SkipLabel \/ SkipEmptyLine
  <2>1. tk' = tk /\ lc' = lc /\ program' = program /\ (LooksLikeLabel \/ ic = 0)
    BY <1>13 DEF SkipLabel, SkipEmptyLine
  <2>2. s \notin KeptLines
    BY <1>9, <2>1
  <2>3. ColonLeft(n)'
    BY <1>1, <1>9, <2>1, SpacingFixed DEF ColonLeft, SecondIsColon
  <2>4. \A t \in KeptLines' :
          t < n => program'[Below(KeptLines', t) + 1].op = list'[t].literall
    BY <1>1, <1>4, <1>12, <2>1, <2>2, SpacingFixed DEF HardAssembleLineInv
  <2>5. HardAssembleLineInv(n)'
    BY <1>1, <1>6, <1>10, <1>11, <2>1, <2>2, <2>3, <2>4, SpacingFixed
       DEF HardAssembleLineInv
  <2> QED BY <2>5
<1>14. CASE AssembleLine
  <2>1. lc' = lc + 1 /\ ~LooksLikeLabel /\ ic # 0
    BY <1>14 DEF AssembleLine
  <2>2. s \in KeptLines /\ ~AfterLabel(n) /\ ~Pending(n) /\ tk[0] = list[s]
    BY <1>9, <2>1
  <2>3. ColonLeft(n)'
    BY <1>1, <1>14, <2>2, ClearedColon, SpacingFixed DEF ColonLeft
  <2>4. PICK value \in Values : program' = Append(program, Assembled(value))
    BY <1>14 DEF AssembleLine
  <2>5. /\ lc = Len(program) /\ Len(program) \in Nat
        /\ \A k \in 1 .. Len(program) : program'[k] = program[k]
        /\ program'[lc + 1].op = list[s].literall
    <3>1. Assembled(value).op = list[s].literall
      BY <2>2 DEF Assembled, Op
    <3>2. program \in Seq(Instruction(Len(list))) /\ lc = Len(program)
      BY <1>1 DEF TypeInv
    <3>3. program' = Append(program, Assembled(value))
      BY <2>4
    <3>4. program' \in Seq(Instruction(Len(list)))
      BY <1>1 DEF TypeInv
    <3> QED BY <3>1, <3>2, <3>3, <3>4
  <2>6. ASSUME NEW t \in KeptLines, t < n
        PROVE  program'[Below(KeptLines, t) + 1].op = list[t].literall
    <3>1. CASE t = s
      BY <1>5, <2>5, <3>1
    <3>2. CASE t # s
      <4>1. t < s /\ t \in Nat
        BY <1>12, <2>6, <3>2, KeptFinite, StartsFinite
      <4>2. Below(KeptLines, t) < lc
        <5> DEFINE fewer == {u \in KeptLines : u < t}
                   more  == {u \in KeptLines : u < s}
        <5>1. ASSUME NEW u \in KeptLines PROVE u \in Nat
          <6>1. u \in 1 .. Len(list) /\ Len(list) \in Nat
            BY <5>1, KeptFinite, StartsFinite DEF TypeInv
          <6> QED BY <6>1
        <5>2. ASSUME NEW u \in KeptLines, u < t PROVE u < s
          BY <1>5, <4>1, <5>1, <5>2
        <5>3. t \in more /\ t \notin fewer
          BY <4>1, <2>6
        <5>4. fewer \subseteq more
          BY <5>2
        <5>5. more \subseteq KeptLines
          OBVIOUS
        <5>6. Below(KeptLines, t) = Cardinality(fewer) /\ lc = Cardinality(more)
          BY <1>5 DEF Below
        <5> HIDE DEF fewer, more
        <5>7. IsFiniteSet(more) /\ fewer # more
          BY <5>3, <5>5, KeptFinite, FS_Subset
        <5> QED BY <5>4, <5>6, <5>7, FS_Subset, FS_CardinalityType
      <4>3. Below(KeptLines, t) + 1 \in 1 .. Len(program)
        BY <2>5, <4>2, KeptFinite
      <4> QED BY <1>4, <2>5, <4>1, <4>3 DEF HardAssembleLineInv
    <3> QED BY <3>1, <3>2
  <2>7. \A t \in KeptLines' :
          t < n => program'[Below(KeptLines', t) + 1].op = list'[t].literall
    BY <1>1, <2>6, SpacingFixed
  <2>8. HardAssembleLineInv(n)'
    BY <1>1, <1>6, <1>10, <1>11, <2>1, <2>2, <2>3, <2>7, SpacingFixed
       DEF HardAssembleLineInv
  <2> QED BY <2>8
<1> QED BY <1>13, <1>14

LEMMA HardAssembleDoneKeeps ==
  ASSUME TypeInv, HardAssembleInv, AssembleDone
  PROVE  HardAssembleInv'
<1>1. /\ list' = list /\ program' = program /\ pass = "assemble" /\ pass' = "done"
      /\ i > Len(list)
  BY DEF AssembleDone
<1>2. ASSUME HardlySpaced
      PROVE  /\ Len(program) = Cardinality(KeptLines)
             /\ \A t \in KeptLines :
                  program[Cardinality({u \in KeptLines : u < t}) + 1].op = list[t].literall
  <2>1. PICK s \in Nat : HardAssembleLineInv(s)
    BY <1>1, <1>2 DEF HardAssembleInv
  <2>2. \A t \in LineStarts : t < s
    BY <1>1, <2>1, LinesAtEndOfSource DEF HardAssembleLineInv
  <2>3. {u \in KeptLines : u < s} = KeptLines
    BY <2>2, KeptFinite
  <2>4. Len(program) = Cardinality(KeptLines)
    BY <1>1, <2>1, <2>3 DEF HardAssembleLineInv, Below, TypeInv
  <2> QED BY <2>1, <2>2, <2>4, KeptFinite DEF HardAssembleLineInv, Below
<1> QED BY <1>1, <1>2, SpacingFixed DEF HardAssembleInv, HardlySpacedAssembled

LEMMA NextHardAssembleInv ==
  ASSUME TypeInv, TypeInv', HardAssembleInv, [Next]_vars
  PROVE  HardAssembleInv'
<1>1. CASE UNCHANGED vars
  <2>1. UNCHANGED <<list, pass, i, tk, ic, lc, line_is_comment, program>>
    BY <1>1 DEF vars
  <2>2. HardlySpacedAssembled' = HardlySpacedAssembled
    BY <2>1, SpacingFixed DEF HardlySpacedAssembled
  <2>3. \A s : HardAssembleLineInv(s)' = HardAssembleLineInv(s)
    <3>1. \A s : InLine(s)' = InLine(s) /\ Buffered(s)' = Buffered(s)
      BY <2>1 DEF InLine, Buffered
    <3>2. \A s : ColonLeft(s)' = ColonLeft(s)
      BY <2>1, SpacingFixed DEF ColonLeft, SecondIsColon
    <3> QED BY <2>1, <3>1, <3>2, SpacingFixed DEF HardAssembleLineInv
  <2> QED BY <2>1, <2>2, <2>3, SpacingFixed DEF HardAssembleInv
<1>2. CASE pass' \in {"index", "undefined", "aborted"}
  BY <1>2 DEF HardAssembleInv, HardlySpacedAssembled
<1>3. CASE Step /\ pass = "index" /\ pass' \notin {"index", "undefined", "aborted"}
  <2>1. IndexDone
    BY <1>3 DEF Step, Comment, Collect, IndexOneToken, IndexLabel, IndexLine,
         SkipLabel, AssembleLine, AssembleAborts, AssembleOverruns,
         SkipEmptyLine, AssembleDone, LineEnd
  <2> QED BY <2>1, HardAssembleStarts
<1>4. CASE Step /\ pass # "index"
  <2>1. Comment \/ Collect => pass = "assemble"
    BY <1>4 DEF Comment, Collect, Walking
  <2>2. Collect => pass' = pass \/ pass' = "undefined"
    BY DEF Collect
  <2>3. AssembleAborts \/ AssembleOverruns => pass' \in {"undefined", "aborted"}
    BY DEF AssembleAborts, AssembleOverruns
  <2>4. ~(IndexOneToken \/ IndexLabel \/ IndexLine \/ IndexDone)
    BY <1>4 DEF IndexOneToken, IndexLabel, IndexLine, IndexDone, LineEnd
  <2> QED BY <1>2, <1>4, <2>1, <2>2, <2>3, <2>4, HardAssembleGoesOn,
            HardAssembleLineKeeps, HardAssembleDoneKeeps DEF Step
<1> QED BY <1>1, <1>2, <1>3, <1>4 DEF Next, Finished

LEMMA HardAssembleInvariant == Spec => []HardAssembleInv
<1>1. Init => HardAssembleInv
  BY DEF Init, HardAssembleInv, HardlySpacedAssembled
<1>2. TypeInv /\ TypeInv' /\ HardAssembleInv /\ [Next]_vars => HardAssembleInv'
  BY NextHardAssembleInv
<1> QED BY <1>1, <1>2, TypesInvariant, PTL DEF Spec

\* A source of any length in which a longer line comes below each instruction of one word
\* that is next to a label loses just those (assemble_program, what it looks at in tk).
THEOREM HardlySpacedSourcesAssembled == Spec => []HardlySpacedAssembled
<1>1. HardAssembleInv => HardlySpacedAssembled
  BY DEF HardAssembleInv
<1> QED BY <1>1, HardAssembleInvariant, PTL

\* And where the second pass comes to a label of such a source, it has assembled as many
\* instructions as the first pass had counted there (index_labels).
THEOREM HardlySpacedSourcesAgree == Spec => HardlySpacedPassesAgree
<1>1. ASSUME TypeInv, HardIndexInv, HardAssembleInv, HardlySpaced, SkipLabel, ic # 1
      PROVE  [name |-> tk[0].literall, address |-> lc] \in {labels[k] : k \in DOMAIN labels}
  <2>1. /\ pass = "assemble" /\ i <= Len(list) /\ Type = "EXPRESSION_END"
        /\ LooksLikeLabel /\ ic # 0
    BY <1>1 DEF SkipLabel, LineEnd, LooksLikeLabel
  <2>2. PICK s \in Nat : HardAssembleLineInv(s)
    BY <1>1, <2>1 DEF HardAssembleInv
  <2>3. InLine(s) /\ Buffered(s) /\ ProperUpTo(s) /\ lc = Below(KeptLines, s)
    BY <2>2 DEF HardAssembleLineInv
  <2>4. s \in LabelStarts /\ tk[0] = list[s]
    BY <1>1, <2>1, <2>3, LineMeaning
  <2>5. Noted(s)
    BY <1>1, <2>1, <2>3, <2>4 DEF HardIndexInv
  <2> QED BY <2>3, <2>4, <2>5 DEF Noted
<1>2. TypeInv /\ HardIndexInv /\ HardAssembleInv /\ [Next]_vars
        => [PassesAgree \/ ~HardlySpaced]_vars
  BY <1>1 DEF PassesAgree
<1> QED BY <1>2, TypesInvariant, HardIndexInvariant, HardAssembleInvariant, PTL
      DEF Spec, HardlySpacedPassesAgree

=============================================================================
