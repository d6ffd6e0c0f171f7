------------------------------- MODULE MCFloats -------------------------------
(***************************************************************************)
(* A small float format for model checking: a pattern, read as an int,     *)
(* counts halves.  Its two extreme values are the infinities, whose        *)
(* conversion to a word C leaves undefined, as it does the conversion of a *)
(* negative number to an unsigned one.                                     *)
(***************************************************************************)
EXTENDS SetMachine

Infinity == UINT_MOD \div 2 - 1

Halves(w)  == AsInt(w)
Float(n)   == (IF n > Infinity THEN Infinity
               ELSE IF n < -Infinity THEN -Infinity ELSE n) % UINT_MOD
Towards0(n, d) == IF n < 0 THEN -((-n) \div d) ELSE n \div d

MCFloatArith(op, a, b) ==
  LET x == Halves(a)
      y == Halves(b)
  IN  CASE op = "I_FADD" -> Float(x + y)
        [] op = "I_FSUB" -> Float(x - y)
        [] op = "I_FMUL" -> Float(Towards0(x * y, 2))
        [] op = "I_FDIV" -> IF y = 0 THEN Float(IF x < 0 THEN -Infinity ELSE Infinity)
                            ELSE IF y < 0 THEN Float(Towards0(-2 * x, -y))
                            ELSE Float(Towards0(2 * x, y))

MCFloatCompare(op, a, b) ==
  LET x == Halves(a)
      y == Halves(b)
  IN  CASE op = "I_FCMPE"  -> x = y
        [] op = "I_FCMPEG" -> x >= y
        [] op = "I_FCMPEL" -> x <= y
        [] op = "I_FCMPG"  -> x > y
        [] op = "I_FCMPL"  -> x < y

MCToFloat(n) == Float(2 * n)

MCFromFloat(op, w) ==
  LET n == Towards0(Halves(w), 2)
  IN  IF w \in {Float(Infinity), Float(-Infinity)} \/ (op = "I_CF2U" /\ n < 0)
      THEN Word ELSE {n % UINT_MOD}

=============================================================================
