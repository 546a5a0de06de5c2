---------------------------- MODULE ReedSolomon ----------------------------
(* The error-correction arithmetic of src/src/crypto/QrCode.cpp as that file
   computes it: multiplication of bytes, the divisor polynomial of a number of
   error-correction codewords, and the remainder appended to a block.
   Polynomials are sequences of bytes, the highest power first. *)
EXTENDS Integers, Sequences, SequencesExt

Byte == 0..255

Bit(n, i) == (n \div 2^i) % 2

(* Exclusive or, bit by bit.  The ^^ of the community modules is a recursive
   operator, and the provers take no module that reaches one. *)
x ^^ y ==
  LET xor[a \in Nat, b \in Nat] ==
        IF a = 0 \/ b = 0 THEN a + b
        ELSE 2 * xor[a \div 2, b \div 2] + ((a + b) % 2)
  IN xor[x, y]

(* QrCode::reedSolomonMultiply.  z is an int that is cut to a byte only when
   it is returned, and what leaves bit 8 is multiplied as an integer. *)
Multiply(x, y) ==
  LET Step(z, i) == LET shifted == (2 * z) ^^ ((z \div 256) * 285)
                    IN IF Bit(y, i) = 1 THEN shifted ^^ x ELSE shifted
  IN FoldLeft(Step, 0, <<7, 6, 5, 4, 3, 2, 1, 0>>) % 256

(* The first value of the divisor, and one round of the loop of
   QrCode::reedSolomonComputeDivisor: every coefficient is multiplied by the
   root and takes its neighbour's value of the round before. *)
DivisorOne(degree) == [j \in 1..degree |-> IF j = degree THEN 1 ELSE 0]

DivisorRound(divisor, root) ==
  [j \in DOMAIN divisor |->
     IF j < Len(divisor) THEN Multiply(divisor[j], root) ^^ divisor[j + 1]
                         ELSE Multiply(divisor[j], root)]

(* One byte through QrCode::reedSolomonComputeRemainder, a shift register as
   long as the divisor. *)
RemainderRound(rest, divisor, b) ==
  LET factor == b ^^ rest[1]
  IN [i \in DOMAIN divisor |->
        IF i < Len(divisor) THEN rest[i + 1] ^^ Multiply(divisor[i], factor)
                            ELSE Multiply(divisor[i], factor)]

-----------------------------------------------------------------------------
(* What a reader of the symbol computes: the field with 256 elements whose
   polynomial is x^8 + x^4 + x^3 + x^2 + 1.  FieldProduct reduces at every
   step, so that it never leaves a byte. *)

FieldProduct(x, y) ==
  LET Step(z, i) ==
        LET doubled == IF z >= 128 THEN (2 * z) ^^ 285 ELSE 2 * z
        IN IF Bit(y, i) = 1 THEN doubled ^^ x ELSE doubled
  IN IF x = 0 THEN 0 ELSE FoldLeft(Step, 0, <<7, 6, 5, 4, 3, 2, 1, 0>>)

(* The syndrome of a block at a root: the value of its polynomial there. *)
ValueAt(poly, r) ==
  FoldLeft(LAMBDA acc, c : FieldProduct(acc, r) ^^ c, 0, poly)

(* The powers of 2 in the field, the roots of the divisors. *)
FieldPowers == <<1, 2, 4, 8, 16, 32, 64, 128, 29, 58, 116, 232, 205, 135, 19, 38,
                 76, 152, 45, 90, 180, 117, 234, 201, 143, 3, 6, 12, 24, 48>>
============================================================================
