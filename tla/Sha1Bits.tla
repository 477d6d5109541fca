------------------------------- MODULE Sha1Bits --------------------------------
(***************************************************************************)
(* The operations on the bits of a word: the rotations of lib/bits.h and   *)
(* the round functions of lib/sha1.c, for words of any width.              *)
(***************************************************************************)
EXTENDS Integers

CONSTANTS
  WordBits,      \* 32, and 64 for the length
  RoundConstant  \* of the four rounds, by number

ASSUME BitsAssumption ==
  WordBits \in Nat \ {0} /\ RoundConstant \in [0 .. 3 -> Nat]

(* Power[n] is 2 ^ n. *)
Power[n \in Nat] == IF n = 0 THEN 1 ELSE 2 * Power[n - 1]

WordSpan == Power[WordBits]
Word     == 0 .. WordSpan - 1

ShiftLeft(x, s)  == (x * Power[s]) % WordSpan
ShiftRight(x, s) == x \div Power[s]

Bit(x, k)        == ShiftRight(x, k) % 2
BitNumbers       == 0 .. WordBits - 1

(* The word whose bits are given. *)
WordOf(bits) ==
  LET low[n \in 0 .. WordBits] ==   \* the number that its n low bits make
        IF n = 0 THEN 0 ELSE low[n - 1] + bits[n - 1] * Power[n - 1]
  IN  low[WordBits]

BitAnd(x, y) == WordOf([k \in BitNumbers |-> IF Bit(x, k) = 1 /\ Bit(y, k) = 1 THEN 1 ELSE 0])
BitOr(x, y)  == WordOf([k \in BitNumbers |-> IF Bit(x, k) = 1 \/ Bit(y, k) = 1 THEN 1 ELSE 0])
BitXor(x, y) == WordOf([k \in BitNumbers |-> IF Bit(x, k) = Bit(y, k) THEN 0 ELSE 1])

(* x << s | x >> 32 - (s ? s : 32), where s ? s : 32 avoids a shift by the *)
(* whole width.                                                            *)
sha1_rotate_left_loses_a_bit(x, s) ==
  LET r == s % WordBits IN
    BitOr(ShiftLeft(x, r), ShiftRight(ShiftRight(x, 1), WordBits - (IF r = 0 THEN WordBits ELSE r)))

sha1_rotate_left(x, s) ==
  LET r == s % WordBits IN
    BitOr(ShiftLeft(x, r), ShiftRight(x, WordBits - (IF r = 0 THEN WordBits ELSE r)))

sha1_rotate_right(x, s) == sha1_rotate_left(x, -(s % WordBits))

sha1_fIF_other_precedence(b, c, d) == BitAnd(b, BitXor(BitXor(c, d), d))

sha1_fIF(b, c, d)  == BitXor(BitAnd(b, BitXor(c, d)), d)
sha1_fXOR(b, c, d) == BitXor(BitXor(b, c), d)
sha1_fMAJ(b, c, d) == BitOr(BitAnd(b, c), BitAnd(d, BitXor(b, c)))

(* t is a step, and a round has twenty. *)
sha1_fk(b, c, d, t) ==
  (CASE t \div 20 = 0 -> sha1_fIF(b, c, d) + RoundConstant[0]
     [] t \div 20 = 1 -> sha1_fXOR(b, c, d) + RoundConstant[1]
     [] t \div 20 = 2 -> sha1_fMAJ(b, c, d) + RoundConstant[2]
     [] t \div 20 = 3 -> sha1_fXOR(b, c, d) + RoundConstant[3]) % WordSpan
===============================================================================
