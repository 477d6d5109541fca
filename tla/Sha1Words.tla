------------------------------- MODULE Sha1Words -------------------------------
(***************************************************************************)
(* The byte-order conversions of lib/bits.h, for words of any width that   *)
(* is a multiple of the width of a byte: sha1_store8_beu32 (and 64, and    *)
(* their aligned versions), followed by sha1_load8_beu32.                  *)
(***************************************************************************)
EXTENDS Sha1Bits, Sequences

CONSTANTS
  ByteBits,   \* CHAR_BIT (8)
  UCharMod    \* the loops count in an unsigned char, modulo 256

ASSUME BytesAssumption ==
  /\ ByteBits \in Nat \ {0} /\ WordBits % ByteBits = 0
  /\ UCharMod \in Nat /\ WordBits < UCharMod

ByteMod == Power[ByteBits]
Bytes   == WordBits \div ByteBits

(* The shift i counts down by a byte each round, and the loops end when it *)
(* wraps around.                                                           *)
VARIABLES pc, x, y, p, at, i

vars == <<pc, x, y, p, at, i>>

Shift == (i - ByteBits) % UCharMod

Ends_at_last_byte == Shift = 0
Ends == (Shift + ByteBits) % UCharMod = 0

(* *p++ = x >> i *)
StoredByte_little_endian == ShiftRight(x, WordBits - ByteBits - Shift) % ByteMod
StoredByte == ShiftRight(x, Shift) % ByteMod

store_byte ==
  /\ pc = "store" /\ ~Ends
  /\ p' = [p EXCEPT ![at] = StoredByte]
  /\ at' = at + 1 /\ i' = Shift
  /\ UNCHANGED <<pc, x, y>>

store_end ==
  /\ pc = "store" /\ Ends
  /\ pc' = "load" /\ at' = 0 /\ i' = WordBits
  /\ UNCHANGED <<x, y, p>>

load_byte ==
  /\ pc = "load" /\ ~Ends
  /\ y' = BitOr(y, ShiftLeft(p[at], Shift))
  /\ at' = at + 1 /\ i' = Shift
  /\ UNCHANGED <<pc, x, p>>

load_end ==
  /\ pc = "load" /\ Ends
  /\ pc' = "done"
  /\ UNCHANGED <<x, y, p, at, i>>

(* The memory the word is stored to was not written before.                *)
Init ==
  /\ pc = "store" /\ x \in Word /\ y = 0 /\ at = 0 /\ i = WordBits
  /\ p \in {[k \in 0 .. Bytes - 1 |-> b] : b \in {0, ByteMod - 1}}

Next == store_byte \/ store_end \/ load_byte \/ load_end

Spec == Init /\ [][Next]_vars

-------------------------------------------------------------------------------
(* Properties. *)

(***************************************************************************)
(* The loops write and read every byte of the array and none beyond it,    *)
(* and never shift by a whole word, although their counter wraps around.   *)
(***************************************************************************)
LoopsStayInBounds ==
  /\ at \in 0 .. Bytes
  /\ pc \in {"store", "load"} => Ends <=> at = Bytes
  /\ pc \in {"store", "load"} /\ ~Ends => Shift < WordBits

(***************************************************************************)
(* What is stored is big-endian, whatever was in the memory, and loading   *)
(* it gives the word back.                                                 *)
(***************************************************************************)
BytesAreBigEndian ==
  /\ pc \in {"load", "done"} =>
       \A k \in 0 .. Bytes - 1 :
         p[k] = (x \div Power[ByteBits * (Bytes - 1 - k)]) % ByteMod
  /\ pc = "done" => y = x

(***************************************************************************)
(* A rotation by any count, 0 and more than the width of a word included,  *)
(* moves every bit round, and the two directions undo each other.          *)
(***************************************************************************)
RotationsMoveEveryBit ==
  \A s \in 0 .. 2 * WordBits :
    /\ \A k \in 0 .. WordBits - 1 :
         Bit(sha1_rotate_left(x, s), (k + s) % WordBits) = Bit(x, k)
    /\ sha1_rotate_right(sha1_rotate_left(x, s), s) = x

(***************************************************************************)
(* The abbreviated round functions are the ones of SHA-1, bit by bit: b    *)
(* chooses between c and d; the parity; the majority.                      *)
(***************************************************************************)
RoundFunctionsAreSha1s ==
  \A c, d \in Word : \A k \in 0 .. WordBits - 1 :
    LET bk == Bit(x, k)  ck == Bit(c, k)  dk == Bit(d, k) IN
      /\ Bit(sha1_fIF(x, c, d), k)  = IF bk = 1 THEN ck ELSE dk
      /\ Bit(sha1_fXOR(x, c, d), k) = (bk + ck + dk) % 2
      /\ Bit(sha1_fMAJ(x, c, d), k) = IF bk + ck + dk >= 2 THEN 1 ELSE 0
===============================================================================
