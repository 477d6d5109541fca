------------------------------- MODULE Sha1Core --------------------------------
(***************************************************************************)
(* The arithmetic of lib/sha1.c: one step of the compressor, forwards and  *)
(* backwards, the message expansion and the feed-forward, over words of    *)
(* any width.  The operations on the bits of a word are constants here;    *)
(* Sha1Bits gives them.                                                    *)
(***************************************************************************)
EXTENDS Integers

CONSTANTS
  WordMod,                  \* words are counted modulo this (2^32)
  WordBits,                 \* (32)
  rotate_left(_, _),        \* lib/bits.h
  Xor(_, _),
  fk(_, _, _, _),           \* the round function plus the round constant
  Steps                     \* (80)

Word == 0 .. WordMod - 1

(* Words stay words. *)
WordsAreClosed ==
  /\ WordMod \in Nat \ {0} /\ WordBits \in Nat \ {0} /\ Steps \in Nat \ {0}
  /\ \A x \in Word, s \in 0 .. WordBits : rotate_left(x, s) \in Word
  /\ \A x, y \in Word : Xor(x, y) \in Word
  /\ \A b, c, d \in Word, t \in 0 .. Steps - 1 : fk(b, c, d, t) \in Word

(* Rotating right is rotating left by what is missing to a full turn; it   *)
(* undoes the rotation of B by two.                                        *)
sha1_rotate_right(x, s) == rotate_left(x, (-s) % WordBits)

RotationsUndo ==
  \A x \in Word :
    /\ sha1_rotate_right(x, 2) \in Word
    /\ rotate_left(sha1_rotate_right(x, 2), 2) = x
    /\ sha1_rotate_right(rotate_left(x, 2), 2) = x
    /\ rotate_left(x, 2) \in Word /\ rotate_left(x, 5) \in Word

(* What makes the expansion of a difference the difference of expansions.  *)
XorIsLinear ==
  /\ \A x, y \in Word : Xor(x, y) = Xor(y, x)
  /\ \A x, y, z \in Word : Xor(Xor(x, y), z) = Xor(x, Xor(y, z))
  /\ \A x, y \in Word :
       rotate_left(Xor(x, y), 1) = Xor(rotate_left(x, 1), rotate_left(y, 1))
  /\ \A x \in Word : rotate_left(x, 1) \in Word

(* Sha1WordsProofs proves all three of the operations of Sha1Bits. *)
ASSUME WordAssumption   == WordsAreClosed
ASSUME RotateAssumption == RotationsUndo
ASSUME XorAssumption    == XorIsLinear

Add_without_wrapping(x, y) == x + y
Add(x, y) == (x + y) % WordMod

Sub_without_wrapping(x, y) == x - y
Sub(x, y) == (x - y) % WordMod

(* A chaining value, or a state of the compressor. *)
State    == [A : Word, B : Word, C : Word, D : Word, E : Word]
Expanded == [0 .. Steps - 1 -> Word]

-------------------------------------------------------------------------------
sha1_step(s, m, t) ==
  [A |-> Add(Add(Add(s.E, rotate_left(s.A, 5)), fk(s.B, s.C, s.D, t)), m),
   B |-> s.A, C |-> sha1_rotate_right(s.B, 2), D |-> s.C, E |-> s.D]

(* t is the step that is undone.  A word that was rotated by the step is   *)
(* rotated back before it enters the round function again.                 *)
sha1_step_bw_rotates_late(s, m, t) ==
  LET A == s.B  B == rotate_left(s.C, 2)  C == s.D  D == s.E IN
    [A |-> A, B |-> B, C |-> C, D |-> D,
     E |-> Sub(Sub(Sub(s.A, m), fk(s.C, C, D, t)), rotate_left(A, 5))]

sha1_step_bw(s, m, t) ==
  LET A == s.B  B == rotate_left(s.C, 2)  C == s.D  D == s.E IN
    [A |-> A, B |-> B, C |-> C, D |-> D,
     E |-> Sub(Sub(Sub(s.A, m), fk(B, C, D, t)), rotate_left(A, 5))]

(* cv[i] += state[i] *)
FeedForward(cv, s) ==
  [A |-> Add(cv.A, s.A), B |-> Add(cv.B, s.B), C |-> Add(cv.C, s.C),
   D |-> Add(cv.D, s.D), E |-> Add(cv.E, s.E)]

(* Word i of an expanded block whose words before i are in W. *)
sha1_expand_one(W, i) ==
  rotate_left(Xor(Xor(W[i - 3], W[i - 8]), Xor(W[i - 14], W[i - 16])), 1)

(* Every word after the sixteen of the message is what the expansion says. *)
IsExpansion(W) == \A i \in 16 .. Steps - 1 : W[i] = sha1_expand_one(W, i)

(* The states of the compressor from s on, over an expanded block. *)
StatesFrom(s, W) ==
  LET state[t \in 0 .. Steps] ==
        IF t = 0 THEN s ELSE sha1_step(state[t - 1], W[t - 1], t - 1)
  IN  state

sha1_add_block(cv, W) == FeedForward(cv, StatesFrom(cv, W)[Steps])
===============================================================================
