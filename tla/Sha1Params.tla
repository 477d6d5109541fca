------------------------------ MODULE Sha1Params ------------------------------
(***************************************************************************)
(* What the streaming layer (lib/common.c) and the block processor         *)
(* (lib/sha1.c, `process') take as given: the sizes fixed by the types of  *)
(* `struct sha1dc_ctx', the compression function and the results of a      *)
(* recompression.  Every size is a constant so that TLC can check a small  *)
(* instance and TLAPS can argue about all of them, 64-byte blocks and a    *)
(* 64-bit counter included.                                                *)
(***************************************************************************)
EXTENDS Integers, Sequences

CONSTANTS
  B,               \* sizeof ctx->buffer: the bytes of a block (64)
  L,               \* sizeof bits: the bytes of the length field (8)
  M,               \* ctx->bytes and `bits' are counted modulo M (2^64)
  UCharMod,        \* unsigned char and uint8_t are counted modulo this (256)
  BitsPerByte,     \* (8)
  Byte,            \* the values of an unsigned char
  PadByte,         \* the first byte of sha1_padding (0b1000'0000)
  LengthField(_),  \* what sha1_store8_aligned_beu64 writes for a bit count
  Uninit           \* an unsigned char nobody has written yet

CONSTANTS
  CV,              \* chaining values
  IV,              \* the chaining value sha1dc_init writes
  Compress(_, _),  \* the chaining value after one more block
  Digest(_),       \* the 20 bytes sha1dc_finish stores for a chaining value
  NDV,             \* sha1dc_n_disturbance_vectors (32)
  Ubc(_),          \* the vectors sha1dc_ubc_check cannot rule out for a block
  TwinIn(_, _, _), \* what recompressing the twin block from the quiet step of
  TwinOut(_, _, _) \* a vector finds before and after the twin block

DV    == 0 .. NDV - 1
Block == [1 .. B -> Byte]

ASSUME SizesAssumption ==
  /\ B \in Nat \ {0}
  /\ L \in Nat \ {0}
  /\ M \in Nat /\ M > B /\ M % B = 0   \* 64 divides 2^64
  /\ UCharMod \in Nat /\ UCharMod > B  \* a count of up to 64 fits uint8_t
  /\ BitsPerByte \in Nat \ {0}
  /\ NDV \in Nat \ {0}

ASSUME BytesAssumption ==
  /\ PadByte \in Byte /\ 0 \in Byte
  /\ Uninit \notin Byte
  /\ \A bits \in 0 .. M - 1 : LengthField(bits) \in [1 .. L -> Byte]

ASSUME HashAssumption ==
  /\ IV \in CV
  /\ \A c \in CV, b \in Block : Compress(c, b) \in CV

(***************************************************************************)
(* A vector gives a block away when the twin block it prescribes leads to  *)
(* the same chaining value c (a collision) or, if collisions of the        *)
(* reduced function are wanted too, starts from the same one.              *)
(***************************************************************************)
Collides(d, reduced, before, after, b) ==
  \/ TwinOut(d, before, b) = after
  \/ reduced /\ TwinIn(d, before, b) = before

(***************************************************************************)
(* The claim of counter-cryptanalysis the library is built on (README.md:  *)
(* "any cryptanalytic collision attack ... with probability 1"): the       *)
(* unavoidable bit conditions of a vector hold of every block that the     *)
(* vector gives away.                                                      *)
(***************************************************************************)
ASSUME UbcAssumption ==
  \A b \in Block :
    /\ Ubc(b) \subseteq DV
    /\ \A c \in CV, d \in DV :
         Collides(d, TRUE, c, Compress(c, b), b) => d \in Ubc(b)

-------------------------------------------------------------------------------
(***************************************************************************)
(* The padding rule of SHA-1, as FIPS 180 states it and not as the code    *)
(* computes it: one bit, as few zeros as complete a block, the bit length. *)
(***************************************************************************)
ZeroFill(len) == CHOOSE k \in 0 .. B - 1 : (len + 1 + k + L) % B = 0

Padding(len) ==
  <<PadByte>> \o [k \in 1 .. ZeroFill(len) |-> 0]
              \o LengthField((BitsPerByte * len) % M)

Padded(m) == m \o Padding(Len(m))

(* Block k, from 1, of a stream of whole blocks. *)
BlockOf(s, k) == [j \in 1 .. B |-> s[B * (k - 1) + j]]

(* Plain SHA-1 of a message. *)
SHA1(m) ==
  LET s == Padded(m)
      after[k \in 0 .. Len(s) \div B] ==
        IF k = 0 THEN IV ELSE Compress(after[k - 1], BlockOf(s, k))
  IN  Digest(after[Len(s) \div B])
===============================================================================
