------------------------------- MODULE UbcCheck -------------------------------
(***************************************************************************)
(* The unavoidable bit conditions of lib/ubc_check.c, in the two versions  *)
(* the dynamic linker chooses from, and the emptiness test of lib/core.h   *)
(* that follows.  A condition relates two bits of the expanded message; a  *)
(* block that violates it cannot have been built from the vectors of the   *)
(* condition's mask.  A word is a function from bit numbers to BOOLEAN, a  *)
(* mask the set of the bits that are 1.  The sizes are the program's own.  *)
(***************************************************************************)
EXTENDS Integers

CONSTANTS
  n_disturbance_vectors,  \* 32
  N,                 \* countof sha1dc_ubcs
  ubc,               \* sha1dc_ubcs
  as, bs,            \* the same, for the vector version: the bytes that have
  ms, ns,            \* the two bits of a condition, masks for the bits in them,
  cs, dvmasks,       \* the conditions whose bits have to differ, and the masks
  Messages,          \* the expanded messages to check
  UNROLLING_LOOPS    \* a compile-time setting of lib/util.h

WordBits     == 32
WholeMask    == 0 .. 31    \* the bits of a whole_dvmask
EarlyExit    == 64         \* the index the baseline's early return is at
VecUbcs      == 64         \* conditions evaluated at once, bits of a __mmask64
Lanes        == 0 .. 15    \* the dvmasks in a vector, `impossible_dvmasks'
Chunks       == 0 .. 3     \* `accumulation_chunks'
avx512_bias  == 35         \* the first word the vector version loads

DV           == 0 .. n_disturbance_vectors - 1
dvmask_bytes == (n_disturbance_vectors + 7) \div 8
MaskBits     == 0 .. 8 * dvmask_bytes - 1

Word    == [0 .. WordBits - 1 -> BOOLEAN]
Message == [0 .. 79 -> Word]

Ubc == [a : avx512_bias .. avx512_bias + 31, b : avx512_bias .. avx512_bias + 31,
        i : 0 .. WordBits - 1, j : 0 .. WordBits - 1, c : {0, -1},
        dvmask : SUBSET DV]

(* What parse_bitrel guarantees of its table: the words a condition looks  *)
(* at are among those the vector version loads, and a dvmask fits.         *)
ASSUME TableAssumption ==
  /\ N \in Nat \ {0} /\ ubc \in [0 .. N - 1 -> Ubc]
  /\ n_disturbance_vectors \in 1 .. 32
  /\ UNROLLING_LOOPS \in BOOLEAN
  /\ Messages \subseteq Message

(* The vector version's tables give each bit as a byte of the words loaded *)
(* from avx512_bias on, and a bit of that byte.  They are padded with      *)
(* zeros to whole vectors.                                                 *)
Vectors     == (N + VecUbcs - 1) \div VecUbcs
InVectors   == 0 .. VecUbcs * Vectors - 1
ByteOf(word, bit) == 4 * (word - avx512_bias) + (bit \div 8)

ASSUME VectorTableAssumption ==
  /\ \A k \in 0 .. N - 1 :
       LET u == ubc[k] IN
         /\ as[k] = ByteOf(u.a, u.i) /\ ms[k] = {u.i % 8}
         /\ bs[k] = ByteOf(u.b, u.j) /\ ns[k] = {u.j % 8}
         /\ k \in cs <=> u.c = -1
         /\ dvmasks[k] = u.dvmask
  /\ \A k \in InVectors \ 0 .. N - 1 :
       ms[k] = {} /\ ns[k] = {} /\ k \notin cs /\ dvmasks[k] = {}

VARIABLES
  W,          \* the argument
  pc, i, j,
  possible,   \* of the baseline: the vectors not ruled out yet
  impossible, \* of the vector version: by lane, vectors ruled out
  ne,         \* of the vector version: which of 64 conditions fail
  dvmask,     \* the result
  mask,       \* of check_dvmask: how many of its bytes it has looked at
  need_recompress

vars == <<W, pc, i, j, possible, impossible, ne, dvmask, mask, need_recompress>>

-------------------------------------------------------------------------------
(* The bit at number k of x >> s; what is shifted in is 0. *)
ShiftedBit(x, s, k) == k + s < WordBits /\ x[k + s]

Smaller(x, y) == IF x <= y THEN x ELSE y

(* `eq' of the baseline: both words shifted so that the two bits meet. *)
eq_without_c(u) ==
  LET common == Smaller(u.i, u.j) IN
    ShiftedBit(W[u.a], u.i - common, common) =
      ShiftedBit(W[u.b], u.j - common, common)

eq(u) ==
  LET common == Smaller(u.i, u.j)
      lhs    == ShiftedBit(W[u.a], u.i - common, common) #
                  ShiftedBit(W[u.b], u.j - common, common)
  IN  IF u.c = -1 THEN lhs ELSE ~lhs

(* A byte of the memory that the two vectors were loaded from, ANDed. *)
test_v64u8(n, bits) ==
  \E m \in bits : W[avx512_bias + (n \div 4)][8 * (n % 4) + m]

Fails(k) == (test_v64u8(as[k], ms[k]) # test_v64u8(bs[k], ns[k])) # (k \in cs)

(* The lanes ORed in halves, quarters, eighths and sixteenths. *)
nor_rv16u32_vl(x) ==
  LET half  == [l \in 0 .. 7 |-> x[l] \cup x[l + 8]]
      qrter == [l \in 0 .. 3 |-> half[l] \cup half[l + 4]]
      eiths == [l \in 0 .. 3 |-> qrter[l] \cup qrter[(l + 2) % 4]]
  IN  WholeMask \ (eiths[0] \cup eiths[1])

-------------------------------------------------------------------------------
(* ubc_check_baseline: one condition after the other. *)

RuledOut(u) == IF eq(u) THEN {} ELSE u.dvmask

(* Late conditions are not worth testing if they only concern vectors that *)
(* are ruled out already.                                                  *)
Skips_unless_all_left(k) ==
  k > EarlyExit /\ ~(ubc[k].dvmask \subseteq possible)
Skips(k) == k > EarlyExit /\ possible \cap ubc[k].dvmask = {}

Returns(k) == k = EarlyExit /\ possible' = {}

baseline_condition ==
  /\ pc = "baseline" /\ i < N
  /\ possible' = IF Skips(i) THEN possible ELSE possible \ RuledOut(ubc[i])
  /\ IF Returns(i) THEN pc' = "store" /\ UNCHANGED i
                   ELSE i' = i + 1 /\ UNCHANGED pc
  /\ UNCHANGED <<W, j, impossible, ne, dvmask, mask, need_recompress>>

baseline_end ==
  /\ pc = "baseline" /\ i >= N
  /\ pc' = "store"
  /\ UNCHANGED <<W, i, j, possible, impossible, ne, dvmask, mask, need_recompress>>

(* memcpy(dvmask, &possible, dvmask_bytes()) *)
store ==
  /\ pc = "store"
  /\ dvmask' = possible \cap MaskBits
  /\ pc' = "check"
  /\ UNCHANGED <<W, i, j, possible, impossible, ne, mask, need_recompress>>

-------------------------------------------------------------------------------
(* ubc_check_avx512: 64 conditions at once, then their masks 16 at a time. *)

avx512_conditions ==
  /\ pc = "avx512" /\ i < Vectors
  /\ ne' = {k \in 0 .. VecUbcs - 1 : Fails(VecUbcs * i + k)}
  /\ j' = 0 /\ pc' = "accumulate"
  /\ UNCHANGED <<W, i, possible, impossible, dvmask, mask, need_recompress>>

(* The dvmasks of chunk j, in the lanes whose bit of ne is set. *)
Selected == [l \in Lanes |-> IF l \in ne
                             THEN dvmasks[VecUbcs * i + 16 * j + l] ELSE {}]

(* ne >>= impossible_dvmasks *)
ShiftedOut_left(s) == {k + 16 : k \in s}
ShiftedOut(s) == {k - 16 : k \in {m \in s : m >= 16}}

(* Unrolled, the loop skips the table's padding and its first round writes *)
(* `impossible', which has no value yet, instead of adding to it.          *)
ChunksLeft == /\ j \in Chunks
              /\ UNROLLING_LOOPS => VecUbcs * i + 16 * j < N

Loads_in_each_vector == UNROLLING_LOOPS /\ j = 0
Loads == UNROLLING_LOOPS /\ i = 0 /\ j = 0

avx512_accumulate ==
  /\ pc = "accumulate" /\ ChunksLeft
  /\ impossible' = IF Loads THEN Selected
                   ELSE [l \in Lanes |-> impossible[l] \cup Selected[l]]
  /\ ne' = ShiftedOut(ne) /\ j' = j + 1
  /\ UNCHANGED <<W, pc, i, possible, dvmask, mask, need_recompress>>

avx512_next ==
  /\ pc = "accumulate" /\ ~ChunksLeft
  /\ i' = i + 1 /\ pc' = "avx512"
  /\ UNCHANGED <<W, j, possible, impossible, ne, dvmask, mask, need_recompress>>

avx512_end ==
  /\ pc = "avx512" /\ i >= Vectors
  /\ dvmask' = nor_rv16u32_vl(impossible) \cap MaskBits
  /\ pc' = "check"
  /\ UNCHANGED <<W, i, j, possible, impossible, ne, mask, need_recompress>>

-------------------------------------------------------------------------------
(* check_dvmask: whole words of the mask, then the bytes that are left. *)

BytesSet_looks_at_one(from, to) == \E d \in dvmask : d \in 8 * from .. 8 * from + 7
BytesSet(from, to) == \E d \in dvmask : d \in 8 * from .. 8 * to - 1

check_word ==
  /\ pc = "check" /\ dvmask_bytes - mask >= 4
  /\ IF BytesSet(mask, mask + 4)
     THEN need_recompress' = TRUE /\ pc' = "done" /\ UNCHANGED mask
     ELSE mask' = mask + 4 /\ UNCHANGED <<pc, need_recompress>>
  /\ UNCHANGED <<W, i, j, possible, impossible, ne, dvmask>>

check_tail ==
  /\ pc = "check" /\ dvmask_bytes - mask < 4
  /\ need_recompress' = BytesSet(mask, dvmask_bytes)
  /\ pc' = "done"
  /\ UNCHANGED <<W, i, j, possible, impossible, ne, dvmask, mask>>

-------------------------------------------------------------------------------
(* The version is the one that the processor supports. *)
pick_ubc_check_impl == {"baseline", "avx512"}

Init ==
  /\ W \in Messages
  /\ pc \in pick_ubc_check_impl
  /\ i = 0 /\ j = 0 /\ possible = WholeMask /\ ne = {} /\ dvmask = {}
  /\ impossible \in IF UNROLLING_LOOPS /\ pc = "avx512"
                    THEN {[l \in Lanes |-> x] : x \in {{}, DV}}
                    ELSE {[l \in Lanes |-> {}]}
  /\ mask = 0 /\ need_recompress = FALSE

Next ==
  \/ baseline_condition \/ baseline_end \/ store
  \/ avx512_conditions \/ avx512_accumulate \/ avx512_next \/ avx512_end
  \/ check_word \/ check_tail

Spec == Init /\ [][Next]_vars

-------------------------------------------------------------------------------
(* Properties. *)

(***************************************************************************)
(* Type correctness.                                                       *)
(***************************************************************************)
TypeOK ==
  /\ W \in Message
  /\ pc \in {"baseline", "store", "avx512", "accumulate", "check", "done"}
  /\ i \in Nat /\ j \in 0 .. 4
  /\ possible \subseteq WholeMask
  /\ impossible \in [Lanes -> SUBSET DV]
  /\ ne \subseteq 0 .. VecUbcs - 1
  /\ dvmask \subseteq MaskBits
  /\ mask \in 0 .. dvmask_bytes /\ need_recompress \in BOOLEAN

(* Condition k does not hold of the message: c says whether its two bits   *)
(* have to differ.                                                         *)
Violated(k) ==
  LET u == ubc[k] IN (W[u.a][u.i] # W[u.b][u.j]) # (u.c = -1)

(* What the first n conditions leave of the vectors. *)
Left(n) == {d \in DV : \A k \in 0 .. N - 1 :
                        k < n /\ d \in ubc[k].dvmask => ~Violated(k)}

(***************************************************************************)
(* Whichever version runs, with its early return, its skipped conditions,  *)
(* its lanes and its unrolled first round, the mask has a vector's bit if  *)
(* and only if the block meets all the conditions of the vector.           *)
(***************************************************************************)
MaskIsWhatConditionsLeave ==
  pc \in {"check", "done"} => dvmask \cap DV = Left(N)

(***************************************************************************)
(* The search for a twin block goes on if any vector is left, whatever     *)
(* their number; if none is, it is skipped, but only if the mask has no    *)
(* bits to spare: those stay set, so that neither the early return nor     *)
(* check_dvmask ever finds the mask empty.                                 *)
(***************************************************************************)
SearchIffVectorsLeft ==
  pc = "done" =>
    need_recompress = (Left(N) # {} \/ n_disturbance_vectors % 8 # 0)

(* The ones that fail among the n conditions from s on, numbered from 0. *)
Failing(s, n) == {m \in 0 .. 63 : m < n /\ s + m < N /\ Violated(s + m)}

(* What `impossible' stands for, all lanes taken together. *)
Possible == {d \in DV : \A l \in Lanes : d \notin impossible[l]}

(***************************************************************************)
(* Nothing is ruled out on the way that should not have been, and at the   *)
(* point where a version has dealt with n conditions all n have counted.   *)
(***************************************************************************)
Progress ==
  /\ pc = "baseline" => possible \cap DV = Left(i)
  /\ pc = "store"    => possible \cap DV = Left(N)
  /\ pc = "avx512" /\ (UNROLLING_LOOPS => i > 0) => Possible = Left(64 * i)
  /\ pc = "accumulate" =>
       /\ ~Loads => Possible = Left(64 * i + 16 * j)
       /\ ne = Failing(64 * i + 16 * j, 64 - 16 * j)
===============================================================================
