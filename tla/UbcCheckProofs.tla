---------------------------- MODULE UbcCheckProofs ----------------------------
(***************************************************************************)
(* Both versions of the check compute the same mask, the vectors whose     *)
(* conditions all hold, for every table that satisfies TableAssumption and *)
(* every message, not only for the tables that TLC was given.              *)
(***************************************************************************)
EXTENDS UbcCheck, TLAPS

-------------------------------------------------------------------------------
(* A condition's two bits. *)

(***************************************************************************)
(* Bit k of x >> s is bit k + s of x.                                      *)
(***************************************************************************)
LEMMA ShiftedBitIs ==
  ASSUME NEW x \in Word, NEW b \in 0 .. 31, NEW k \in 0 .. b
  PROVE  ShiftedBit(x, b - k, k) = x[b]
<1>1. k + (b - k) = b  OBVIOUS
<1>2. b < WordBits  BY DEF WordBits
<1>3. x[b] \in BOOLEAN  BY DEF Word, WordBits
<1>4. QED  BY <1>1, <1>2, <1>3, Zenon DEF ShiftedBit

(***************************************************************************)
(* The baseline's shifts make the two bits of a condition meet.            *)
(***************************************************************************)
LEMMA BaselineTest ==
  ASSUME W \in Message, NEW u \in Ubc
  PROVE  eq(u) <=> ~((W[u.a][u.i] # W[u.b][u.j]) # (u.c = -1))
<1> DEFINE common == Smaller(u.i, u.j)
           x == ShiftedBit(W[u.a], u.i - common, common)
           y == ShiftedBit(W[u.b], u.j - common, common)
<1>1. /\ u.a \in 0 .. 79 /\ u.b \in 0 .. 79
      /\ u.i \in 0 .. 31 /\ u.j \in 0 .. 31
  BY DEF Ubc, WordBits, avx512_bias
<1>2. common \in 0 .. u.i /\ common \in 0 .. u.j
  BY <1>1 DEF Smaller
<1>3. W[u.a] \in Word /\ W[u.b] \in Word
  BY <1>1 DEF Message
<1>4. x = W[u.a][u.i] /\ y = W[u.b][u.j]
  BY <1>1, <1>2, <1>3, ShiftedBitIs
<1>5. eq(u) = (IF u.c = -1 THEN x # y ELSE ~(x # y))
  BY DEF eq
<1> HIDE DEF x, y
<1>6. QED  BY <1>4, <1>5, Zenon

(***************************************************************************)
(* So do the byte numbers and the bit masks of the vector version.         *)
(***************************************************************************)
LEMMA VectorTest ==
  ASSUME W \in Message,
         NEW word \in avx512_bias .. avx512_bias + 31, NEW bit \in 0 .. 31
  PROVE  test_v64u8(ByteOf(word, bit), {bit % 8}) = W[word][bit]
<1> DEFINE n == ByteOf(word, bit)
<1>1. n = 4 * (word - 35) + (bit \div 8)  BY DEF ByteOf, avx512_bias
<1>2. bit \div 8 \in 0 .. 3 /\ word - 35 \in Nat  BY DEF avx512_bias
<1>3. n \div 4 = word - 35 /\ n % 4 = bit \div 8  BY <1>1, <1>2
<1>4. avx512_bias + (n \div 4) = word  BY <1>3 DEF avx512_bias
<1>5. 8 * (n % 4) + (bit % 8) = bit  BY <1>3
<1> HIDE DEF n
<1>6. test_v64u8(n, {bit % 8}) = W[word][bit]
  <2>1. W[word][bit] \in BOOLEAN
    BY DEF Message, Word, avx512_bias, WordBits
  <2>2. QED  BY <1>4, <1>5, <2>1, Zenon DEF test_v64u8
<1>7. QED  BY <1>6 DEF n

LEMMA VectorFails ==
  ASSUME W \in Message, NEW k \in 0 .. N - 1
  PROVE  Fails(k) = Violated(k)
<1> DEFINE u == ubc[k]
<1>1. /\ u.a \in avx512_bias .. avx512_bias + 31
      /\ u.b \in avx512_bias .. avx512_bias + 31
      /\ u.i \in 0 .. 31 /\ u.j \in 0 .. 31
  BY TableAssumption DEF Ubc, WordBits
<1>2. /\ as[k] = ByteOf(u.a, u.i) /\ ms[k] = {u.i % 8}
      /\ bs[k] = ByteOf(u.b, u.j) /\ ns[k] = {u.j % 8}
      /\ k \in cs <=> u.c = -1
  BY VectorTableAssumption
<1> HIDE DEF u
<1>3. /\ test_v64u8(as[k], ms[k]) = W[u.a][u.i]
      /\ test_v64u8(bs[k], ns[k]) = W[u.b][u.j]
  <2>1. test_v64u8(ByteOf(u.a, u.i), {u.i % 8}) = W[u.a][u.i]
    BY <1>1, VectorTest
  <2>2. test_v64u8(ByteOf(u.b, u.j), {u.j % 8}) = W[u.b][u.j]
    BY <1>1, VectorTest
  <2>3. QED  BY <1>2, <2>1, <2>2, Zenon
<1>4. (k \in cs) = (u.c = -1)
  BY <1>2
<1>5. Fails(k) = ((W[u.a][u.i] # W[u.b][u.j]) # (u.c = -1))
  BY <1>3, <1>4, Zenon DEF Fails
<1>6. QED  BY <1>5, Zenon DEF Violated, u

(***************************************************************************)
(* The padding of the vector tables never fails.                           *)
(***************************************************************************)
LEMMA PaddingHolds ==
  ASSUME NEW k \in InVectors, ~(k < N)
  PROVE  ~Fails(k) /\ dvmasks[k] = {}
<1>1. k \notin 0 .. N - 1
  BY TableAssumption
<1>2. ms[k] = {} /\ ns[k] = {} /\ k \notin cs /\ dvmasks[k] = {}
  BY <1>1, VectorTableAssumption
<1>3. test_v64u8(as[k], ms[k]) = FALSE /\ test_v64u8(bs[k], ns[k]) = FALSE
  BY <1>2, Zenon DEF test_v64u8
<1>4. Fails(k) = ((FALSE # FALSE) # (k \in cs))
  BY <1>3, Zenon DEF Fails
<1>5. (k \in cs) = FALSE
  BY <1>2
<1>6. Fails(k) = FALSE
  BY <1>4, <1>5, Zenon
<1>7. QED  BY <1>2, <1>6

-------------------------------------------------------------------------------
(* The lanes of the vector version. *)

(***************************************************************************)
(* The reduction in halves leaves a vector if no lane has ruled it out.    *)
(***************************************************************************)
LEMMA ReductionIsNor ==
  ASSUME NEW x \in [Lanes -> SUBSET DV], NEW d \in WholeMask
  PROVE  d \in nor_rv16u32_vl(x) <=> \A l \in Lanes : d \notin x[l]
<1> DEFINE half  == [l \in 0 .. 7 |-> x[l] \cup x[l + 8]]
           qrter == [l \in 0 .. 3 |-> half[l] \cup half[l + 4]]
           eiths == [l \in 0 .. 3 |-> qrter[l] \cup qrter[(l + 2) % 4]]
<1>1. \A l \in 0 .. 7 : half[l] = x[l] \cup x[l + 8]  OBVIOUS
<1>2. \A l \in 0 .. 3 : qrter[l] = half[l] \cup half[l + 4]  OBVIOUS
<1>3. \A l \in 0 .. 3 : eiths[l] = qrter[l] \cup qrter[(l + 2) % 4]  OBVIOUS
<1>4. nor_rv16u32_vl(x) = WholeMask \ (eiths[0] \cup eiths[1])
  BY Zenon DEF nor_rv16u32_vl
<1> HIDE DEF half, qrter, eiths
<1>5. eiths[0] = qrter[0] \cup qrter[2] /\ eiths[1] = qrter[1] \cup qrter[3]
  <2>1. (0 + 2) % 4 = 2 /\ (1 + 2) % 4 = 3  OBVIOUS
  <2>2. QED  BY <2>1, <1>3
<1>6. /\ qrter[0] = half[0] \cup half[4] /\ qrter[1] = half[1] \cup half[5]
      /\ qrter[2] = half[2] \cup half[6] /\ qrter[3] = half[3] \cup half[7]
  BY <1>2
<1>7. /\ half[0] = x[0] \cup x[8]  /\ half[1] = x[1] \cup x[9]
      /\ half[2] = x[2] \cup x[10] /\ half[3] = x[3] \cup x[11]
      /\ half[4] = x[4] \cup x[12] /\ half[5] = x[5] \cup x[13]
      /\ half[6] = x[6] \cup x[14] /\ half[7] = x[7] \cup x[15]
  BY <1>1
<1>8. d \in nor_rv16u32_vl(x) <=>
        /\ d \notin x[0]  /\ d \notin x[1]  /\ d \notin x[2]  /\ d \notin x[3]
        /\ d \notin x[4]  /\ d \notin x[5]  /\ d \notin x[6]  /\ d \notin x[7]
        /\ d \notin x[8]  /\ d \notin x[9]  /\ d \notin x[10] /\ d \notin x[11]
        /\ d \notin x[12] /\ d \notin x[13] /\ d \notin x[14] /\ d \notin x[15]
  BY <1>4, <1>5, <1>6, <1>7
<1>9. Lanes = {0, 1, 2, 3, 4, 5, 6, 7, 8, 9, 10, 11, 12, 13, 14, 15}
  BY DEF Lanes
<1>10. QED  BY <1>8, <1>9

-------------------------------------------------------------------------------
(* Counting conditions. *)

LEMMA Sizes ==
  /\ N \in Nat \ {0} /\ n_disturbance_vectors \in 1 .. 32
  /\ dvmask_bytes \in 1 .. 4
  /\ n_disturbance_vectors <= 8 * dvmask_bytes
  /\ n_disturbance_vectors % 8 = 0 => n_disturbance_vectors = 8 * dvmask_bytes
  /\ Vectors \in Nat \ {0}
  /\ \A v \in Nat : v < Vectors <=> 64 * v < N
  /\ DV \subseteq MaskBits /\ DV \subseteq WholeMask
<1>1. N \in Nat \ {0} /\ n_disturbance_vectors \in 1 .. 32
  BY TableAssumption
<1>2. /\ dvmask_bytes \in 1 .. 4
      /\ n_disturbance_vectors <= 8 * dvmask_bytes
      /\ n_disturbance_vectors % 8 = 0 => n_disturbance_vectors = 8 * dvmask_bytes
  BY <1>1 DEF dvmask_bytes
<1>3. /\ Vectors \in Nat \ {0}
      /\ \A v \in Nat : v < Vectors <=> 64 * v < N
  BY <1>1 DEF Vectors, VecUbcs
<1>4. DV \subseteq MaskBits /\ DV \subseteq WholeMask
  BY <1>1, <1>2 DEF DV, MaskBits, WholeMask
<1>5. QED  BY <1>1, <1>2, <1>3, <1>4

LEMMA Conditions ==
  ASSUME NEW k \in 0 .. N - 1
  PROVE  ubc[k] \in Ubc /\ ubc[k].dvmask \subseteq DV
<1>1. ubc[k] \in Ubc  BY TableAssumption
<1>2. QED  BY <1>1 DEF Ubc

LEMMA LeftStep ==
  ASSUME NEW k \in 0 .. N - 1
  PROVE  \A d : d \in Left(k + 1) <=>
           d \in Left(k) /\ (d \in ubc[k].dvmask => ~Violated(k))
<1>1. \A m \in 0 .. N - 1 : m < k + 1 <=> m < k \/ m = k
  BY Sizes
<1>2. QED  BY <1>1 DEF Left

LEMMA LeftAll ==
  ASSUME NEW n \in Nat
  PROVE  /\ Left(N) \subseteq Left(n)
         /\ n >= N => Left(n) = Left(N)
<1>1. \A k \in 0 .. N - 1 : k < N /\ (n >= N => k < n)
  BY Sizes
<1>2. QED  BY <1>1 DEF Left

(***************************************************************************)
(* What a round of the baseline leaves: the vectors of the condition, if   *)
(* it fails, are gone, and if the round was skipped they had been before.  *)
(***************************************************************************)
LEMMA BaselineRound ==
  ASSUME W \in Message, NEW k \in 0 .. N - 1, possible \cap DV = Left(k)
  PROVE  (IF Skips(k) THEN possible ELSE possible \ RuledOut(ubc[k])) \cap DV
           = Left(k + 1)
<1>1. eq(ubc[k]) <=> ~Violated(k)
  BY Conditions, BaselineTest DEF Violated
<1>2. CASE Skips(k)
  <2>1. \A d \in Left(k) : d \notin ubc[k].dvmask
    BY <1>2 DEF Skips
  <2>2. QED  BY <1>2, <2>1, LeftStep
<1>3. CASE ~Skips(k)
  <2>1. CASE Violated(k)
    <3>1. RuledOut(ubc[k]) = ubc[k].dvmask  BY <1>1, <2>1 DEF RuledOut
    <3>2. QED  BY <1>3, <2>1, <3>1, LeftStep
  <2>2. CASE ~Violated(k)
    <3>1. RuledOut(ubc[k]) = {}  BY <1>1, <2>2 DEF RuledOut
    <3>2. QED  BY <1>3, <2>2, <3>1, LeftStep
  <2>3. QED  BY <2>1, <2>2
<1>4. QED  BY <1>2, <1>3

(***************************************************************************)
(* What a chunk of 16 conditions leaves: each lane selects one of them.    *)
(***************************************************************************)
Lane(s, l) == s + l

LEMMA ChunkRound ==
  ASSUME NEW s \in Nat, NEW X, NEW Y,
         \A d : d \in X <=> d \in Left(s),
         \A d : d \in Y <=>
           /\ d \in X
           /\ \A l \in Lanes : Lane(s, l) < N /\ Violated(Lane(s, l))
                               => d \notin ubc[Lane(s, l)].dvmask
  PROVE  \A d : d \in Y <=> d \in Left(s + 16)
<1>1. \A k \in 0 .. N - 1 : k < s + 16 <=> k < s \/ \E l \in Lanes : k = Lane(s, l)
  <2> SUFFICES ASSUME NEW k \in 0 .. N - 1
               PROVE  k < s + 16 <=> k < s \/ \E l \in Lanes : k = Lane(s, l)
    OBVIOUS
  <2>1. k \in Nat  BY Sizes
  <2>2. ASSUME k < s + 16, ~(k < s)  PROVE  k - s \in Lanes /\ k = Lane(s, k - s)
    BY <2>1, <2>2 DEF Lanes, Lane
  <2>3. ASSUME NEW l \in Lanes, k = Lane(s, l)  PROVE  k < s + 16
    BY <2>1, <2>3 DEF Lanes, Lane
  <2>4. k < s => k < s + 16  BY <2>1
  <2>5. QED  BY <2>2, <2>3, <2>4
<1>2. \A l \in Lanes : Lane(s, l) \in Nat
  BY DEF Lanes, Lane
<1>3. \A l \in Lanes : Lane(s, l) < N => Lane(s, l) \in 0 .. N - 1
  BY <1>2, Sizes
<1>4. ASSUME NEW d \in Y  PROVE  d \in Left(s + 16)
  <2>1. d \in DV /\ \A k \in 0 .. N - 1 :
                     k < s /\ d \in ubc[k].dvmask => ~Violated(k)
    BY <1>4 DEF Left
  <2>2. ASSUME NEW k \in 0 .. N - 1, NEW l \in Lanes, k = Lane(s, l),
               d \in ubc[k].dvmask
        PROVE  ~Violated(k)
    <3>1. k < N  BY Sizes
    <3>2. QED  BY <1>4, <2>2, <3>1, Zenon
  <2>3. QED  BY <1>1, <2>1, <2>2 DEF Left
<1>5. ASSUME NEW d \in Left(s + 16)  PROVE  d \in Y
  <2>1. d \in DV /\ \A k \in 0 .. N - 1 :
                     k < s + 16 /\ d \in ubc[k].dvmask => ~Violated(k)
    BY DEF Left
  <2>2. d \in Left(s)
    BY <1>1, <2>1 DEF Left
  <2>3. ASSUME NEW l \in Lanes, Lane(s, l) < N, Violated(Lane(s, l))
        PROVE  d \notin ubc[Lane(s, l)].dvmask
    <3>1. Lane(s, l) \in 0 .. N - 1 /\ Lane(s, l) < s + 16
      BY <1>1, <1>3, <2>3
    <3>2. QED  BY <2>1, <2>3, <3>1
  <2>4. QED  BY <2>2, <2>3
<1>6. QED  BY <1>4, <1>5

-------------------------------------------------------------------------------
(* The inductive invariant. *)

(* Where the counters are, and which bytes check_dvmask has found empty. *)
Bounds ==
  /\ pc = "accumulate" => 64 * i < N
  /\ pc \notin {"check", "done"} => mask = 0
  /\ pc = "check" => \A d \in dvmask : d >= 8 * mask
  /\ pc = "done" => need_recompress = (dvmask # {})

UbcInv == TypeOK /\ Bounds /\ Progress /\ MaskIsWhatConditionsLeave

LEMMA InitEstablishes == Init => UbcInv
<1> SUFFICES ASSUME Init PROVE UbcInv  OBVIOUS
<1> USE Sizes
<1>1. W \in Message  BY TableAssumption DEF Init
<1>2. impossible \in [Lanes -> SUBSET DV]
  <2>1. CASE UNROLLING_LOOPS /\ pc = "avx512"  BY <2>1 DEF Init
  <2>2. CASE ~(UNROLLING_LOOPS /\ pc = "avx512")  BY <2>2 DEF Init
  <2>3. QED  BY <2>1, <2>2
<1>3. TypeOK
  <2>1. i \in Nat /\ j \in 0 .. 4 /\ mask \in 0 .. dvmask_bytes
    BY DEF Init
  <2>2. pc \in {"baseline", "avx512"} /\ need_recompress \in BOOLEAN
    BY Zenon DEF Init, pick_ubc_check_impl
  <2>3. possible \subseteq WholeMask /\ ne = {} /\ dvmask = {}
    BY Zenon DEF Init
  <2>4. QED  BY <1>1, <1>2, <2>1, <2>2, <2>3 DEF TypeOK
<1>4. Left(0) = DV
  <2>1. \A k \in 0 .. N - 1 : ~(k < 0)  OBVIOUS
  <2>2. QED  BY <2>1 DEF Left
<1>5. pc = "baseline" => possible \cap DV = Left(i)
  BY <1>4 DEF Init
<1>6. pc = "avx512" /\ (UNROLLING_LOOPS => i > 0) => Possible = Left(64 * i)
  <2> SUFFICES ASSUME ~UNROLLING_LOOPS  PROVE Possible = Left(64 * i)
    BY DEF Init
  <2>1. \A l \in Lanes : impossible[l] = {}  BY DEF Init
  <2>2. Possible = DV  BY <2>1 DEF Possible
  <2>3. 64 * i = 0  BY DEF Init
  <2>4. QED  BY <1>4, <2>2, <2>3
<1>7. pc \in {"baseline", "avx512"}  BY DEF Init, pick_ubc_check_impl
<1>8. Progress  BY <1>5, <1>6, <1>7 DEF Progress
<1>9. mask = 0  BY DEF Init
<1>10. QED  BY <1>3, <1>7, <1>8, <1>9 DEF UbcInv, Bounds, MaskIsWhatConditionsLeave

LEMMA BaselineConditionPreserves == UbcInv /\ baseline_condition => UbcInv'
<1> SUFFICES ASSUME UbcInv, baseline_condition  PROVE UbcInv'  OBVIOUS
<1>1. /\ pc = "baseline" /\ i \in 0 .. N - 1 /\ W' = W
      /\ possible' = IF Skips(i) THEN possible ELSE possible \ RuledOut(ubc[i])
      /\ W \in Message /\ possible \subseteq WholeMask
      /\ possible \cap DV = Left(i)
  BY Sizes DEF UbcInv, TypeOK, Progress, baseline_condition
<1>2. possible' \cap DV = Left(i + 1)
  BY <1>1, BaselineRound
<1>3. possible' \subseteq WholeMask  BY <1>1
<1>4. TypeOK' /\ mask' = 0
  BY <1>1, <1>3 DEF UbcInv, TypeOK, Bounds, baseline_condition
<1>5. CASE Returns(i)
  <2>1. pc' = "store" /\ possible' = {}
    BY <1>5 DEF baseline_condition, Returns
  <2>2. Left(N) = {}
    <3>1. Left(N) \subseteq Left(i + 1)  BY <1>1, LeftAll
    <3>2. QED  BY <3>1, <1>2, <2>1
  <2>3. Left(N)' = Left(N)  BY <1>1 DEF Left, Violated
  <2>4. Progress'  BY <2>1, <2>2, <2>3 DEF Progress
  <2>5. QED  BY <1>4, <2>1, <2>4 DEF UbcInv, Bounds, MaskIsWhatConditionsLeave
<1>6. CASE ~Returns(i)
  <2>1. pc' = "baseline" /\ i' = i + 1
    BY <1>1, <1>6 DEF baseline_condition
  <2>2. Left(i)' = Left(i + 1)  BY <1>1, <2>1 DEF Left, Violated
  <2>3. Progress'  BY <2>1, <2>2, <1>2 DEF Progress
  <2>4. QED  BY <1>4, <2>1, <2>3 DEF UbcInv, Bounds, MaskIsWhatConditionsLeave
<1>7. QED  BY <1>5, <1>6

LEMMA BaselineEndPreserves == UbcInv /\ baseline_end => UbcInv'
<1> SUFFICES ASSUME UbcInv, baseline_end  PROVE UbcInv'  OBVIOUS
<1>1. /\ pc = "baseline" /\ i \in Nat /\ i >= N /\ W' = W /\ pc' = "store"
      /\ possible' = possible /\ possible \cap DV = Left(i)
  BY DEF UbcInv, TypeOK, Progress, baseline_end
<1>2. Left(i) = Left(N)  BY <1>1, LeftAll
<1>3. Left(N)' = Left(N)  BY <1>1 DEF Left, Violated
<1>4. TypeOK' /\ mask' = 0  BY DEF UbcInv, TypeOK, Bounds, baseline_end
<1>5. Progress'  BY <1>1, <1>2, <1>3 DEF Progress
<1>6. QED  BY <1>1, <1>4, <1>5 DEF UbcInv, Bounds, MaskIsWhatConditionsLeave

LEMMA StorePreserves == UbcInv /\ store => UbcInv'
<1> SUFFICES ASSUME UbcInv, store  PROVE UbcInv'  OBVIOUS
<1>1. /\ pc = "store" /\ W' = W /\ pc' = "check" /\ mask' = mask
      /\ dvmask' = possible \cap MaskBits /\ possible \cap DV = Left(N)
  BY DEF UbcInv, Progress, store
<1>2. dvmask' \cap DV = Left(N)  BY <1>1, Sizes
<1>3. Left(N)' = Left(N)  BY <1>1 DEF Left, Violated
<1>4. TypeOK'  BY <1>1 DEF UbcInv, TypeOK, store
<1>5. mask' = 0 /\ \A d \in dvmask' : d >= 8 * mask'
  BY <1>1 DEF UbcInv, Bounds, MaskBits
<1>6. Progress' /\ MaskIsWhatConditionsLeave'
  BY <1>1, <1>2, <1>3 DEF Progress, MaskIsWhatConditionsLeave
<1>7. QED  BY <1>1, <1>4, <1>5, <1>6 DEF UbcInv, Bounds

LEMMA ConditionsPreserve == UbcInv /\ avx512_conditions => UbcInv'
<1> SUFFICES ASSUME UbcInv, avx512_conditions  PROVE UbcInv'  OBVIOUS
<1>1. /\ pc = "avx512" /\ i \in Nat /\ 64 * i < N /\ W \in Message
      /\ pc' = "accumulate" /\ W' = W /\ i' = i /\ j' = 0
      /\ impossible' = impossible
      /\ (UNROLLING_LOOPS => i > 0) => Possible = Left(64 * i)
  BY Sizes DEF UbcInv, TypeOK, Progress, avx512_conditions
<1>2. ne' = Failing(64 * i, 64)
  <2>1. \A m \in 0 .. 63 : /\ 64 * i + m \in InVectors
                           /\ 64 * i + m < N => 64 * i + m \in 0 .. N - 1
    BY <1>1, Sizes DEF InVectors, VecUbcs
  <2>2. \A m \in 0 .. 63 :
          Fails(64 * i + m) <=> 64 * i + m < N /\ Violated(64 * i + m)
    BY <1>1, <2>1, VectorFails, PaddingHolds, Zenon
  <2>3. ne' = {m \in 0 .. 63 : Fails(64 * i + m)}
    BY DEF avx512_conditions, VecUbcs
  <2>4. \A m \in 0 .. 63 : m < 64
    OBVIOUS
  <2>5. QED  BY <2>2, <2>3, <2>4 DEF Failing
<1>3. 64 * i' + 16 * j' = 64 * i /\ 64 - 16 * j' = 64
  BY <1>1
<1>4. ne' = Failing(64 * i + 16 * j, 64 - 16 * j)'
  BY <1>1, <1>2, <1>3 DEF Failing, Violated
<1>5. ~Loads' => (64 * i' + 16 * j' = 64 * i /\ Possible' = Left(64 * i)')
  <2> SUFFICES ASSUME ~Loads' PROVE Possible' = Left(64 * i)'
    BY <1>3
  <2>1. UNROLLING_LOOPS => i > 0  BY <1>1 DEF Loads
  <2>2. Possible = Left(64 * i)  BY <1>1, <2>1
  <2>3. Possible' = Possible  BY <1>1 DEF Possible
  <2>4. Left(64 * i)' = Left(64 * i)  BY <1>1 DEF Left, Violated
  <2>5. QED  BY <2>2, <2>3, <2>4
<1>6. Progress'
  <2>1. 64 * i' + 16 * j' = 64 * i'  BY <1>1
  <2>2. Left(64 * i + 16 * j)' = Left(64 * i)'  BY <2>1, Zenon DEF Left
  <2>3. ~Loads' => Possible' = Left(64 * i + 16 * j)'
    BY <1>5, <2>2, Zenon
  <2>4. QED  BY <1>1, <1>4, <2>3 DEF Progress
<1>7. TypeOK' /\ mask' = 0
  <2>1. ne' \subseteq 0 .. VecUbcs - 1  BY <1>2 DEF Failing, VecUbcs
  <2>2. j' \in 0 .. 4  BY <1>1
  <2>3. QED
    BY <1>1, <2>1, <2>2 DEF UbcInv, TypeOK, Bounds, avx512_conditions
<1>8. 64 * i' < N  BY <1>1
<1>9. QED
  BY <1>1, <1>6, <1>7, <1>8 DEF UbcInv, Bounds, MaskIsWhatConditionsLeave

(***************************************************************************)
(* A lane selects the mask of its condition if that condition fails.       *)
(***************************************************************************)
LEMMA SelectedIs ==
  ASSUME i \in Nat, j \in 0 .. 3, ne = Failing(64 * i + 16 * j, 64 - 16 * j),
         NEW l \in Lanes
  PROVE  /\ Selected[l] \subseteq DV
         /\ \A d : d \in Selected[l] <=>
              LET k == Lane(64 * i + 16 * j, l) IN
                k < N /\ Violated(k) /\ d \in ubc[k].dvmask
<1> DEFINE s == 64 * i + 16 * j
<1>1. s \in Nat /\ l \in 0 .. 63 /\ l < 64 - 16 * j  BY DEF Lanes
<1>2. Lane(s, l) = s + l  BY DEF Lane
<1> HIDE DEF s
<1>3. l \in ne <=> Lane(s, l) < N /\ Violated(Lane(s, l))
  BY <1>1, <1>2 DEF Failing, s
<1>4. Selected[l] = IF l \in ne THEN dvmasks[Lane(s, l)] ELSE {}
  BY <1>2 DEF Selected, s, VecUbcs
<1>5. ASSUME Lane(s, l) < N
      PROVE  /\ dvmasks[Lane(s, l)] = ubc[Lane(s, l)].dvmask
             /\ ubc[Lane(s, l)].dvmask \subseteq DV
  <2>1. Lane(s, l) \in 0 .. N - 1  BY <1>1, <1>2, <1>5, Sizes
  <2>2. QED  BY <2>1, Conditions, VectorTableAssumption
<1>6. /\ Selected[l] \subseteq DV
      /\ \A d : d \in Selected[l] <=>
           Lane(s, l) < N /\ Violated(Lane(s, l)) /\ d \in ubc[Lane(s, l)].dvmask
  <2>1. CASE l \in ne  BY <2>1, <1>3, <1>4, <1>5
  <2>2. CASE l \notin ne  BY <2>2, <1>3, <1>4
  <2>3. QED  BY <2>1, <2>2
<1>7. QED  BY <1>6 DEF s

LEMMA AccumulatePreserves == UbcInv /\ avx512_accumulate => UbcInv'
<1> SUFFICES ASSUME UbcInv, avx512_accumulate  PROVE UbcInv'  OBVIOUS
<1> DEFINE s == 64 * i + 16 * j
<1>1. /\ pc = "accumulate" /\ pc' = "accumulate" /\ W' = W
      /\ i \in Nat /\ i' = i /\ j \in 0 .. 3 /\ j' = j + 1
      /\ ne = Failing(s, 64 - 16 * j) /\ ne' = ShiftedOut(ne)
      /\ impossible \in [Lanes -> SUBSET DV] /\ 64 * i < N /\ mask' = 0
      /\ ~Loads => Possible = Left(s)
  BY DEF UbcInv, TypeOK, Bounds, Progress, avx512_accumulate, ChunksLeft, Chunks
<1>2. s \in Nat  BY <1>1
<1>3. \A l \in Lanes :
        /\ Selected[l] \subseteq DV
        /\ \A d : d \in Selected[l] <=>
             Lane(s, l) < N /\ Violated(Lane(s, l)) /\ d \in ubc[Lane(s, l)].dvmask
  BY <1>1, SelectedIs
<1>4. /\ impossible' \in [Lanes -> SUBSET DV]
      /\ \A l \in Lanes : impossible'[l] =
           IF Loads THEN Selected[l] ELSE impossible[l] \cup Selected[l]
  <2>1. CASE Loads
    <3>1. impossible' = Selected  BY <2>1 DEF avx512_accumulate
    <3>2. Selected \in [Lanes -> SUBSET DV]  BY <1>3 DEF Selected
    <3>3. QED  BY <2>1, <3>1, <3>2
  <2>2. CASE ~Loads
    <3>1. impossible' = [l \in Lanes |-> impossible[l] \cup Selected[l]]
      BY <2>2 DEF avx512_accumulate
    <3>2. \A l \in Lanes : impossible[l] \cup Selected[l] \in SUBSET DV
      BY <1>1, <1>3
    <3>3. QED  BY <2>2, <3>1, <3>2
  <2>3. QED  BY <2>1, <2>2
<1>5. \A d : d \in Possible' <=>
        /\ d \in Left(s)
        /\ \A l \in Lanes : Lane(s, l) < N /\ Violated(Lane(s, l))
                            => d \notin ubc[Lane(s, l)].dvmask
  <2>1. \A d : d \in Possible' <=> d \in DV /\ \A l \in Lanes : d \notin impossible'[l]
    BY DEF Possible
  <2>2. CASE Loads
    <3>1. s = 0  BY <2>2 DEF Loads
    <3>2. Left(s) = DV
      <4>1. \A k \in 0 .. N - 1 : ~(k < 0)  OBVIOUS
      <4>2. QED  BY <3>1, <4>1 DEF Left
    <3> HIDE DEF s
    <3>3. QED  BY <2>1, <2>2, <3>2, <1>3, <1>4
  <2>3. CASE ~Loads
    <3>1. \A d : d \in Left(s) <=> d \in DV /\ \A l \in Lanes : d \notin impossible[l]
      BY <1>1, <2>3 DEF Possible
    <3> HIDE DEF s
    <3>2. QED  BY <2>1, <2>3, <3>1, <1>3, <1>4
  <2>4. QED  BY <2>2, <2>3
<1>6. \A d : d \in Possible' <=> d \in Left(s + 16)
  <2> HIDE DEF s
  <2>1. QED  BY <1>2, <1>5, ChunkRound
<1>7. Possible' = Left(s + 16)
  <2>1. Possible' \subseteq DV /\ Left(s + 16) \subseteq DV  BY DEF Possible, Left
  <2> HIDE DEF s
  <2>2. QED  BY <1>6
<1>8. ne' = Failing(s + 16, 48 - 16 * j)
  <2>1. ne' = {k - 16 : k \in {m \in ne : m >= 16}}  BY <1>1 DEF ShiftedOut
  <2>2. ne = {m \in 0 .. 63 : m < 64 - 16 * j /\ s + m < N /\ Violated(s + m)}
    BY <1>1 DEF Failing
  <2> HIDE DEF s
  <2>3. ASSUME NEW m \in ne, m >= 16  PROVE m - 16 \in Failing(s + 16, 48 - 16 * j)
    <3>1. /\ m - 16 \in 0 .. 63 /\ m - 16 < 48 - 16 * j
          /\ s + 16 + (m - 16) = s + m /\ s + m < N /\ Violated(s + m)
      BY <1>1, <1>2, <2>2, <2>3
    <3>2. QED  BY <3>1 DEF Failing
  <2>4. ASSUME NEW m \in Failing(s + 16, 48 - 16 * j)
        PROVE  m + 16 \in ne /\ m + 16 >= 16 /\ m = (m + 16) - 16
    <3>1. /\ m \in 0 .. 63 /\ m < 48 - 16 * j
          /\ s + 16 + m < N /\ Violated(s + 16 + m)
      BY DEF Failing
    <3>2. s + 16 + m = s + (m + 16) /\ m + 16 \in 0 .. 63 /\ m + 16 < 64 - 16 * j
      BY <3>1, <1>1, <1>2
    <3>3. s + (m + 16) < N /\ Violated(s + (m + 16))
      BY <3>1, <3>2
    <3>4. m + 16 \in ne  BY <3>2, <3>3, <2>2
    <3>5. QED  BY <3>1, <3>4
  <2>5. QED  BY <2>1, <2>3, <2>4
<1>9. 64 * i' + 16 * j' = s + 16 /\ 64 - 16 * j' = 48 - 16 * j /\ ~Loads'
  BY <1>1 DEF Loads
<1> HIDE DEF s
<1>10. Left(64 * i + 16 * j)' = Left(s + 16)
  BY <1>1, <1>9, Zenon DEF Left, Violated
<1>11. Failing(64 * i + 16 * j, 64 - 16 * j)' = Failing(s + 16, 48 - 16 * j)
  BY <1>1, <1>9, Zenon DEF Failing, Violated
<1>12. Progress'
  BY <1>1, <1>7, <1>8, <1>10, <1>11, Zenon DEF Progress
<1>13. TypeOK'
  <2>1. ne' \subseteq 0 .. VecUbcs - 1  BY <1>8 DEF Failing, VecUbcs
  <2>2. j' \in 0 .. 4  BY <1>1
  <2>3. QED  BY <1>1, <1>4, <2>1, <2>2 DEF UbcInv, TypeOK, avx512_accumulate
<1>14. QED
  BY <1>1, <1>12, <1>13 DEF UbcInv, Bounds, MaskIsWhatConditionsLeave

LEMMA NextVectorPreserves == UbcInv /\ avx512_next => UbcInv'
<1> SUFFICES ASSUME UbcInv, avx512_next  PROVE UbcInv'  OBVIOUS
<1>1. /\ pc = "accumulate" /\ pc' = "avx512" /\ W' = W
      /\ i \in Nat /\ i' = i + 1 /\ j \in 0 .. 4
      /\ impossible' = impossible /\ 64 * i < N /\ mask' = 0
      /\ ~ChunksLeft /\ (~Loads => Possible = Left(64 * i + 16 * j))
  BY DEF UbcInv, TypeOK, Bounds, Progress, avx512_next
<1>2. j = 4 \/ 64 * i + 16 * j >= N
  <2>1. j \in Chunks \/ j = 4  BY <1>1 DEF Chunks
  <2>2. 64 * i + 16 * j \in Nat  BY <1>1
  <2>3. QED  BY <1>1, <2>1, <2>2, Sizes DEF ChunksLeft, VecUbcs
<1>3. ~Loads
  BY <1>1, <1>2, Sizes DEF Loads
<1>4. Left(64 * i + 16 * j) = Left(64 * i + 64)
  <2>1. CASE j = 4
    <3>1. 64 * i + 16 * j = 64 * i + 64  BY <1>1, <2>1
    <3>2. QED  BY <3>1
  <2>2. CASE 64 * i + 16 * j >= N
    <3>1. /\ 64 * i + 16 * j \in Nat /\ 64 * i + 64 \in Nat
          /\ 64 * i + 64 >= N
      BY <1>1, <2>2, Sizes
    <3>2. QED  BY <3>1, <2>2, LeftAll
  <2>3. QED  BY <1>2, <2>1, <2>2
<1>5. 64 * i' = 64 * i + 64  BY <1>1
<1>6. Left(64 * i)' = Left(64 * i + 64)
  BY <1>1, <1>5, Zenon DEF Left, Violated
<1>7. Possible' = Possible  BY <1>1 DEF Possible
<1>8. Progress'
  BY <1>1, <1>3, <1>4, <1>6, <1>7, Zenon DEF Progress
<1>9. TypeOK'  BY <1>1 DEF UbcInv, TypeOK, avx512_next
<1>10. QED  BY <1>1, <1>8, <1>9 DEF UbcInv, Bounds, MaskIsWhatConditionsLeave

LEMMA VectorEndPreserves == UbcInv /\ avx512_end => UbcInv'
<1> SUFFICES ASSUME UbcInv, avx512_end  PROVE UbcInv'  OBVIOUS
<1>1. /\ pc = "avx512" /\ pc' = "check" /\ W' = W /\ mask' = 0
      /\ i \in Nat /\ 64 * i >= N /\ i > 0
      /\ impossible \in [Lanes -> SUBSET DV]
      /\ dvmask' = nor_rv16u32_vl(impossible) \cap MaskBits
      /\ Possible = Left(64 * i)
  <2>1. pc = "avx512" /\ i \in Nat /\ ~(i < Vectors)
    BY Sizes DEF UbcInv, TypeOK, avx512_end
  <2>2. ~(64 * i < N) /\ i > 0  BY <2>1, Sizes
  <2>3. 64 * i >= N  BY <2>1, <2>2, Sizes
  <2>4. QED
    BY <2>1, <2>2, <2>3 DEF UbcInv, TypeOK, Bounds, Progress, avx512_end
<1>2. Possible = Left(N)
  <2>1. 64 * i \in Nat  BY <1>1
  <2>2. QED  BY <1>1, <2>1, LeftAll
<1>3. dvmask' \cap DV = Possible
  <2>1. \A d \in DV : d \in nor_rv16u32_vl(impossible)
                      <=> \A l \in Lanes : d \notin impossible[l]
    BY <1>1, ReductionIsNor, Sizes
  <2>2. QED  BY <1>1, <2>1, Sizes DEF Possible
<1>4. Left(N)' = Left(N)  BY <1>1 DEF Left, Violated
<1>5. TypeOK'  BY <1>1 DEF UbcInv, TypeOK, avx512_end
<1>6. \A d \in dvmask' : d >= 8 * mask'
  BY <1>1 DEF MaskBits
<1>7. Progress' /\ MaskIsWhatConditionsLeave'
  BY <1>1, <1>2, <1>3, <1>4 DEF Progress, MaskIsWhatConditionsLeave
<1>8. QED  BY <1>1, <1>5, <1>6, <1>7 DEF UbcInv, Bounds

LEMMA CheckWordPreserves == UbcInv /\ check_word => UbcInv'
<1> SUFFICES ASSUME UbcInv, check_word  PROVE UbcInv'  OBVIOUS
<1>1. /\ pc = "check" /\ W' = W /\ dvmask' = dvmask
      /\ dvmask \subseteq MaskBits /\ mask \in 0 .. dvmask_bytes
      /\ dvmask_bytes - mask >= 4 /\ dvmask \cap DV = Left(N)
      /\ \A d \in dvmask : d >= 8 * mask
  BY DEF UbcInv, TypeOK, Bounds, MaskIsWhatConditionsLeave, check_word
<1>2. Left(N)' = Left(N)  BY <1>1 DEF Left, Violated
<1>3. CASE BytesSet(mask, mask + 4)
  <2>1. pc' = "done" /\ need_recompress' = TRUE /\ mask' = mask
    BY <1>3 DEF check_word
  <2>2. dvmask # {}  BY <1>3 DEF BytesSet
  <2>3. TypeOK'  BY <2>1, <1>1 DEF UbcInv, TypeOK, check_word
  <2>4. Bounds'  BY <2>1, <2>2, <1>1 DEF Bounds
  <2>5. QED
    BY <1>1, <1>2, <2>1, <2>3, <2>4
    DEF UbcInv, Progress, MaskIsWhatConditionsLeave
<1>4. CASE ~BytesSet(mask, mask + 4)
  <2>1. pc' = "check" /\ mask' = mask + 4
    BY <1>1, <1>4 DEF check_word
  <2>2. \A d \in dvmask : d >= 8 * (mask + 4)
    <3> SUFFICES ASSUME NEW d \in dvmask, d < 8 * (mask + 4)  PROVE FALSE
      BY <1>1, Sizes DEF MaskBits
    <3>1. d \in 8 * mask .. 8 * (mask + 4) - 1
      BY <1>1, Sizes DEF MaskBits
    <3>2. QED  BY <3>1, <1>4 DEF BytesSet
  <2>3. mask' \in 0 .. dvmask_bytes  BY <1>1, <2>1, Sizes
  <2>4. TypeOK'  BY <2>1, <2>3, <1>1 DEF UbcInv, TypeOK, check_word
  <2>5. Bounds'  BY <2>1, <2>2, <1>1 DEF Bounds
  <2>6. QED
    BY <1>1, <1>2, <2>1, <2>4, <2>5
    DEF UbcInv, Progress, MaskIsWhatConditionsLeave
<1>5. QED  BY <1>3, <1>4

LEMMA CheckTailPreserves == UbcInv /\ check_tail => UbcInv'
<1> SUFFICES ASSUME UbcInv, check_tail  PROVE UbcInv'  OBVIOUS
<1>1. /\ pc = "check" /\ pc' = "done" /\ W' = W /\ dvmask' = dvmask /\ mask' = mask
      /\ dvmask \subseteq MaskBits /\ dvmask \cap DV = Left(N)
      /\ \A d \in dvmask : d >= 8 * mask
      /\ need_recompress' = BytesSet(mask, dvmask_bytes)
      /\ mask \in 0 .. dvmask_bytes
  BY DEF UbcInv, TypeOK, Bounds, MaskIsWhatConditionsLeave, check_tail
<1>2. Left(N)' = Left(N)  BY <1>1 DEF Left, Violated
<1>3. BytesSet(mask, dvmask_bytes) <=> dvmask # {}
  <2>1. \A d \in dvmask : d \in 8 * mask .. 8 * dvmask_bytes - 1
    BY <1>1, Sizes DEF MaskBits
  <2>2. QED  BY <2>1 DEF BytesSet
<1>4. need_recompress' \in BOOLEAN /\ need_recompress' = (dvmask # {})
  BY <1>1, <1>3, Zenon DEF BytesSet
<1>5. TypeOK'  BY <1>1, <1>4 DEF UbcInv, TypeOK, check_tail
<1>6. Bounds'  BY <1>1, <1>4 DEF Bounds
<1>7. QED
  BY <1>1, <1>2, <1>5, <1>6 DEF UbcInv, Progress, MaskIsWhatConditionsLeave

LEMMA StutterPreserves == UbcInv /\ UNCHANGED vars => UbcInv'
<1> SUFFICES ASSUME UbcInv, UNCHANGED vars  PROVE UbcInv'  OBVIOUS
<1>1. TypeOK' /\ Bounds'  BY DEF UbcInv, TypeOK, Bounds, vars
<1>3. Progress' /\ MaskIsWhatConditionsLeave'
  BY DEF UbcInv, Progress, MaskIsWhatConditionsLeave, Left, Violated,
         Possible, Failing, Loads, vars
<1>4. QED  BY <1>1, <1>3 DEF UbcInv

-------------------------------------------------------------------------------

(***************************************************************************)
(* The invariant: at every point of either version, what it has kept is    *)
(* what the conditions it has dealt with leave.                            *)
(***************************************************************************)
THEOREM UbcInvariant == Spec => []UbcInv
<1>1. UbcInv /\ [Next]_vars => UbcInv'
  BY BaselineConditionPreserves, BaselineEndPreserves, StorePreserves,
     ConditionsPreserve, AccumulatePreserves, NextVectorPreserves,
     VectorEndPreserves, CheckWordPreserves, CheckTailPreserves,
     StutterPreserves
  DEF Next
<1>2. QED  BY InitEstablishes, <1>1, PTL DEF Spec

(***************************************************************************)
(* TypeOK, for the two versions of ubc_check and for check_dvmask.         *)
(***************************************************************************)
THEOREM TypeCorrect == Spec => []TypeOK
<1>1. UbcInv => TypeOK  BY DEF UbcInv
<1>2. QED  BY <1>1, UbcInvariant, PTL

(***************************************************************************)
(* sha1dc_ubc_check, in both versions, leaves the vectors whose conditions *)
(* all hold of the message: ubc_check_baseline, with its early return, and *)
(* ubc_check_avx512, with its lanes, agree.                                *)
(***************************************************************************)
THEOREM VersionsAgree == Spec => []MaskIsWhatConditionsLeave
<1>1. UbcInv => MaskIsWhatConditionsLeave  BY DEF UbcInv
<1>2. QED  BY <1>1, UbcInvariant, PTL

(***************************************************************************)
(* Progress, condition by condition, for both versions.                    *)
(***************************************************************************)
THEOREM NothingRuledOutWrongly == Spec => []Progress
<1>1. UbcInv => Progress  BY DEF UbcInv
<1>2. QED  BY <1>1, UbcInvariant, PTL

-------------------------------------------------------------------------------
(* The spare bits of the mask. *)

SpareBitsStay ==
  /\ WholeMask \ DV \subseteq possible
  /\ pc \in {"check", "done"} => MaskBits \ DV \subseteq dvmask

LEMMA SpareBitsKept ==
  ASSUME UbcInv, SpareBitsStay, [Next]_vars
  PROVE  SpareBitsStay'
<1>1. MaskBits \subseteq WholeMask
  BY Sizes DEF MaskBits, WholeMask
<1>2. CASE baseline_condition
  <2>1. pc = "baseline" /\ i \in 0 .. N - 1 /\ pc' \in {"baseline", "store"}
    BY <1>2, Sizes DEF UbcInv, TypeOK, baseline_condition
  <2>2. RuledOut(ubc[i]) \subseteq DV
    BY <2>1, TableAssumption DEF RuledOut, Ubc
  <2>3. possible \ RuledOut(ubc[i]) \subseteq possible' 
    BY <1>2 DEF baseline_condition
  <2>4. QED  BY <2>1, <2>2, <2>3 DEF SpareBitsStay
<1>3. CASE store
  BY <1>1, <1>3 DEF store, SpareBitsStay
<1>4. CASE avx512_end
  <2>1. /\ impossible \in [Lanes -> SUBSET DV]
        /\ dvmask' = nor_rv16u32_vl(impossible) \cap MaskBits
    BY <1>4 DEF avx512_end, UbcInv, TypeOK
  <2>2. \A d \in WholeMask \ DV : d \in nor_rv16u32_vl(impossible)
    BY <2>1, ReductionIsNor
  <2>3. QED  BY <1>1, <1>4, <2>1, <2>2 DEF avx512_end, SpareBitsStay
<1>5. CASE \/ baseline_end \/ avx512_conditions \/ avx512_accumulate \/ avx512_next
           \/ check_word \/ check_tail \/ UNCHANGED vars
  <2>1. UNCHANGED <<possible, dvmask>> /\ (pc' \in {"check", "done"} => pc \in {"check", "done"})
    BY <1>5 DEF baseline_end, avx512_conditions, avx512_accumulate, avx512_next,
                check_word, check_tail, vars
  <2>2. QED  BY <2>1 DEF SpareBitsStay
<1>6. QED  BY <1>2, <1>3, <1>4, <1>5 DEF Next

(***************************************************************************)
(* process goes on to recompress if some vector is left (check_dvmask in   *)
(* lib/core.h), and also if the number of vectors does not fill the mask.  *)
(***************************************************************************)
THEOREM SearchIsNeeded == Spec => []SearchIffVectorsLeft
<1>1. Init => SpareBitsStay
  BY DEF Init, SpareBitsStay, pick_ubc_check_impl
<1>2. Spec => []SpareBitsStay
  BY <1>1, SpareBitsKept, UbcInvariant, PTL DEF Spec
<1>3. UbcInv /\ SpareBitsStay => SearchIffVectorsLeft
  <2> SUFFICES ASSUME UbcInv, SpareBitsStay, pc = "done"
               PROVE  need_recompress =
                        (Left(N) # {} \/ n_disturbance_vectors % 8 # 0)
    BY DEF SearchIffVectorsLeft
  <2>1. need_recompress = (dvmask # {}) /\ dvmask \cap DV = Left(N)
    BY DEF UbcInv, Bounds, MaskIsWhatConditionsLeave
  <2>2. dvmask \subseteq MaskBits /\ MaskBits \ DV \subseteq dvmask
    BY DEF UbcInv, TypeOK, SpareBitsStay
  <2>3. MaskBits \ DV = {} <=> n_disturbance_vectors % 8 = 0
    BY Sizes DEF MaskBits, DV, dvmask_bytes
  <2>4. QED  BY <2>1, <2>2, <2>3
<1>4. QED  BY <1>2, <1>3, UbcInvariant, PTL
===============================================================================
